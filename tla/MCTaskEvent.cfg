\* Two tasks, of which one can await the other, a client that awaits them and
\* one that sets and resets the event, on two threads.
CONSTANTS
  Threads = {t1, t2}
  Coroutines = {r, s, a, b}
  Tasks = {a, b}
  Setter = s
  Outcomes = {value}
  NoOutcome = NoOutcome
  Null = Null
SPECIFICATION FairSpec
PROPERTIES
  HonoursContracts
  AwaiterContinues
