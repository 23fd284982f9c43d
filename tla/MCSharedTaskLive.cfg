\* Liveness on a smaller instance: three clients on two threads.
CONSTANTS
  Threads = {t1, t2}
  Coroutines = {body, c1, c2, c3}
  Body = body
  Creator = c1
  NotStarted = NotStarted
  Ready = Ready
  Null = Null
  Outcomes = {value, error}
  NoOutcome = NoOutcome
SPECIFICATION FairSpec
PROPERTY AwaitContinues
