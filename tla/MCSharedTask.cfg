\* The creator and three more clients share a body on three threads: two of
\* them can race to start it while others queue, and lists of three waiters
\* are resumed while clients drop the last references.
CONSTANTS
  Threads = {t1, t2, t3}
  Coroutines = {body, c1, c2, c3, c4}
  Body = body
  Creator = c1
  NotStarted = NotStarted
  Ready = Ready
  Null = Null
  Outcomes = {value, error}
  NoOutcome = NoOutcome
SPECIFICATION Spec
SYMMETRY Symmetry
INVARIANTS
  TypeOK
  NoUseAfterFree
  FrameCounted
  ListsExact
PROPERTY ImplementsLazyResult
