\* Three tasks and two clients on three threads: a task can own and await
\* another one, be passed on to the second client while the first one runs
\* elsewhere, and a third thread resumes what has suspended.
CONSTANTS
  Threads = {t1, t2, t3}
  Coroutines = {r, s, a, b, d}
  Tasks = {a, b, d}
  Outcomes = {value, exception}
  NoOutcome = NoOutcome
  Null = Null
SYMMETRY Symmetry
SPECIFICATION Spec
CHECK_DEADLOCK FALSE
INVARIANTS
  TypeOK
  NoUseAfterFree
  OwnerAwaits
  NoLostContinuation
  NoPileUp
PROPERTY ImplementsCall
