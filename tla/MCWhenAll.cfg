\* At most three tasks: one that completes while others are still started,
\* one on the other thread, and two that fail in different ways.
CONSTANTS
  N = 3
  Threads = {t1, t2}
  Parent = parent
  Coroutines = {1, 2, 3, parent}
  Values = {value}
  Exceptions = {error1, error2}
  NoOutcome = NoOutcome
  Null = Null
SPECIFICATION FairSpec
CHECK_DEADLOCK FALSE
INVARIANTS
  TypeOK
  CountExact
  NoUseAfterFree
  NoDoubleResume
PROPERTIES
  ImplementsForkJoin
  ParentContinues
