\* Two threads and three calls: a thread can call sync_wait again, reusing
\* the address of its event, while the other one is still in the set() of its
\* first call, and the other one can call in turn, so that both are blocked.
CONSTANTS
  Threads = {t1, t2}
  Coroutines = {k1, k2, k3}
  Outcomes = {value, exception}
  NoOutcome = NoOutcome
  Null = Null
SPECIFICATION FairSpec
CHECK_DEADLOCK FALSE
INVARIANTS
  TypeOK
  NoUseAfterFree
PROPERTIES
  ImplementsCall
  SyncWaitReturns
