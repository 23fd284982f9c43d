\* Four coroutines contend for the mutex on three threads: lists of up to
\* three waiters, so the reversal of the new waiters matters, and others can
\* queue while it runs.
CONSTANTS
  Threads = {t1, t2, t3}
  Coroutines = {c1, c2, c3, c4}
  NotLocked = NotLocked
  Null = Null
SPECIFICATION Spec
SYMMETRY Symmetry
INVARIANTS
  TypeOK
  MutualExclusion
  NoStrandedWaiter
  SourceAssertions
  ListsExact
  NoDoubleResume
PROPERTY ImplementsFifoLock
