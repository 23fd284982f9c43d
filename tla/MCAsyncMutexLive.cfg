\* Liveness on a smaller instance: the lock passes between two threads and
\* two coroutines can wait for it at once.
CONSTANTS
  Threads = {t1, t2}
  Coroutines = {c1, c2, c3}
  NotLocked = NotLocked
  Null = Null
SPECIFICATION FairSpec
PROPERTY QueuedAcquires
