\* Three coroutines on two threads, with two guards at a time in a frame: a
\* guard can be moved, and moved-from guards are alive beside the others.
CONSTANTS
  Threads = {t1, t2}
  Coroutines = {c1, c2, c3}
  NotLocked = NotLocked
  Null = Null
  MaxGuards = 2
SPECIFICATION LockSpec
SYMMETRY Symmetry
INVARIANTS
  UnlockedOnce
