\* Four coroutines on three threads: two can call set() or reset() while a
\* third awaits, and the role of the consumer can pass to another coroutine.
CONSTANTS
  Threads = {t1, t2, t3}
  Coroutines = {c1, c2, c3, c4}
  Null = Null
SPECIFICATION Spec
SYMMETRY Symmetry
CHECK_DEADLOCK FALSE
INVARIANTS
  TypeOK
  ConsumerListed
PROPERTY ImplementsEvent
