\* Five coroutines on two threads: x waits behind c in the list that the set()
\* of d is working through, c awaits the event again inside that set(), and
\* meanwhile e, which may do anything, queues and resets and f sets the event
\* on the other thread.  With fewer nobody can fail to queue for ever while
\* somebody else is still to be resumed.  set() calls also overlap and nest.
\* All may end up waiting for an event that nobody is left to set.
CONSTANTS
  Threads = {t1, t2}
  Coroutines = {c, d, e, f, x}
  Awaiters = {c, e, x}
  Setters = {d, e, f}
  Resetters = {e}
  SetState = SetState
  Null = Null
SPECIFICATION RoleSpec
INVARIANTS
  TypeOK
  ListsExact
PROPERTIES
  ImplementsEvent
  ReleasedResumes
CHECK_DEADLOCK FALSE
