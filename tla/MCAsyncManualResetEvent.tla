---------------------- MODULE MCAsyncManualResetEvent ----------------------
(***************************************************************************)
(* An instance in which each coroutine of the program has a role.          *)
(***************************************************************************)
EXTENDS AsyncManualResetEventPromise

CONSTANTS
  Awaiters,     (* coroutines that may co_await the event                  *)
  Setters,      (* that may call set()                                     *)
  Resetters     (* that may call reset()                                   *)

RoleNext ==
  \E t \in Threads, c \in Coroutines :
    \/ Library(t, c)
    \/ Enter(t, c) \/ Leave(t, c) \/ (\E d \in Coroutines : Switch(t, c, d))
    \/ c \in Awaiters /\ AwaitReady(t, c)
    \/ c \in Setters /\ Set(t, c)
    \/ c \in Resetters /\ Reset(t, c)

RoleSpec == Init /\ [][RoleNext]_vars /\ Fairness
=============================================================================
