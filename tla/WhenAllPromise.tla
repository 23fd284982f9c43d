--------------------------- MODULE WhenAllPromise ---------------------------
(***************************************************************************)
(* WhenAll implements ForkJoin.                                            *)
(***************************************************************************)
EXTENDS WhenAll

Phase ==
  IF pc[Parent] \in {"starting", "arriving", "awaiting"} THEN "forked"
  ELSE IF m_awaiting_coroutine = Null THEN "idle" ELSE "joined"

Join == INSTANCE ForkJoin WITH phase <- Phase

(* However the tasks of a when_all start, suspend and complete, on its own *)
(* thread or on others, they are joined after the last, with all their     *)
(* values or with an exception that one of them has thrown.                *)
ImplementsForkJoin == Join!Spec

(* A coroutine that awaits a when_all continues sometime.                  *)
ParentContinues ==
  pc[Parent] \in {"starting", "arriving", "awaiting"} ~> pc[Parent] = "running"
=============================================================================
