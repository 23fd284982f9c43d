---------------------------- MODULE IntrusiveList ----------------------------
(***************************************************************************)
(* The library queues suspended coroutines in singly linked lists whose    *)
(* nodes are operation objects in the coroutines' own frames.  link maps   *)
(* each node to the one behind it; what is not a node ends the list.       *)
(***************************************************************************)
EXTENDS FiniteSets, Naturals, Sequences

ListFrom(head, link) ==
  LET walk[i \in 0..Cardinality(DOMAIN link)] ==
        IF i = 0 THEN head
        ELSE IF walk[i - 1] \in DOMAIN link THEN link[walk[i - 1]] ELSE walk[i - 1]
      length == Cardinality({i \in DOMAIN walk : walk[i] \in DOMAIN link})
  IN [i \in 1..length |-> walk[i - 1]]

(* s has the nodes a walk from head meets, in their order and each once,   *)
(* and the walk ends: what ListFrom returns, without the walk.             *)
IsList(s, head, link) ==
  /\ s \in Seq(DOMAIN link)
  /\ \A i, j \in 1..Len(s) : s[i] = s[j] => i = j
  /\ IF s = <<>> THEN head \notin DOMAIN link ELSE head = s[1]
  /\ \A i \in 1..Len(s) :
       IF i < Len(s) THEN link[s[i]] = s[i + 1] ELSE link[s[i]] \notin DOMAIN link

(* The nodes a walk from head meets: the least set that has head, if that  *)
(* is a node, and with a node the one behind it.                           *)
NodesFrom(head, link) ==
  {n \in DOMAIN link : \A S \in SUBSET DOMAIN link :
     /\ head \in DOMAIN link => head \in S
     /\ \A m \in S : link[m] \in DOMAIN link => link[m] \in S
     => n \in S}
==============================================================================
