----------------------------- MODULE DepthFirst -----------------------------
(***************************************************************************)
(* What yanger's loader promises about dependencies, whatever order the    *)
(* files come in: a node is opened once and closed once, and it comes to   *)
(* depend only on nodes that are already closed.  So a stored module never *)
(* refers to one that is half built, and the stored modules have no cycle. *)
(***************************************************************************)
CONSTANT Node

VARIABLES
  status,  \* "new", "open" while its dependencies are collected, "closed"
  deps     \* the nodes each node depends on

dfVars == <<status, deps>>

Init ==
  /\ status = [n \in Node |-> "new"]
  /\ deps = [n \in Node |-> {}]

Open(n) ==
  /\ status[n] = "new"
  /\ status' = [status EXCEPT ![n] = "open"]
  /\ UNCHANGED deps

Depend(n, d) ==
  /\ status[n] = "open"
  /\ status[d] = "closed"
  /\ deps' = [deps EXCEPT ![n] = @ \cup {d}]
  /\ UNCHANGED status

Close(n) ==
  /\ status[n] = "open"
  /\ status' = [status EXCEPT ![n] = "closed"]
  /\ UNCHANGED deps

Next ==
  \E n \in Node : Open(n) \/ Close(n) \/ (\E d \in Node : Depend(n, d))

Spec == Init /\ [][Next]_dfVars

-----------------------------------------------------------------------------
TypeOK ==
  /\ status \in [Node -> {"new", "open", "closed"}]
  /\ deps \in [Node -> SUBSET Node]

(* Dependencies are complete when they are recorded.                       *)
DependOnClosed == \A n \in Node : \A d \in deps[n] : status[d] = "closed"

(* No cycle: among any nodes there is one that depends on none of them.    *)
Acyclic ==
  \A S \in (SUBSET Node) \ {{}} : \E n \in S : deps[n] \cap S = {}
=============================================================================
