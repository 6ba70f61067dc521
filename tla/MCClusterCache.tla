---------------------------- MODULE MCClusterCache ----------------------------
(* Instances of ClusterCache for TLC. *)
EXTENDS ClusterCache

CONSTANTS n1, n2, t1, t2

(* Each instance has one task, so the two change places together. *)
Swap == {[x \in {n1, n2, t1, t2} |-> CASE x = n1 -> n2 [] x = n2 -> n1
                                       [] x = t1 -> t2 [] x = t2 -> t1]}

EachItsNode == [t \in Tasks |-> IF t = t1 THEN n1 ELSE n2]
================================================================================
