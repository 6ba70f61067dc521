---------------------------- MODULE MCReplayGuard ----------------------------
(* Instances of ReplayGuard for TLC. *)
EXTENDS ReplayGuard

CONSTANTS e1, e2, e3, e4

(* Two stamped events, one without a stamp, one without an id. *)
Stamps == [e \in Events |-> IF e = e1 THEN 2 ELSE IF e = e2 THEN 3
                            ELSE IF e = e3 THEN 0 ELSE 3]
================================================================================
