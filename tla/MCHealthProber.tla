---------------------------- MODULE MCHealthProber ----------------------------
(* Instances of HealthProber for TLC. *)
EXTENDS HealthProber

CONSTANTS p1, p2

Both == << p1, p2 >>
================================================================================
