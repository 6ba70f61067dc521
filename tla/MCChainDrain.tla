----------------------------- MODULE MCChainDrain -----------------------------
(* Instances of ChainDrain for TLC. *)
EXTENDS ChainDrain

CONSTANTS p1, p2, r1, r2, a1, h1

OneChain == << p1 >>
TwoChain == << p1, p2 >>
================================================================================
