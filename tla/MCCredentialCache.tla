-------------------------- MODULE MCCredentialCache --------------------------
(* Instances of CredentialCache for TLC. *)
EXTENDS CredentialCache, TLC

CONSTANTS k1, k2, i1, r1, r2, s1

OneIssuer == [k \in Keys |-> i1]

Symmetric == Permutations(Requests) \cup Permutations(Keys)
================================================================================
