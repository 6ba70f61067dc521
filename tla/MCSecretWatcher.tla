--------------------------- MODULE MCSecretWatcher ---------------------------
(* Instances of SecretWatcher for TLC. *)
EXTENDS SecretWatcher

CONSTANTS u1, c1, c2
================================================================================
