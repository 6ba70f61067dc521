----------------------------- MODULE PackageTrust -----------------------------
(***************************************************************************)
(* Which native artifacts the host may load (native.rs, signature.rs,      *)
(* verify.rs, revocation.rs).  The bytes of an artifact stand for their    *)
(* own SHA-256.                                                            *)
(***************************************************************************)
EXTENDS Integers, Sequences

CONSTANTS
    Artifacts,  \* the byte strings that may lie at the plugin's path
    SignedBy    \* SignedBy[a]: keys under which the 64-byte signature file
                \* beside a verifies; {} when it is missing or malformed

ASSUME SignatureAssumption == DOMAIN SignedBy = Artifacts

-------------------------------------------------------------------------------
SignaturePolicies == {"Disabled", "Warn", "Enforce"}

SkipsVerification(policy) == policy = "Disabled"
RefusesOnFailure(policy)  == policy = "Enforce"

(* verify_signature_over_bytes. *)
SignatureOver(a, key) == key \in SignedBy[a]

(* try_verify_signature: no trusted key is a failure, and one that verifies  *)
(* is enough.                                                                *)
TryVerifySignature(a, keys) == \E key \in keys : SignatureOver(a, key)

(* RevocationList::from_file: one bad entry makes the whole list unusable.   *)
(* An entry's hash is trimmed and lowercased before it is compared, so two   *)
(* spellings of a hash are duplicates.                                       *)
WellFormed(entry) == entry.hash \in Artifacts /\ entry.reason

UsableList(file) ==
    /\ file.version = 1
    /\ \A i \in 1..Len(file.entries) : WellFormed(file.entries[i])
    /\ \A i, j \in 1..Len(file.entries) :
           file.entries[i].hash = file.entries[j].hash => i = j

(* RevocationList::lookup. *)
Revoked(file, a) == \E i \in 1..Len(file.entries) : file.entries[i].hash = a

(* verify_native_artifact under the options of the plugin's entry.  The      *)
(* artifact is read once; the pin, the signature and the revocation list are *)
(* checked against what was read.  Warn is strict as soon as there are keys, *)
(* and the revocation list counts under every policy.                        *)
VerifyArtifact(a, o) ==
    /\ o.pin \in {"none", a}
    /\ \/ SkipsVerification(o.policy)
       \/ TryVerifySignature(a, o.keys)
       \/ ~RefusesOnFailure(o.policy) /\ o.keys = {}
    /\ ~Revoked(o.list, a)
===============================================================================
