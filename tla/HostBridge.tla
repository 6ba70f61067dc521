------------------------------ MODULE HostBridge -------------------------------
(***************************************************************************)
(* What a native plugin can ask of the host (host_bridge.rs) and on whose  *)
(* behalf (identity_sig.rs).                                               *)
(*                                                                         *)
(* A backend is handed the identity of the request it serves under a tag   *)
(* that names the dispatch.  It may hand the identity back through a host  *)
(* slot, then or later; the host believes it while the dispatch is open.   *)
(* The MAC is taken as unforgeable: anything but an identity as it was     *)
(* signed, under this alias, is Unsigned.                                  *)
(*                                                                         *)
(* A slot blocks its thread on a future it spawns on the host's runtime.   *)
(***************************************************************************)
EXTENDS NativeHost

VARIABLE
    host        \* next_dispatch, live_dispatches, the nonce of each call
                \* (0: none), and the host slot its thread is in

Unsigned == "unsigned"
NoSlot   == "none"
System   == "system"    \* no caller's identity

ASSUME IdentityAssumption == System \notin Callers

HostInit ==
    host = [next |-> 1, live |-> {}, nonce |-> [c \in Callers |-> 0],
            in |-> [c \in Callers |-> NoSlot]]

-------------------------------------------------------------------------------
(* Dispatches.                                                              *)

(* The slots that carry a caller's identity. *)
Stamps(class, slot) == class = "backend" /\ slot \in {BackendExecute, ExecuteStreaming}

BeginDispatch(c) ==
    host' = [host EXCEPT !.next = @ + 1, !.live = @ \cup {host.next}, !.nonce[c] = host.next]

(* DispatchGuard::drop. *)
Retired(c) == [host EXCEPT !.live = @ \ {host.nonce[c]}]

(* Mutant: the guard is a local of execute_streaming. *)
AfterReplyLocal(c) == host' = Retired(c)

(* The guard rides on the stream, or goes when the call returns. *)
AfterReply(c) == host' = IF calls'[c].hand = "held" THEN host ELSE Retired(c)

-------------------------------------------------------------------------------
(* Host slots.                                                              *)

(* The adapter owns the bridge.  A waiting call borrows the adapter; the     *)
(* leases and key-value handles of a cluster share the instance only.        *)
HostBridgeLive ==
    \/ {Loader, Adapter} \cap inst.owners # {}
    \/ \E c \in Callers : CallOf(c) \in inst.owners

(* An identity the plugin was handed, or anything else. *)
Identities == {c \in Callers : host.nonce[c] # 0} \cup {Unsigned}

VerifyStrip(id) ==
    IF id \in Callers /\ host.nonce[id] \in host.live THEN id ELSE System

(* The plugin calls from the thread of c's slot, or of the stream it opened. *)
Enter(c, as) ==
    /\ calls[c].in \/ calls[c].plug
    /\ host.in[c] = NoSlot
    /\ HostBridgeLive
    /\ host' = [host EXCEPT !.in[c] = as]
    /\ UNCHANGED nativeVars

HostResolveCredentials(c, id) == Enter(c, VerifyStrip(id))
HostInvokeTool(c, id)         == Enter(c, VerifyStrip(id))

(* Refused unless the identity is verified. *)
HostIssueCredential(c, id) == VerifyStrip(id) # System /\ Enter(c, VerifyStrip(id))

HostResolveSecret(c)  == Enter(c, System)
HostConfigSnapshot(c) == Enter(c, System)
HostAuditEvent(c)     == Enter(c, System)
HostCacheGet(c)       == Enter(c, System)
HostCachePut(c)       == Enter(c, System)
HostFetchContent(c)   == Enter(c, System)
HostStoreContent(c)   == Enter(c, System)

HostSlot(c) ==
    \/ \E id \in Identities :
           HostResolveCredentials(c, id) \/ HostInvokeTool(c, id) \/ HostIssueCredential(c, id)
    \/ HostResolveSecret(c) \/ HostConfigSnapshot(c) \/ HostAuditEvent(c)
    \/ HostCacheGet(c) \/ HostCachePut(c) \/ HostFetchContent(c) \/ HostStoreContent(c)

(* Every worker of the runtime is inside a call made on it. *)
Stuck(rt) ==
    Cardinality({c \in Callers : calls[c].pc = "waiting" /\ Blocking(calls[c].slot, rt)})
        >= rt.workers

(* block_on_host_service: the spawned future ran to its end, or was lost     *)
(* with a panic or the runtime, which the slot reports as an error.          *)
ServiceReturns(c, rt) ==
    /\ host.in[c] # NoSlot
    /\ ~Stuck(rt)
    /\ host' = [host EXCEPT !.in[c] = NoSlot]
    /\ UNCHANGED nativeVars
===============================================================================
