------------------------------ MODULE NativeHost ------------------------------
(***************************************************************************)
(* One native plugin and the adapter around it (native_loader.rs): the     *)
(* load of its library, the life of its instance, and the calls and        *)
(* handles that reach into it while other threads let go of it.            *)
(*                                                                         *)
(* The adapter hands a raw pointer to the instance to the thread that      *)
(* makes a call, so the instance lives exactly as long as the Arcs of the  *)
(* adapter, the waiting calls and the handles that share it.  `rt' says    *)
(* how the host runs: rt.inline (inline_fast), rt.multi (a multi-threaded  *)
(* runtime) and rt.workers (its threads).                                  *)
(***************************************************************************)
EXTENDS PackageTrust, NativeSlots, FiniteSets

CONSTANTS
    Callers,    \* host tasks that call the plugin, one call each
    QueueCap    \* STREAM_BRIDGE_CAPACITY and the sink's queue

ASSUME QueueAssumption == QueueCap \in Nat \ {0}
ASSUME CallerAssumption == "none" \notin Callers

VARIABLES
    disk,       \* the artifact at the plugin's path
    load,       \* load_native_plugin and the adapter's constructor
    inst,       \* the plugin's instances: made, freed, and the owners of one
    calls       \* calls[c]: a call, the handle it opened, the bridge it lent

nativeVars == <<disk, load, inst, calls>>

(* The owners of an instance. *)
Loader      == <<"host", "loader">>
Adapter     == <<"host", "adapter">>
CallOf(c)   == <<c, "call">>
HandleOf(c) == <<c, "handle">>

NotLoaded == [pc |-> "none", read |-> "none", code |-> "none", late |-> FALSE, ask |-> 1]

NoCall == [pc |-> "idle", slot |-> Unit, via |-> "none", in |-> FALSE, said |-> "none",
           answer |-> "none", bridge |-> "none", plug |-> FALSE, hand |-> "none",
           flag |-> FALSE, queue |-> 0]

NativeInit(artifact) ==
    /\ disk = artifact
    /\ load = NotLoaded
    /\ inst = [made |-> 0, freed |-> 0, owners |-> {}]
    /\ calls = [c \in Callers |-> NoCall]

-------------------------------------------------------------------------------
(* Loading.  A refusal drops the library.                                   *)

Refused == [load EXCEPT !.pc = "refused"]

(* Another process writes the artifact's path. *)
Replace(a) ==
    /\ disk # a
    /\ disk' = a
    /\ load' = [load EXCEPT !.late = @ \/ load.pc = "rehashed"]
    /\ UNCHANGED <<inst, calls>>

Verify(o) ==
    /\ load.pc = "none"
    /\ load' = IF UsableList(o.list) /\ VerifyArtifact(disk, o)
               THEN [load EXCEPT !.pc = "verified", !.read = disk]
               ELSE Refused
    /\ UNCHANGED <<disk, inst, calls>>

(* Mutant: the artifact is not hashed again. *)
RehashSkipped ==
    /\ load.pc = "verified"
    /\ load' = [load EXCEPT !.pc = "rehashed"]
    /\ UNCHANGED <<disk, inst, calls>>

Rehash ==
    /\ load.pc = "verified"
    /\ load' = IF disk = load.read THEN [load EXCEPT !.pc = "rehashed"] ELSE Refused
    /\ UNCHANGED <<disk, inst, calls>>

(* Library::new opens the path a third time. *)
DlOpen ==
    /\ load.pc = "rehashed"
    /\ load' = [load EXCEPT !.pc = "mapped", !.code = disk]
    /\ UNCHANGED <<disk, inst, calls>>

(* verify_abi_layout, mcpg_plugin_register, validate_registration. *)
Registration(ok) ==
    /\ load.pc = "mapped"
    /\ load' = IF ok THEN [load EXCEPT !.pc = "registered"] ELSE Refused
    /\ UNCHANGED <<disk, inst, calls>>

(* derive_manifest, decode_backend_profile and decode_capabilities.  Without *)
(* a descriptor an instance is made for its manifest and freed at once.      *)
DeriveManifest(probe, ok) ==
    /\ load.pc = "registered"
    /\ load' = IF ok THEN [load EXCEPT !.pc = "loaded"] ELSE Refused
    /\ inst' = IF probe THEN [inst EXCEPT !.made = @ + 1, !.freed = @ + 1] ELSE inst
    /\ UNCHANGED <<disk, calls>>

(* The adapter's constructor: make, under guard_ffi_make. *)
Make(ok) ==
    /\ load.pc = "loaded"
    /\ load' = IF ok THEN [load EXCEPT !.pc = "asking"] ELSE Refused
    /\ inst' = IF ok THEN [inst EXCEPT !.made = @ + 1, !.owners = {Loader}] ELSE inst
    /\ UNCHANGED <<disk, calls>>

(* Some owners come and some go; the last one out frees the instance. *)
Owned(come, go) ==
    LET left == (inst.owners \cup come) \ go
    IN  [inst EXCEPT !.owners = left,
                     !.freed = IF inst.owners # {} /\ left = {} THEN @ + 1 ELSE @]

(* Mutant: an answer that cannot be used leaves the instance behind. *)
AskLeaking(asks, ok) ==
    /\ load.pc = "asking"
    /\ load' = IF ~ok THEN Refused
               ELSE IF load.ask < Len(asks) THEN [load EXCEPT !.ask = @ + 1]
               ELSE [load EXCEPT !.pc = "built"]
    /\ inst' = IF ~ok THEN [inst EXCEPT !.owners = {}]
               ELSE IF load.ask < Len(asks) THEN inst
               ELSE Owned({Adapter}, {Loader})
    /\ UNCHANGED <<disk, calls>>

(* What the constructor asks before it takes the instance over. *)
Ask(asks, ok) ==
    /\ load.pc = "asking"
    /\ load' = IF ~ok THEN Refused
               ELSE IF load.ask < Len(asks) THEN [load EXCEPT !.ask = @ + 1]
               ELSE [load EXCEPT !.pc = "built"]
    /\ inst' = IF ~ok THEN Owned({}, {Loader})
               ELSE IF load.ask < Len(asks) THEN inst
               ELSE Owned({Adapter}, {Loader})
    /\ UNCHANGED <<disk, calls>>

-------------------------------------------------------------------------------
(* Calls.                                                                   *)

Blocking(slot, rt) ==
    \/ slot.how = "direct"
    \/ slot.how = "inlinable" /\ rt.inline
    \/ slot.how = "sync" /\ ~rt.multi

Bounded(slot, rt) ==
    slot.how \in {"ferried", "inlinable", "sync"} /\ ~Blocking(slot, rt)

(* An async method's caller may drop its future at the await. *)
Cancellable(slot, rt) ==
    slot.how \in {"ferried", "inlinable", "unbounded"} /\ ~Blocking(slot, rt)

(* Openers lend the plugin a bridge to call back through. *)
Bridged(slot) == slot.opens \in {"stream", "watch", "listener"}

(* Mutant: a lease keeps the bare pointer too. *)
SharesKvOnly(slot) == slot.opens = "kv"

(* The handles that share the instance; a stream, a watch and a listener     *)
(* keep the bare pointer.                                                    *)
Shares(slot) == slot.opens \in {"lease", "kv"}

(* A call goes through the adapter, or through a handle it borrows. *)
Begin(c, slot, via, rt) ==
    /\ calls[c].pc = "idle"
    /\ IF slot.via = "none" THEN via = "none" /\ Adapter \in inst.owners
       ELSE /\ via \in Callers \ {c}
            /\ calls[via].hand = "held" /\ calls[via].slot.opens = slot.via
    /\ calls' = [calls EXCEPT ![c] =
           [NoCall EXCEPT !.pc = "waiting", !.slot = slot, !.via = via, !.in = TRUE,
                          !.bridge = IF Bridged(slot) THEN "live" ELSE "none"]]
    /\ inst' = Owned(IF via = "none" THEN {CallOf(c)} ELSE {}, {})
    /\ UNCHANGED <<disk, load>>

(* What the answered call keeps: a handle when something was opened, else    *)
(* the bridge is freed.                                                      *)
Answered(call, answer, opened) ==
    [call EXCEPT !.pc = "answered", !.answer = answer,
                 !.hand = IF opened THEN "held" ELSE "none",
                 !.bridge = IF @ = "live" /\ ~opened THEN "freed" ELSE @,
                 !.queue = IF opened THEN @ ELSE 0]

SharedBy(c, opened) == IF opened /\ Shares(calls[c].slot) THEN {HandleOf(c)} ELSE {}

(* The plugin is done with the slot while its caller waits. *)
Reply(c, reply) ==
    LET call == calls[c]
        answer == Answer(call.slot, reply)
        opened == \/ call.slot.opens = "kv" /\ answer # "refuse"
                  \/ call.slot.opens \notin {"none", "kv"} /\ reply = "good"
    IN  /\ call.in /\ call.pc = "waiting"
        /\ reply \in Replies(call.slot)
        /\ calls' = [calls EXCEPT ![c] =
               [Answered(call, answer, opened) EXCEPT
                    !.in = FALSE, !.said = reply, !.plug = opened /\ call.slot.opens # "kv"]]
        /\ inst' = Owned(SharedBy(c, opened), {CallOf(c)})
        /\ UNCHANGED <<disk, load>>

(* It is done after the caller went: nobody reads what it opened. *)
LateReply(c, reply) ==
    LET call == calls[c]
    IN  /\ call.in /\ call.pc # "waiting"
        /\ reply \in Replies(call.slot)
        /\ calls' = [calls EXCEPT ![c].in = FALSE,
               ![c].plug = call.slot.opens \notin {"none", "kv"} /\ reply = "good"]
        /\ UNCHANGED <<disk, load, inst>>

(* Mutant: a synchronous trait method waits for its thread. *)
TimesOutFerriedOnly(c, rt) ==
    LET call == calls[c]
    IN  /\ call.pc = "waiting" /\ Bounded(call.slot, rt) /\ call.slot.how # "sync"
        /\ calls' = [calls EXCEPT ![c] = Answered(call, call.slot.on, FALSE)]
        /\ inst' = Owned({}, {CallOf(c)})
        /\ UNCHANGED <<disk, load>>

(* tokio::time::timeout: the caller has its answer, the thread stays where   *)
(* it is.  A KV probe that fails counts as support.                          *)
TimesOut(c, rt) ==
    LET call == calls[c]
        opened == call.slot.opens = "kv"
    IN  /\ call.pc = "waiting" /\ Bounded(call.slot, rt)
        /\ calls' = [calls EXCEPT ![c] = Answered(call, call.slot.on, opened)]
        /\ inst' = Owned(SharedBy(c, opened), {CallOf(c)})
        /\ UNCHANGED <<disk, load>>

(* The caller's future is dropped: the bridge is a raw pointer and stays.    *)
CallerLeaves(c, rt) ==
    LET call == calls[c]
    IN  /\ call.pc = "waiting" /\ Cancellable(call.slot, rt)
        /\ calls' = [calls EXCEPT ![c].pc = "gone", ![c].queue = 0]
        /\ inst' = Owned({}, {CallOf(c)})
        /\ UNCHANGED <<disk, load>>

-------------------------------------------------------------------------------
(* Handles.                                                                 *)

(* The bridge's callback, on a thread of the plugin: events only; a full     *)
(* queue drops the newest, and the flag or a closed queue drops it too.      *)
CallBack(c) ==
    /\ calls[c].in \/ calls[c].plug
    /\ calls[c].bridge = "live" /\ ~calls[c].flag
    /\ calls[c].slot.opens \in {"stream", "watch"}
    /\ calls[c].pc = "waiting" \/ calls[c].hand = "held"
    /\ calls[c].queue < QueueCap
    /\ calls' = [calls EXCEPT ![c].queue = @ + 1]
    /\ UNCHANGED <<disk, load, inst>>

(* The stream's reader; a watch's forwarder goes on after the cancel. *)
TakeEvent(c) ==
    /\ calls[c].queue > 0 /\ calls[c].hand # "none"
    /\ calls' = [calls EXCEPT ![c].queue = @ - 1]
    /\ UNCHANGED <<disk, load, inst>>

NotBorrowed(c) == \A d \in Callers : calls[d].via = c => calls[d].pc # "waiting"

(* Mutant: the bridge goes first. *)
BeginCloseFreeing(c) ==
    /\ calls[c].hand = "held" /\ calls[c].slot.opens # "kv"
    /\ calls[c].slot.opens = "watch" \/ NotBorrowed(c)
    /\ calls' = [calls EXCEPT ![c].hand = "closing", ![c].bridge = "freed"]
    /\ UNCHANGED <<disk, load, inst>>

(* The handle is dropped, or a watch cancelled: the flag goes up before the  *)
(* plugin is told, and a stream's receiver is gone by then.  A drop is alone *)
(* with the handle; a cancel may overtake an acknowledge.                    *)
BeginClose(c) ==
    /\ calls[c].hand = "held" /\ calls[c].slot.opens # "kv"
    /\ calls[c].slot.opens = "watch" \/ NotBorrowed(c)
    /\ calls' = [calls EXCEPT ![c].hand = "closing",
                              ![c].flag = calls[c].slot.opens \in {"stream", "watch"},
                              ![c].queue = IF calls[c].slot.opens = "stream" THEN 0 ELSE @]
    /\ UNCHANGED <<disk, load, inst>>

(* cancel_stream, cancel, lease_drop or transport_handle_drop returns: by    *)
(* the contract of the slot the plugin makes no callback after it.           *)
CancelReturns(c) ==
    LET watch == calls[c].slot.opens = "watch"
    IN  /\ calls[c].hand = "closing"
        /\ calls' = [calls EXCEPT ![c].plug = FALSE,
               ![c].hand = IF watch THEN "cancelled" ELSE "closed",
               ![c].bridge = IF @ = "live" /\ ~watch THEN "freed" ELSE @]
        /\ inst' = Owned({}, {HandleOf(c)})
        /\ UNCHANGED <<disk, load>>

(* Drop for NativeWatchHandle frees the bridge and never cancels: whether it *)
(* was cancelled before is up to the holder, and a plugin that was not told  *)
(* goes on.                                                                  *)
DropWatch(c) ==
    /\ calls[c].hand \in {"held", "cancelled"} /\ calls[c].slot.opens = "watch"
    /\ NotBorrowed(c)
    /\ calls' = [calls EXCEPT ![c].hand = "closed", ![c].bridge = "freed"]
    /\ UNCHANGED <<disk, load, inst>>

(* A key-value handle has nothing to tell the plugin. *)
DropKv(c) ==
    /\ calls[c].hand = "held" /\ calls[c].slot.opens = "kv" /\ NotBorrowed(c)
    /\ calls' = [calls EXCEPT ![c].hand = "closed"]
    /\ inst' = Owned({}, {HandleOf(c)})
    /\ UNCHANGED <<disk, load>>

-------------------------------------------------------------------------------
(* The library is mapped while the loader, an owner of the instance, or the  *)
(* guard of a stream or of a listener holds LoadedNativePlugin.              *)
KeepsLibrary(c) ==
    calls[c].hand \in {"held", "closing"} /\ calls[c].slot.opens \in {"stream", "listener"}

Mapped ==
    \/ load.pc \in {"mapped", "registered", "loaded", "asking", "built"}
    \/ inst.owners # {}
    \/ \E c \in Callers : KeepsLibrary(c)
===============================================================================
