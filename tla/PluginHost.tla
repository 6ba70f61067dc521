------------------------------ MODULE PluginHost ------------------------------
(***************************************************************************)
(* The host: the registry, the first-party plugins of the gateway and one  *)
(* native plugin, from boot through calls to shutdown.                     *)
(*                                                                         *)
(* A deployment says                                                       *)
(*   boot       the gateway's boot calls, made in some order; one that     *)
(*              fails is reported and boot goes on                         *)
(*   native     the native plugin's entry, its keys as it will state them  *)
(*   probed     its library carries no descriptor                          *)
(*   options, artifact, rt, callers   as in NativeHost                     *)
(*   slots, asks   the slots that are called, and whether the plugin then  *)
(*              asks something of the host                                 *)
(*   swaps, toggles   bounds on the writes of the artifact's path and on   *)
(*              the operator's state changes                               *)
(***************************************************************************)
EXTENDS HostBridge, Registry

CONSTANTS
    Deployments

ASSUME DeploymentAssumption ==
    \A d \in Deployments :
        /\ d.artifact \in Artifacts
        /\ d.native \in PluginEntries(Classes)
        /\ d.slots \subseteq SlotsOf[d.native.class]
        /\ \A cmd \in d.boot :
               cmd.do \in {"register", "firstparty"} => cmd.entry \in PluginEntries(Classes)

VARIABLES
    dep,        \* the deployment
    todo,       \* boot calls not made yet
    budget      \* swaps and toggles left

vars == <<dep, todo, budget, nativeVars, registryVars, host>>

Init ==
    /\ dep \in Deployments
    /\ todo = dep.boot
    /\ budget = [swaps |-> dep.swaps, toggles |-> dep.toggles]
    /\ NativeInit(dep.artifact)
    /\ HostInit
    /\ regs = <<>> /\ bound = {} /\ drain = NotDraining

-------------------------------------------------------------------------------
(* Boot: one call after the other.                                          *)

Booting == load.pc \in {"none", "refused", "ready"} /\ drain.pc = "no"

Done(cmd) ==
    /\ Booting
    /\ cmd \in todo
    /\ todo' = todo \ {cmd}
    /\ UNCHANGED <<dep, budget, host>>

RegisterPlugin(cmd) ==
    /\ cmd.do = "register" /\ Done(cmd)
    /\ IF Admits(cmd.entry) THEN Admit(cmd.entry) ELSE UNCHANGED regs
    /\ UNCHANGED <<nativeVars, bound, drain>>

RegisterFirstParty(cmd) ==
    /\ cmd.do = "firstparty" /\ Done(cmd)
    /\ IF RegistrarAdmits(cmd.entry) THEN Admit(cmd.entry) ELSE UNCHANGED regs
    /\ UNCHANGED <<nativeVars, bound, drain>>

BindKey(cmd) ==
    /\ cmd.do = "bind" /\ Done(cmd)
    /\ IF CanBind(cmd.class, cmd.key, cmd.id) THEN Bind(cmd.class, cmd.key, cmd.id)
       ELSE UNCHANGED bound
    /\ UNCHANGED <<nativeVars, regs, drain>>

AutoBind(cmd) ==
    /\ cmd.do = "autobind" /\ Done(cmd)
    /\ \/ cmd.class = "secret_provider" /\ AutoBindSecret
       \/ cmd.class = "config_provider" /\ AutoBindConfig
    /\ UNCHANGED <<nativeVars, regs, drain>>

LoadNative(cmd) ==
    /\ cmd.do = "native" /\ Done(cmd)
    /\ Verify(dep.options)
    /\ UNCHANGED registryVars

Boot ==
    \E cmd \in todo :
        \/ RegisterPlugin(cmd)
        \/ RegisterFirstParty(cmd)
        \/ BindKey(cmd)
        \/ AutoBind(cmd)
        \/ LoadNative(cmd)

LoadStep ==
    /\ \/ Rehash
       \/ DlOpen
       \/ \E ok \in BOOLEAN : Registration(ok)
       \/ \E ok \in BOOLEAN : DeriveManifest(dep.probed, ok)
       \/ \E ok \in BOOLEAN : Make(ok)
       \/ \E ok \in BOOLEAN : Ask(AsksOf[dep.native.class], ok)
    /\ UNCHANGED <<dep, todo, budget, registryVars, host>>

(* The adapter goes into the registry, or is dropped with its instance. *)
EnterRegistry ==
    /\ load.pc = "built"
    /\ IF Admits(dep.native)
       THEN /\ Admit(dep.native)
            /\ load' = [load EXCEPT !.pc = "ready"]
            /\ UNCHANGED inst
       ELSE /\ load' = Refused
            /\ inst' = Owned({}, {Adapter})
            /\ UNCHANGED regs
    /\ UNCHANGED <<dep, todo, budget, disk, calls, bound, drain, host>>

ReplaceArtifact ==
    /\ budget.swaps > 0
    /\ load.pc \in {"none", "verified", "rehashed"}
    /\ \E a \in Artifacts : Replace(a)
    /\ budget' = [budget EXCEPT !.swaps = @ - 1]
    /\ UNCHANGED <<dep, todo, registryVars, host>>

-------------------------------------------------------------------------------
(* Traffic.                                                                 *)

Toggle ==
    /\ budget.toggles > 0
    /\ Booting
    /\ \E e \in Entries :
           \/ SetState(e.id, {"Active", "Degraded"}, "Disabled")
           \/ SetState(e.id, {"Disabled"}, "Active")
           \/ SetState(e.id, {"Active"}, "Degraded")
    /\ budget' = [budget EXCEPT !.toggles = @ - 1]
    /\ UNCHANGED <<dep, todo, nativeVars, host>>

(* The host's tasks need a worker. *)
Free == ~Stuck(dep.rt)

BeginCall(c) ==
    /\ load.pc = "ready" /\ Free
    /\ c \in dep.callers
    /\ \E slot \in dep.slots, via \in Callers \cup {"none"} :
           /\ slot.via = "none" => \E e \in Entries : e.native /\ HandedOut(e)
           /\ Begin(c, slot, via, dep.rt)
           /\ \/ Stamps(dep.native.class, slot) /\ BeginDispatch(c)
              \/ UNCHANGED host                \* nobody's request
    /\ UNCHANGED <<dep, todo, budget, registryVars>>

(* The plugin asks something of the host, which runs on its runtime. *)
AskHost ==
    /\ dep.asks
    /\ \E c \in Callers : HostSlot(c)
    /\ UNCHANGED <<dep, todo, budget, registryVars>>

HostAnswers ==
    /\ \E c \in Callers : ServiceReturns(c, dep.rt)
    /\ UNCHANGED <<dep, todo, budget, registryVars>>

NativeReplies ==
    /\ \E c \in Callers : \E reply \in Replies(calls[c].slot) :
           /\ host.in[c] = NoSlot
           /\ \/ Reply(c, reply) /\ AfterReply(c)
              \/ LateReply(c, reply) /\ UNCHANGED host
    /\ UNCHANGED <<dep, todo, budget, registryVars>>

CallTimesOut(c) ==
    /\ Free
    /\ TimesOut(c, dep.rt)
    /\ host' = Retired(c)
    /\ UNCHANGED <<dep, todo, budget, registryVars>>

LeaveCall(c) ==
    /\ Free
    /\ CallerLeaves(c, dep.rt)
    /\ host' = Retired(c)
    /\ UNCHANGED <<dep, todo, budget, registryVars>>

(* A stream's dispatch ends with the stream. *)
EndHandle(c) ==
    /\ host.in[c] = NoSlot
    /\ CancelReturns(c)
    /\ host' = Retired(c)
    /\ UNCHANGED <<dep, todo, budget, registryVars>>

UseHandle ==
    /\ \E c \in Callers :
           \/ CallBack(c)
           \/ TakeEvent(c)
           \/ BeginClose(c)
           \/ DropWatch(c)
           \/ DropKv(c)
    /\ UNCHANGED <<dep, todo, budget, registryVars, host>>

-------------------------------------------------------------------------------
(* Shutdown.                                                                *)

Shutdown ==
    /\ todo = {} /\ Booting /\ Free
    /\ ShutdownAll
    /\ UNCHANGED <<dep, todo, budget, nativeVars, host>>

DrainNext     == Free /\ DrainOne /\ UNCHANGED <<dep, todo, budget, nativeVars, host>>
DrainReturns  == Free /\ ShutdownReturns /\ UNCHANGED <<dep, todo, budget, nativeVars, host>>
DrainTimesOut == Free /\ ShutdownTimesOut /\ UNCHANGED <<dep, todo, budget, nativeVars, host>>

(* The gateway drops the registry; calls and handles may still be out. *)
DropRegistry ==
    /\ drain.pc = "over" /\ regs # <<>> /\ Free
    /\ regs' = <<>> /\ bound' = {}
    /\ inst' = Owned({}, {Adapter})
    /\ UNCHANGED <<dep, todo, budget, disk, load, calls, drain, host>>

Next ==
    \/ Boot
    \/ LoadStep
    \/ EnterRegistry
    \/ ReplaceArtifact
    \/ Toggle
    \/ \E c \in Callers : BeginCall(c)
    \/ NativeReplies
    \/ AskHost
    \/ HostAnswers
    \/ \E c \in Callers : CallTimesOut(c) \/ LeaveCall(c) \/ EndHandle(c)
    \/ UseHandle
    \/ Shutdown
    \/ DrainNext
    \/ DrainReturns
    \/ DrainTimesOut
    \/ DropRegistry

(* The host's own timers fire and its drain goes on; nothing is assumed of a *)
(* plugin.                                                                   *)
Fairness ==
    /\ WF_vars(DrainNext)
    /\ WF_vars(DrainTimesOut)
    /\ \A c \in Callers : WF_vars(CallTimesOut(c))

Spec == Init /\ [][Next]_vars /\ Fairness

-------------------------------------------------------------------------------
(* Loading.                                                                 *)

(* With trusted keys `Warn' is as strict as `Enforce' (native.rs:134-140 and *)
(* signature.rs:25-30; other comments say that it logs and loads).           *)
Trusted(a, o) ==
    /\ o.pin = "none" \/ o.pin = a
    /\ \A i \in 1..Len(o.list.entries) : o.list.entries[i].hash # a
    /\ o.policy = "Enforce" \/ (o.policy = "Warn" /\ o.keys # {})
           => SignedBy[a] \cap o.keys # {}

(* load_native_plugin: the library whose code runs in the host satisfies the *)
(* pin, the signature policy and the revocation list of its entry, whatever  *)
(* is written to its path during the load; only a write between the second   *)
(* hash and dlopen escapes.                                                  *)
LoadedBytesVerified ==
    load.code # "none" => load.late \/ Trusted(load.code, dep.options)

-------------------------------------------------------------------------------
(* Memory.                                                                  *)

(* Every instance the host makes is freed once, by whoever holds it last: on *)
(* each refusal of the constructor and of the registry, by the manifest      *)
(* probe, and after the last call or shared handle.                          *)
InstancesFreedOnce ==
    inst.made = inst.freed + (IF inst.owners = {} THEN 0 ELSE 1)

(* What a thread is inside of when it is waited for: a call through the      *)
(* adapter ("none") or a handle, or the cancel of a handle.                  *)
Inside(c, kind) ==
    \/ calls[c].pc = "waiting" /\ calls[c].slot.via = kind
    \/ calls[c].hand = "closing" /\ calls[c].slot.opens = kind

(* In whatever order registry, callers and handles let go: a call through    *)
(* the adapter, a lease or a key-value handle, and the end of a lease, find  *)
(* the instance alive and its code mapped; the cancel of a stream and what   *)
(* goes through a listener, its drop included, find the code mapped; a call  *)
(* through the adapter also finds the host's bridge.  Nothing else is        *)
(* promised.  A stream or a listener may tell a freed instance; a watch      *)
(* handle keeps neither instance nor library, so its cancel and its          *)
(* acknowledge may run in unmapped code; a lease or a key-value handle       *)
(* outlives the host's bridge (host_bridge.rs:306-308 says otherwise); and   *)
(* the thread of a call nobody waits for any more outlives everything        *)
(* (native_loader.rs:211-214 says otherwise).                                *)
InstanceOutlivesUse ==
    \A c \in Callers :
        /\ \A kind \in {"none", "lease", "kv"} : Inside(c, kind) => inst.owners # {} /\ Mapped
        /\ \A kind \in {"stream", "listener"} : Inside(c, kind) => Mapped
        /\ Inside(c, "none") => HostBridgeLive
        /\ calls[c].hand = "held" /\ calls[c].slot.opens \in {"lease", "kv"} => inst.owners # {}

(* The plugin's pointer to a bridge is good for as long as the plugin may    *)
(* call it: from the opener's entry to the end of its cancel, through a      *)
(* caller that leaves and an opener that succeeds unread.  Two watches have  *)
(* lost their bridge: one whose install timed out, and one whose handle was  *)
(* dropped and not cancelled (native_loader.rs:2917-2920 says otherwise).    *)
BridgeOutlivesCallbacks ==
    \A c \in Callers :
        /\ Bridged(calls[c].slot)
        /\ calls[c].in \/ calls[c].plug
        /\ ~(calls[c].slot.opens = "watch" /\ calls[c].said = "none" /\ calls[c].pc = "answered")
        /\ ~(calls[c].slot.opens = "watch" /\ calls[c].hand = "closed")
        => calls[c].bridge = "live"

-------------------------------------------------------------------------------
(* Answers.                                                                 *)

Authorities == {GatePre, GatePost, ResolveIdentity, PolicyEvaluate, IssueCredential,
                RevokeCredential, SecretGet, AuditEmit}

(* Whoever decides or records access says yes only when the plugin said so   *)
(* in time: a late, lost, empty or unreadable reply is a refusal, and a      *)
(* reply after the timeout changes nothing.                                  *)
AnswersEarned ==
    \A c \in Callers :
        calls[c].slot \in Authorities /\ calls[c].pc = "answered" =>
            calls[c].answer = IF calls[c].said \in {"good", "oversize"} THEN "ok" ELSE "refuse"

(* A call under a timeout ends, whatever the plugin does and asks of the     *)
(* host, unless every worker stands in a call that was made on it.           *)
BoundedCallsEnd ==
    \A c \in Callers :
        (calls[c].pc = "waiting" /\ Bounded(calls[c].slot, dep.rt))
            ~> (calls[c].pc # "waiting" \/ ~Free)

Serving(c) == calls[c].pc = "waiting" \/ calls[c].hand \in {"held", "closing"}

(* An identity handed to a backend is believed when it comes back for as     *)
(* long as its request is served, to the end of the stream if it opened one, *)
(* and no longer: not after a timeout, a caller that left or a refusal,      *)
(* though the plugin may still be running.                                   *)
IdentityDiesWithDispatch ==
    \A c \in Callers : host.nonce[c] # 0 => (VerifyStrip(c) = c <=> Serving(c))

-------------------------------------------------------------------------------
(* The registry.                                                            *)

OneEach(class, Of(_)) ==
    \A i, j \in 1..Len(regs) :
        regs[i].class = class /\ regs[j].class = class /\ Of(regs[i]) = Of(regs[j]) => i = j

(* Whatever boot registers and binds, in whatever order and with whatever    *)
(* failures: an alias names one plugin over all classes, a kind or name one  *)
(* plugin of its class, there is one cluster, and a binding leads to one     *)
(* registered plugin that supports the key, a builtin one if the scheme is   *)
(* reserved.                                                                 *)
RegistryConsistent ==
    /\ \A i, j \in 1..Len(regs) : regs[i].alias = regs[j].alias => i = j
    /\ \A class \in {"backend", "content_store", "watch_strategy", "transport", "policy_engine"} :
           OneEach(class, KeySet)
    /\ Cardinality(OfClass("cluster")) <= 1
    /\ \A b \in bound :
           /\ \A d \in bound : d.table = b.table /\ d.key = b.key => d = b
           /\ \E e \in OfClass(b.table) :
                  /\ e.alias = b.alias /\ Supports(e, b.key)
                  /\ b.table \in Schemed /\ b.key \in Reserved => e.id \in Builtin

(* shutdown_all_with_timeout: once begun, the drain comes to its end, or it  *)
(* stands in the shutdown slot of a native plugin, which no timer interrupts,*)
(* or every worker stands in a native call.                                  *)
ShutdownMovesOn ==
    (drain.pc \in {"next", "in"}) ~>
        (drain.pc = "over" \/ (drain.pc = "in" /\ DrainList[drain.at].native) \/ ~Free)
===============================================================================
