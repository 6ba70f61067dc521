--------------------------- MODULE PluginHostProofs ---------------------------
(***************************************************************************)
(* Proofs about PluginHost, for every set of artifacts, signatures,        *)
(* callers, queue capacities and deployments: the load, the memory and the *)
(* answers of a native plugin, the identities it is lent, and the          *)
(* registry.                                                               *)
(***************************************************************************)
EXTENDS PluginHost, FiniteSetTheorems, TLAPS

-------------------------------------------------------------------------------
(* Types.                                                                   *)

Early == {"none", "verified", "rehashed", "mapped", "registered", "loaded"}
Files == Artifacts \cup {"none"}

LoadType ==
    /\ disk \in Artifacts
    /\ load \in [pc : Early \cup {"asking", "built", "ready", "refused"}, read : Files,
                 code : Files, late : BOOLEAN, ask : Nat]

Owners == {Loader, Adapter} \cup {CallOf(c) : c \in Callers} \cup {HandleOf(c) : c \in Callers}

InstType == inst \in [made : Nat, freed : Nat, owners : SUBSET Owners]

Slots ==
    [how   : {"ferried", "inlinable", "sync", "unbounded", "direct"},
     wire  : {"typed", "json", "text", "unit", "handle"},
     on    : {"refuse", "neutral"},
     over  : {"ok", "refuse", "neutral"},
     null  : {"ok", "refuse", "neutral"},
     opens : {"none", "stream", "watch", "listener", "lease", "kv"},
     via   : {"none", "kv", "lease", "listener", "watch"}]

CallRecords ==
    [pc     : {"idle", "waiting", "answered", "gone"},
     slot   : Slots,
     via    : Callers \cup {"none"},
     in     : BOOLEAN,
     said   : {"none", "good", "bad", "empty", "garbled", "oversize", "null", "lost"},
     answer : {"none", "ok", "refuse", "neutral"},
     bridge : {"none", "live", "freed"},
     plug   : BOOLEAN,
     hand   : {"none", "held", "closing", "cancelled", "closed"},
     flag   : BOOLEAN,
     queue  : Nat]

CallType == calls \in [Callers -> CallRecords]

HostType ==
    host \in [next : Nat, live : SUBSET Nat, nonce : [Callers -> Nat],
              in : [Callers -> Callers \cup {System, NoSlot}]]

DepType == dep \in Deployments /\ todo \subseteq dep.boot

-------------------------------------------------------------------------------
(* The load: what was read passed the checks, and is what lies on disk until *)
(* somebody writes the path after the second hash.                           *)
LoadChecked ==
    /\ load.pc \in {"verified", "rehashed"} => VerifyArtifact(load.read, dep.options)
    /\ load.pc = "rehashed" => load.late \/ disk = load.read

-------------------------------------------------------------------------------
(* One call.                                                                *)

(* What the table of slots promises: a call through a handle opens nothing,  *)
(* and of the openers that lend a bridge only `watch' is under a timeout.    *)
SlotFits(slot) ==
    /\ slot \in Slots
    /\ slot.via # "none" => slot.opens = "none"
    /\ slot.opens \in {"stream", "listener"} => slot.how = "unbounded"

(* Where the thread, the answer, the handle and the bridge stand together. *)
Shape(k) ==
    /\ SlotFits(k.slot)
    /\ k.pc = "idle" => ~k.in /\ ~k.plug /\ k.hand = "none"
    /\ k.pc = "waiting" => k.in /\ ~k.plug /\ k.hand = "none" /\ k.said = "none"
    /\ k.pc = "gone" => k.hand = "none" /\ k.said = "none"
    /\ k.pc \in {"waiting", "gone"} /\ Bridged(k.slot) => k.bridge = "live"
    /\ k.pc = "answered" /\ k.said # "none" => ~k.in
    /\ k.pc = "answered" /\ k.said = "none" => k.slot.how # "unbounded"
    /\ k.hand # "none" => k.slot.opens # "none"
    /\ k.hand # "none" /\ Bridged(k.slot) => k.said # "none"
    /\ k.plug => k.slot.opens \notin {"none", "kv"}
    /\ k.plug /\ k.said # "none" =>
           k.hand \in {"held", "closing"} \/ (k.slot.opens = "watch" /\ k.hand = "closed")
    /\ k.hand \in {"held", "closing"} /\ Bridged(k.slot) => k.bridge = "live"

(* All calls. *)
CallsShaped == \A c \in Callers : Shape(calls[c])

-------------------------------------------------------------------------------
(* Who owns the instance: the loader while it asks, then the adapter, each   *)
(* call through the adapter while it waits, each lease and key-value handle. *)
OwnersExact ==
    /\ load.pc \in Early => inst.owners = {}
    /\ load.pc = "asking" => inst.owners = {Loader}
    /\ load.pc = "built" => inst.owners = {Adapter}
    /\ load.pc # "asking" => Loader \notin inst.owners
    /\ load.pc \notin {"built", "ready"} => Adapter \notin inst.owners
    /\ \A c \in Callers :
           /\ load.pc # "ready" => calls[c].pc = "idle"
           /\ CallOf(c) \in inst.owners <=> calls[c].pc = "waiting" /\ calls[c].slot.via = "none"
           /\ HandleOf(c) \in inst.owners
                  <=> calls[c].hand \in {"held", "closing"} /\ Shares(calls[c].slot)

(* The drain begins when no load is under way, and none begins after it. *)
LoadBeforeDrain == drain.pc # "no" => load.pc \in {"none", "refused", "ready"}

(* A call through a handle finds it held until the call is over; only that   *)
(* of a watch may be cancelled in the meantime.                              *)
Borrowed ==
    \A c \in Callers : calls[c].pc = "waiting" /\ calls[c].slot.via # "watch" =>
        IF calls[c].slot.via = "none" THEN calls[c].via = "none"
        ELSE /\ calls[c].via \in Callers
             /\ calls[calls[c].via].hand = "held"
             /\ calls[calls[c].via].slot.opens = calls[c].slot.via

-------------------------------------------------------------------------------
(* Each request has a dispatch of its own, open while it is served. *)
Dispatches ==
    /\ host.next # 0
    /\ \A n \in host.live : n # 0 /\ n < host.next
    /\ \A c \in Callers : host.nonce[c] < host.next
    /\ \A c, d \in Callers : host.nonce[c] = host.nonce[d] /\ host.nonce[c] # 0 => c = d
    /\ \A c \in Callers : host.nonce[c] # 0 =>
           /\ calls[c].pc # "idle"
           /\ calls[c].slot.opens \notin {"kv", "watch"}
           /\ host.nonce[c] \in host.live <=> Serving(c)

-------------------------------------------------------------------------------
(* The registry, by position. *)

RegsType == regs \in Seq(PluginEntries(Classes))

(* The classes whose plugins state one kind or name. *)
OneName == {"backend", "content_store", "watch_strategy", "transport", "policy_engine"}

(* Two entries share no alias, and none of the keys their class holds once. *)
PositionsApart ==
    /\ \A i, j \in 1 .. Len(regs) : regs[i].alias = regs[j].alias => i = j
    /\ \A i \in 1 .. Len(regs) : regs[i].class \in OneName => Len(regs[i].keys) = 1
    /\ \A i, j \in 1 .. Len(regs) :
           regs[i].class \in OneName /\ regs[i].class = regs[j].class
               /\ regs[i].keys = regs[j].keys => i = j
    /\ \A i, j \in 1 .. Len(regs) :
           regs[i].class = "cluster" /\ regs[j].class = "cluster" => i = j

(* A binding is the only one of its key and leads to an entry that may hold  *)
(* it.                                                                       *)
Leads(b, e) ==
    /\ e.class = b.table /\ e.alias = b.alias /\ Supports(e, b.key)
    /\ b.table \in Schemed /\ b.key \in Reserved => e.id \in Builtin

BindingsLead ==
    \A b \in bound :
        /\ \A d \in bound : d.table = b.table /\ d.key = b.key => d = b
        /\ \E i \in 1 .. Len(regs) : Leads(b, regs[i])

-------------------------------------------------------------------------------
(* The steps.                                                               *)

(* The steps that touch a call. *)
CallStep(c) ==
    \/ \E slot \in dep.slots, via \in Callers \cup {"none"} :
           load.pc = "ready" /\ Begin(c, slot, via, dep.rt)
    \/ \E reply \in Replies(calls[c].slot) : Reply(c, reply) \/ LateReply(c, reply)
    \/ TimesOut(c, dep.rt) \/ CallerLeaves(c, dep.rt) \/ CancelReturns(c)
    \/ CallBack(c) \/ TakeEvent(c) \/ BeginClose(c) \/ DropWatch(c) \/ DropKv(c)

(* The steps that load the plugin. *)
LoadingStep ==
    \/ Booting /\ Verify(dep.options)
    \/ Rehash \/ DlOpen
    \/ \E ok \in BOOLEAN :
           \/ Registration(ok)
           \/ DeriveManifest(dep.probed, ok)
           \/ Make(ok)
           \/ Ask(AsksOf[dep.native.class], ok)

(* What the steps of the host come to for the native plugin. *)
LEMMA NativeSteps ==
    ASSUME [Next]_vars
    PROVE  \/ UNCHANGED nativeVars
           \/ \E c \in Callers : CallStep(c)
           \/ \E a \in Artifacts : Replace(a)
           \/ LoadingStep
           \/ EnterRegistry
           \/ DropRegistry
<1>1. CASE Boot
  BY <1>1 DEF Boot, RegisterPlugin, RegisterFirstParty, BindKey, AutoBind, LoadNative, Done,
              LoadingStep
<1>2. CASE LoadStep \/ ReplaceArtifact
  BY <1>2 DEF LoadStep, ReplaceArtifact, LoadingStep
<1>3. CASE Toggle \/ Shutdown \/ DrainNext \/ DrainReturns \/ DrainTimesOut
  BY <1>3 DEF Toggle, Shutdown, DrainNext, DrainReturns, DrainTimesOut
<1>4. ASSUME NEW c \in Callers, BeginCall(c) PROVE CallStep(c)
  BY <1>4 DEF BeginCall, CallStep
<1>5. CASE NativeReplies \/ UseHandle
  BY <1>5 DEF NativeReplies, UseHandle, CallStep
<1>6. CASE AskHost \/ HostAnswers
  BY <1>6 DEF AskHost, HostAnswers, HostSlot, HostResolveCredentials, HostInvokeTool,
              HostIssueCredential, HostResolveSecret, HostConfigSnapshot, HostAuditEvent,
              HostCacheGet, HostCachePut, HostFetchContent, HostStoreContent, Enter,
              ServiceReturns
<1>7. ASSUME NEW c \in Callers, CallTimesOut(c) \/ LeaveCall(c) \/ EndHandle(c)
      PROVE  CallStep(c)
  BY <1>7 DEF CallTimesOut, LeaveCall, EndHandle, CallStep
<1>8. CASE UNCHANGED vars
  BY <1>8 DEF vars
<1> QED BY <1>1, <1>2, <1>3, <1>4, <1>5, <1>6, <1>7, <1>8 DEF Next

(* A call leaves disk and load alone, and only a call changes calls. *)
LEMMA CallSteps ==
    ASSUME [Next]_vars
    PROVE  /\ \A c \in Callers : CallStep(c) => UNCHANGED <<disk, load>>
           /\ UNCHANGED calls \/ \E c \in Callers : CallStep(c)
<1>1. ASSUME NEW c \in Callers, CallStep(c) PROVE UNCHANGED <<disk, load>>
  BY <1>1 DEF CallStep, Begin, Reply, LateReply, TimesOut, CallerLeaves, CancelReturns,
              CallBack, TakeEvent, BeginClose, DropWatch, DropKv
<1>2. UNCHANGED calls \/ \E c \in Callers : CallStep(c)
  BY NativeSteps
     DEF nativeVars, Replace, LoadingStep, Verify, Rehash, DlOpen, Registration,
         DeriveManifest, Make, Ask, EnterRegistry, DropRegistry
<1> QED BY <1>1, <1>2

(* The deployment is fixed, and boot only goes on. *)
LEMMA BootShrinks == ASSUME [Next]_vars PROVE UNCHANGED dep /\ todo' \subseteq todo
<1>1. CASE Boot
  BY <1>1 DEF Boot, RegisterPlugin, RegisterFirstParty, BindKey, AutoBind, LoadNative, Done
<1>2. CASE LoadStep \/ EnterRegistry \/ ReplaceArtifact \/ Toggle \/ Shutdown \/ DrainNext
           \/ DrainReturns \/ DrainTimesOut \/ DropRegistry
  BY <1>2 DEF LoadStep, EnterRegistry, ReplaceArtifact, Toggle, Shutdown, DrainNext,
              DrainReturns, DrainTimesOut, DropRegistry
<1>3. CASE NativeReplies \/ AskHost \/ HostAnswers \/ UseHandle
  BY <1>3 DEF NativeReplies, AskHost, HostAnswers, UseHandle
<1>4. ASSUME NEW c \in Callers,
             BeginCall(c) \/ CallTimesOut(c) \/ LeaveCall(c) \/ EndHandle(c)
      PROVE  UNCHANGED dep /\ todo' \subseteq todo
  BY <1>4 DEF BeginCall, CallTimesOut, LeaveCall, EndHandle
<1>5. CASE UNCHANGED vars
  BY <1>5 DEF vars
<1> QED BY <1>1, <1>2, <1>3, <1>4, <1>5 DEF Next

(* The deployment stays, and boot calls are only used up. *)
LEMMA NextDep == DepType /\ [Next]_vars => DepType'
BY BootShrinks DEF DepType

-------------------------------------------------------------------------------
(* The load.                                                                *)

(* What passed verify_native_artifact satisfies the options of the entry. *)
LEMMA VerifiedIsTrusted ==
    ASSUME NEW a, NEW o, VerifyArtifact(a, o) PROVE Trusted(a, o)
BY DEF VerifyArtifact, Trusted, Revoked, SkipsVerification, RefusesOnFailure,
       TryVerifySignature, SignatureOver

(* Every step keeps what the load has checked. *)
LEMMA NextLoad ==
    DepType /\ LoadType /\ LoadChecked /\ LoadedBytesVerified /\ [Next]_vars
        => LoadType' /\ LoadChecked' /\ LoadedBytesVerified'
<1> SUFFICES ASSUME DepType, LoadType, LoadChecked, LoadedBytesVerified, [Next]_vars
             PROVE  LoadType' /\ LoadChecked' /\ LoadedBytesVerified'
  OBVIOUS
<1> DEFINE Keeps(pcs) ==
        /\ load'.pc \in pcs /\ load'.read = load.read /\ load'.code = load.code
        /\ load'.late = load.late /\ disk' = disk
<1>0. UNCHANGED dep
  BY BootShrinks
<1>1. CASE UNCHANGED <<disk, load>>
  BY <1>0, <1>1 DEF LoadType, LoadChecked, LoadedBytesVerified
<1>2. ASSUME NEW a \in Artifacts, Replace(a)
      PROVE  LoadType' /\ LoadChecked' /\ LoadedBytesVerified'
  <2>1. /\ LoadType' /\ disk' = a /\ load'.pc = load.pc /\ load'.read = load.read
        /\ load'.code = load.code /\ load'.late = (load.late \/ load.pc = "rehashed")
    BY <1>2 DEF Replace, LoadType
  <2> QED BY <1>0, <2>1 DEF LoadChecked, LoadedBytesVerified
<1>3. CASE Verify(dep.options)
  <2>1. CASE UsableList(dep.options.list) /\ VerifyArtifact(disk, dep.options)
    <3>1. /\ LoadType' /\ disk' = disk /\ load'.pc = "verified" /\ load'.read = disk
          /\ load'.code = load.code /\ load'.late = load.late
      BY <1>3, <2>1 DEF Verify, LoadType, Files, Early
    <3> QED BY <1>0, <2>1, <3>1 DEF LoadChecked, LoadedBytesVerified
  <2>2. CASE ~(UsableList(dep.options.list) /\ VerifyArtifact(disk, dep.options))
    <3>1. LoadType' /\ Keeps({"refused"})
      BY <1>3, <2>2 DEF Verify, Refused, LoadType
    <3> QED BY <1>0, <3>1 DEF LoadChecked, LoadedBytesVerified
  <2> QED BY <2>1, <2>2
<1>4. CASE Rehash
  <2>1. CASE disk = load.read
    <3>1. LoadType' /\ Keeps({"rehashed"}) /\ load.pc = "verified"
      BY <1>4, <2>1 DEF Rehash, LoadType, Early
    <3> QED BY <1>0, <2>1, <3>1 DEF LoadChecked, LoadedBytesVerified
  <2>2. CASE disk # load.read
    <3>1. LoadType' /\ Keeps({"refused"})
      BY <1>4, <2>2 DEF Rehash, Refused, LoadType
    <3> QED BY <1>0, <3>1 DEF LoadChecked, LoadedBytesVerified
  <2> QED BY <2>1, <2>2
<1>5. CASE DlOpen
  <2>1. /\ LoadType' /\ load.pc = "rehashed" /\ load'.pc = "mapped" /\ load'.code = disk
        /\ load'.late = load.late
    BY <1>5 DEF DlOpen, LoadType, Files, Early
  <2>2. load.late \/ Trusted(disk, dep.options)
    BY <2>1, VerifiedIsTrusted DEF LoadChecked
  <2> QED BY <1>0, <2>1, <2>2 DEF LoadChecked, LoadedBytesVerified
<1>6. ASSUME NEW ok \in BOOLEAN,
             \/ Registration(ok)
             \/ DeriveManifest(dep.probed, ok)
             \/ Make(ok)
             \/ Ask(AsksOf[dep.native.class], ok)
             \/ EnterRegistry
      PROVE  LoadType' /\ LoadChecked' /\ LoadedBytesVerified'
  <2>1. LoadType' /\ Keeps({"registered", "loaded", "asking", "built", "ready", "refused"})
    <3>1. CASE Registration(ok)
      BY <3>1 DEF Registration, Refused, LoadType, Early
    <3>2. CASE DeriveManifest(dep.probed, ok)
      BY <3>2 DEF DeriveManifest, Refused, LoadType, Early
    <3>3. CASE Make(ok)
      BY <3>3 DEF Make, Refused, LoadType, Early
    <3>4. CASE Ask(AsksOf[dep.native.class], ok)
      BY <3>4 DEF Ask, Refused, LoadType, Early
    <3>5. CASE EnterRegistry
      BY <3>5 DEF EnterRegistry, Refused, LoadType, Early
    <3> QED BY <1>6, <3>1, <3>2, <3>3, <3>4, <3>5
  <2> QED BY <1>0, <2>1 DEF LoadChecked, LoadedBytesVerified
<1> QED BY <1>1, <1>2, <1>3, <1>4, <1>5, <1>6, NativeSteps, CallSteps
        DEF LoadingStep, nativeVars, DropRegistry

(* Whatever artifacts, signatures and options there are, and however often   *)
(* the path is written during the load: the code mapped into the host is     *)
(* trusted by its entry, unless it was written after the second hash.        *)
THEOREM OnlyTrustedCodeRuns == Spec => []LoadedBytesVerified
<1>1. Init => DepType /\ LoadType /\ LoadChecked /\ LoadedBytesVerified
  BY DeploymentAssumption
     DEF Init, NativeInit, NotLoaded, DepType, LoadType, LoadChecked, LoadedBytesVerified,
         Early, Files
<1> QED BY <1>1, NextDep, NextLoad, PTL DEF Spec

-------------------------------------------------------------------------------
(* The table of slots.                                                      *)

(* Every slot of every class is a slot, a call through a handle opens        *)
(* nothing, and only `watch' lends a bridge under a timeout.                 *)
LEMMA SlotTable == \A class \in Classes : \A slot \in SlotsOf[class] : SlotFits(slot)
<1> USE DEF SlotFits, Slots, Slot
<1>1. ASSUME NEW slot \in SlotsOf["tool_gate"] PROVE SlotFits(slot)
  BY <1>1 DEF SlotsOf, GatePre, Tier1, GatePost
<1>2. ASSUME NEW slot \in SlotsOf["transform"] PROVE SlotFits(slot)
  BY <1>2 DEF SlotsOf, TransformArgs, Tier1, TransformResult
<1>3. ASSUME NEW slot \in SlotsOf["identity"] PROVE SlotFits(slot)
  BY <1>3 DEF SlotsOf, ResolveIdentity, Tier1
<1>4. ASSUME NEW slot \in SlotsOf["catalog"] PROVE SlotFits(slot)
  BY <1>4 DEF SlotsOf, FilterAndEnrich, Json, Describe, ListCatalog
<1>5. ASSUME NEW slot \in SlotsOf["backend"] PROVE SlotFits(slot)
  BY <1>5 DEF SlotsOf, RegisterProfile, BackendExecute, Capped, ExecuteTransaction,
          ExecuteStreaming, OpensStream, Opening, InputSchema, OutputSchema,
          ListResources, AuditMetadata, ExpandCapabilities, CompleteVariable
<1>6. ASSUME NEW slot \in SlotsOf["content_store"] PROVE SlotFits(slot)
  BY <1>6 DEF SlotsOf, ContentStoreOps, CallBare, CallEnveloped, Capped
<1>7. ASSUME NEW slot \in SlotsOf["watch_strategy"] PROVE SlotFits(slot)
  BY <1>7 DEF SlotsOf, Watch, WatchAcknowledge, Via, Opening
<1>8. ASSUME NEW slot \in SlotsOf["http_route"] PROVE SlotFits(slot)
  BY <1>8, ZenonT(40) DEF SlotsOf, HttpDispatch, Json, Capped, HttpHandle, OpensStream, Opening
<1>9. ASSUME NEW slot \in SlotsOf["audit_sink"] PROVE SlotFits(slot)
  BY <1>9 DEF SlotsOf, AuditEmit, Json, AuditFlush
<1>10. ASSUME NEW slot \in SlotsOf["log_sink"] PROVE SlotFits(slot)
  BY <1>10 DEF SlotsOf, LogEmit, LogFlush, Json
<1>11. ASSUME NEW slot \in SlotsOf["telemetry_sink"] PROVE SlotFits(slot)
  BY <1>11 DEF SlotsOf, TelemetryEmit, Unit, TelemetryFlush, Json
<1>12. ASSUME NEW slot \in SlotsOf["metrics_sink"] PROVE SlotFits(slot)
  BY <1>12 DEF SlotsOf, MetricsEmit, Unit, MetricsFlush, Json, RenderExposition
<1>13. ASSUME NEW slot \in SlotsOf["store"] PROVE SlotFits(slot)
  BY <1>13 DEF SlotsOf, StoreGet, DecodeStore, CallJsonVtable, Json, StorePut,
          StoreDelete, StoreList, StoreSwap, StoreAppend, StoreWatch, OpensStream,
          Opening
<1>14. ASSUME NEW slot \in SlotsOf["cache"] PROVE SlotFits(slot)
  BY <1>14 DEF SlotsOf, CacheGet, Json, CachePut, CacheDelete, Unit, CacheClear,
          CacheIncr
<1>15. ASSUME NEW slot \in SlotsOf["secret_provider"] PROVE SlotFits(slot)
  BY <1>15 DEF SlotsOf, SecretGet, Json, SecretWatch, OpensStream, Opening
<1>16. ASSUME NEW slot \in SlotsOf["config_provider"] PROVE SlotFits(slot)
  BY <1>16 DEF SlotsOf, ConfigSnapshot, Json, ConfigWatch, OpensStream, Opening
<1>17. ASSUME NEW slot \in SlotsOf["policy_engine"] PROVE SlotFits(slot)
  BY <1>17 DEF SlotsOf, PolicyEvaluate, Json, PolicyVersion
<1>18. ASSUME NEW slot \in SlotsOf["credential_issuer"] PROVE SlotFits(slot)
  BY <1>18 DEF SlotsOf, IssueCredential, Json, RevokeCredential
<1>19. ASSUME NEW slot \in SlotsOf["approval_notifier"] PROVE SlotFits(slot)
  BY <1>19 DEF SlotsOf, Notify, Json
<1>20. ASSUME NEW slot \in SlotsOf["cluster"] PROVE SlotFits(slot)
  <2>1. slot \in {ClusterPublish, ClusterSubscribe, PubSubPublish, PubSubSubscribe,
                  KvGet, KvPut, KvPutIfAbsent, KvDelete, KvListPage, KvListPrefix, KvExpire,
                  KvIncr, KvIncrFloor, KeyValueStore, NodeInfo, ListPeers, WatchPeers,
                  AcquireLease, TryAcquireLease, LeaseRenew, LeaseRelease}
    BY <1>20 DEF SlotsOf
  <2>2. SlotFits(Json("refuse")) /\ SlotFits(Json("neutral")) /\ SlotFits(KvCallSlot)
    BY DEF KvCallSlot, Via, Json
  <2>3. SlotFits(OpensStream) /\ SlotFits(WatchPeers) /\ SlotFits(KeyValueStore)
    BY DEF OpensStream, Opening, WatchPeers, KeyValueStore, ProbeKv
  <2>4. SlotFits(AcquireLease) /\ SlotFits(TryAcquireLease)
    BY DEF AcquireLease, TryAcquireLease, Opening
  <2>5. SlotFits(LeaseRenew) /\ SlotFits(LeaseRelease)
    BY DEF LeaseRenew, LeaseRelease, Via
  <2> HIDE DEF SlotFits
  <2> QED BY <2>1, <2>2, <2>3, <2>4, <2>5
          DEF ClusterPublish, ClusterSubscribe, PubSubPublish, PubSubSubscribe, KvGet, KvPut,
              KvPutIfAbsent, KvDelete, KvListPage, KvListPrefix, KvExpire, KvIncr,
              KvIncrFloor, NodeInfo, ListPeers
<1>21. ASSUME NEW slot \in SlotsOf["transport"] PROVE SlotFits(slot)
  BY <1>21 DEF SlotsOf, TransportStart, Opening, ListenAddress, Via, TransportClose
<1>22. ASSUME NEW class \in Classes
       PROVE  class \in {"tool_gate", "transform", "identity", "catalog", "backend",
                  "content_store", "watch_strategy", "http_route", "audit_sink",
                  "log_sink", "telemetry_sink", "metrics_sink", "store", "cache",
                  "secret_provider", "config_provider", "policy_engine",
                  "credential_issuer", "approval_notifier", "cluster", "transport"}
  BY DEF Classes, SlotsOf
<1>23. SUFFICES ASSUME NEW class \in Classes PROVE \A slot \in SlotsOf[class] : SlotFits(slot)
  OBVIOUS
<1> HIDE DEF SlotFits, Slots, Slot
<1> QED BY <1>1, <1>2, <1>3, <1>4, <1>5, <1>6, <1>7, <1>8, <1>9, <1>10, <1>11, <1>12,
           <1>13, <1>14, <1>15, <1>16, <1>17, <1>18, <1>19, <1>20, <1>21, <1>22

-------------------------------------------------------------------------------
(* What a step does to a call.                                              *)

(* A slot that is called is one of the table. *)
LEMMA CalledSlot == ASSUME DepType, NEW slot \in dep.slots PROVE SlotFits(slot)
<1>1. slot \in SlotsOf[dep.native.class] /\ dep.native \in PluginEntries(Classes)
  BY DeploymentAssumption DEF DepType
<1>2. dep.native.class \in Classes
  BY <1>1 DEF PluginEntries
<1> QED BY <1>1, <1>2, SlotTable

(* A reply and the answer to it are among the replies and the answers. *)
LEMMA ReplyType ==
    ASSUME NEW slot \in Slots, NEW reply \in Replies(slot)
    PROVE  /\ reply \in {"good", "bad", "empty", "garbled", "oversize", "null", "lost"}
           /\ Answer(slot, reply) \in {"ok", "refuse", "neutral"}
<1>1. reply \in {"good", "bad", "empty", "garbled", "oversize", "null", "lost"}
  BY DEF Replies, Slots
<1> QED BY <1>1 DEF Answer, Slots

(* Whether a reply leaves something open. *)
Opens(slot, reply) ==
    \/ slot.opens = "kv" /\ Answer(slot, reply) # "refuse"
    \/ slot.opens \notin {"none", "kv"} /\ reply = "good"

(* Only the record of call c changes. *)
OthersKept(c) == CallType' /\ \A d \in Callers \ {c} : calls'[d] = calls[d]

(* One call's record is replaced. *)
LEMMA OneCall ==
    ASSUME CallType, NEW c \in Callers, NEW k \in CallRecords, calls' = [calls EXCEPT ![c] = k]
    PROVE  OthersKept(c) /\ calls'[c] = k
BY DEF OthersKept, CallType

(* Two updates that keep the type. *)
LEMMA AnswerUpdate ==
    ASSUME NEW k \in CallRecords, NEW a \in {"ok", "refuse", "neutral"},
           NEW h \in {"none", "held"}, NEW b \in {"none", "live", "freed"}, NEW q \in Nat
    PROVE  [k EXCEPT !.pc = "answered", !.answer = a, !.hand = h, !.bridge = b, !.queue = q]
               \in CallRecords
BY ZenonT(40) DEF CallRecords

(* The record of a call whose handle is given up is a record. *)
LEMMA CancelUpdate ==
    ASSUME NEW k \in CallRecords, NEW h \in {"cancelled", "closed"},
           NEW b \in {"none", "live", "freed"}
    PROVE  [k EXCEPT !.plug = FALSE, !.hand = h, !.bridge = b] \in CallRecords
BY DEF CallRecords

(* What an answered call keeps and what it sets. *)
LEMMA AnsweredType ==
    ASSUME NEW call \in CallRecords, NEW answer \in {"ok", "refuse", "neutral"},
           NEW opened \in BOOLEAN
    PROVE  LET k == Answered(call, answer, opened) IN
           /\ k \in CallRecords
           /\ k.pc = "answered" /\ k.slot = call.slot /\ k.via = call.via /\ k.in = call.in
           /\ k.plug = call.plug /\ k.said = call.said /\ k.answer = answer
           /\ k.hand = (IF opened THEN "held" ELSE "none")
           /\ (opened => k.bridge = call.bridge)
<1> DEFINE h == IF opened THEN "held" ELSE "none"
           b == IF call.bridge = "live" /\ ~opened THEN "freed" ELSE call.bridge
           q == IF opened THEN call.queue ELSE 0
           k == [call EXCEPT !.pc = "answered", !.answer = answer, !.hand = h, !.bridge = b,
                             !.queue = q]
<1>1. h \in {"none", "held"} /\ (opened => b = call.bridge)
  OBVIOUS
<1>2. b \in {"none", "live", "freed"}
  BY DEF CallRecords
<1>3. q \in Nat
  BY DEF CallRecords
<1>4. Answered(call, answer, opened) = k
  BY DEF Answered
<1> HIDE DEF h, b, q
<1>5. k \in CallRecords
  BY <1>1, <1>2, <1>3, AnswerUpdate
<1>6. /\ k.pc = "answered" /\ k.slot = call.slot /\ k.via = call.via /\ k.in = call.in
      /\ k.plug = call.plug /\ k.said = call.said /\ k.answer = answer
      /\ k.hand = h /\ k.bridge = b
  BY DEF CallRecords
<1> HIDE DEF k
<1> QED BY <1>1, <1>4, <1>5, <1>6 DEF h

(* What beginning a call does to its record. *)
LEMMA BeginEffect ==
    ASSUME CallType, NEW c \in Callers, NEW slot \in Slots, NEW via \in Callers \cup {"none"},
           NEW rt, Begin(c, slot, via, rt)
    PROVE  /\ OthersKept(c)
           /\ calls[c].pc = "idle" /\ calls'[c].pc = "waiting"
           /\ calls'[c].slot = slot /\ calls'[c].via = via
           /\ calls'[c].in /\ ~calls'[c].plug
           /\ calls'[c].said = "none" /\ calls'[c].hand = "none"
           /\ Bridged(slot) => calls'[c].bridge = "live"
<1> DEFINE k == [NoCall EXCEPT !.pc = "waiting", !.slot = slot, !.via = via, !.in = TRUE,
                               !.bridge = IF Bridged(slot) THEN "live" ELSE "none"]
<1>1. k \in CallRecords
  BY DEF NoCall, CallRecords
<1>2. calls' = [calls EXCEPT ![c] = k] /\ calls[c].pc = "idle"
  BY DEF Begin
<1>3. /\ k.pc = "waiting" /\ k.slot = slot /\ k.via = via /\ k.in /\ ~k.plug
      /\ k.said = "none" /\ k.hand = "none" /\ (Bridged(slot) => k.bridge = "live")
  BY DEF NoCall
<1> HIDE DEF k
<1> QED BY <1>1, <1>2, <1>3, OneCall

(* What a reply in time does to the record of its call. *)
LEMMA ReplyEffect ==
    ASSUME CallType, NEW c \in Callers, NEW reply, Reply(c, reply)
    PROVE  /\ OthersKept(c)
           /\ reply \in Replies(calls[c].slot)
           /\ calls[c].pc = "waiting" /\ calls'[c].pc = "answered"
           /\ calls'[c].slot = calls[c].slot /\ calls'[c].via = calls[c].via
           /\ ~calls'[c].in /\ calls'[c].said = reply
           /\ calls'[c].answer = Answer(calls[c].slot, reply)
           /\ calls'[c].hand = IF Opens(calls[c].slot, reply) THEN "held" ELSE "none"
           /\ Opens(calls[c].slot, reply) => calls'[c].bridge = calls[c].bridge
           /\ calls'[c].plug = (Opens(calls[c].slot, reply) /\ calls[c].slot.opens # "kv")
<1> DEFINE call == calls[c]
           opened == Opens(call.slot, reply)
           answer == Answer(call.slot, reply)
           k == [Answered(call, answer, opened) EXCEPT
                    !.in = FALSE, !.said = reply, !.plug = opened /\ call.slot.opens # "kv"]
<1>1. /\ reply \in Replies(call.slot) /\ call.pc = "waiting"
      /\ calls' = [calls EXCEPT ![c] = k]
  BY DEF Reply, Opens
<1>2. call \in CallRecords /\ call.slot \in Slots
  BY DEF CallType, CallRecords
<1>3. /\ reply \in {"good", "bad", "empty", "garbled", "oversize", "null", "lost"}
      /\ answer \in {"ok", "refuse", "neutral"}
  BY <1>1, <1>2, ReplyType
<1>4. opened \in BOOLEAN
  BY DEF Opens
<1> DEFINE a == Answered(call, answer, opened)
<1> HIDE DEF opened, answer, call
<1>5. /\ a \in CallRecords
      /\ a.pc = "answered" /\ a.slot = call.slot /\ a.via = call.via /\ a.answer = answer
      /\ a.hand = (IF opened THEN "held" ELSE "none")
      /\ (opened => a.bridge = call.bridge)
  BY <1>2, <1>3, <1>4, AnsweredType, SMTT(20)
<1>6. k = [a EXCEPT !.in = FALSE, !.said = reply, !.plug = opened /\ call.slot.opens # "kv"]
  OBVIOUS
<1> HIDE DEF a, k
<1>7. k \in CallRecords
  <2> DEFINE f == opened /\ call.slot.opens # "kv"
  <2>1. f \in BOOLEAN
    OBVIOUS
  <2> HIDE DEF f
  <2>2. [a EXCEPT !.in = FALSE, !.said = reply, !.plug = f] \in CallRecords
    BY <1>3, <1>5, <2>1 DEF CallRecords
  <2> QED BY <1>6, <2>2 DEF f
<1>8. /\ k.pc = a.pc /\ k.slot = a.slot /\ k.via = a.via /\ ~k.in
      /\ k.said = reply /\ k.answer = a.answer /\ k.hand = a.hand /\ k.bridge = a.bridge
      /\ k.plug = (opened /\ call.slot.opens # "kv")
  BY <1>4, <1>5, <1>6 DEF CallRecords
<1>9. OthersKept(c) /\ calls'[c] = k
  BY <1>1, <1>7, OneCall
<1> QED BY <1>1, <1>5, <1>8, <1>9 DEF opened, answer, call

(* What the return of an abandoned thread does to the record of its call. *)
LEMMA LateReplyEffect ==
    ASSUME CallType, NEW c \in Callers, NEW reply, LateReply(c, reply)
    PROVE  /\ OthersKept(c)
           /\ calls[c].in /\ calls[c].pc # "waiting"
           /\ calls'[c].pc = calls[c].pc
           /\ calls'[c].slot = calls[c].slot /\ calls'[c].via = calls[c].via
           /\ ~calls'[c].in /\ calls'[c].said = calls[c].said
           /\ calls'[c].answer = calls[c].answer /\ calls'[c].hand = calls[c].hand
           /\ calls'[c].bridge = calls[c].bridge
           /\ calls'[c].plug => calls[c].slot.opens \notin {"none", "kv"}
<1> DEFINE k == [calls[c] EXCEPT !.in = FALSE,
                     !.plug = calls[c].slot.opens \notin {"none", "kv"} /\ reply = "good"]
<1>1. calls[c] \in CallRecords
  BY DEF CallType
<1>2. /\ calls[c].in /\ calls[c].pc # "waiting"
      /\ calls' = [calls EXCEPT ![c] = k]
  BY DEF LateReply
<1>3. k \in CallRecords
  BY <1>1 DEF CallRecords
<1>4. /\ k.pc = calls[c].pc /\ k.slot = calls[c].slot /\ k.via = calls[c].via
      /\ ~k.in /\ k.said = calls[c].said /\ k.answer = calls[c].answer
      /\ k.hand = calls[c].hand /\ k.bridge = calls[c].bridge
      /\ (k.plug => calls[c].slot.opens \notin {"none", "kv"})
  BY <1>1 DEF CallRecords
<1> HIDE DEF k
<1> QED BY <1>2, <1>3, <1>4, OneCall

(* What a timeout does to the record of its call. *)
LEMMA TimesOutEffect ==
    ASSUME CallType, NEW c \in Callers, NEW rt, TimesOut(c, rt)
    PROVE  /\ OthersKept(c)
           /\ calls[c].pc = "waiting" /\ calls'[c].pc = "answered"
           /\ calls[c].slot.how # "unbounded"
           /\ calls'[c].slot = calls[c].slot /\ calls'[c].via = calls[c].via
           /\ calls'[c].in = calls[c].in /\ calls'[c].plug = calls[c].plug
           /\ calls'[c].said = calls[c].said /\ calls'[c].answer = calls[c].slot.on
           /\ calls'[c].hand = IF calls[c].slot.opens = "kv" THEN "held" ELSE "none"
<1> DEFINE call == calls[c]
           opened == call.slot.opens = "kv"
           answer == call.slot.on
           k == Answered(call, answer, opened)
<1>1. /\ call.pc = "waiting" /\ call.slot.how # "unbounded"
      /\ calls' = [calls EXCEPT ![c] = k]
  BY DEF TimesOut, Bounded
<1>2. call \in CallRecords /\ call.slot \in Slots
  BY DEF CallType, CallRecords
<1>3. answer \in {"ok", "refuse", "neutral"}
  BY <1>2 DEF Slots
<1> HIDE DEF call, opened, answer
<1>4. opened \in BOOLEAN
  BY DEF opened
<1>5. /\ k \in CallRecords
      /\ k.pc = "answered" /\ k.slot = call.slot /\ k.via = call.via /\ k.in = call.in
      /\ k.plug = call.plug /\ k.said = call.said /\ k.answer = answer
      /\ k.hand = (IF opened THEN "held" ELSE "none")
  BY <1>2, <1>3, <1>4, AnsweredType, SMTT(20)
<1> HIDE DEF k
<1> QED BY <1>1, <1>5, OneCall DEF call, opened, answer

(* What a caller that is dropped does to the record of its call. *)
LEMMA CallerLeavesEffect ==
    ASSUME CallType, NEW c \in Callers, NEW rt, CallerLeaves(c, rt)
    PROVE  /\ OthersKept(c)
           /\ calls[c].pc = "waiting" /\ calls'[c].pc = "gone"
           /\ calls'[c].slot = calls[c].slot /\ calls'[c].via = calls[c].via
           /\ calls'[c].in = calls[c].in /\ calls'[c].plug = calls[c].plug
           /\ calls'[c].said = calls[c].said /\ calls'[c].hand = calls[c].hand
           /\ calls'[c].bridge = calls[c].bridge
<1> DEFINE k == [calls[c] EXCEPT !.pc = "gone", !.queue = 0]
<1>1. calls[c] \in CallRecords
  BY DEF CallType
<1>2. calls[c].pc = "waiting" /\ calls' = [calls EXCEPT ![c] = k]
  BY DEF CallerLeaves
<1>3. k \in CallRecords
  BY <1>1 DEF CallRecords
<1>4. /\ k.pc = "gone" /\ k.slot = calls[c].slot /\ k.via = calls[c].via
      /\ k.in = calls[c].in /\ k.plug = calls[c].plug /\ k.said = calls[c].said
      /\ k.hand = calls[c].hand /\ k.bridge = calls[c].bridge
  BY <1>1 DEF CallRecords
<1> HIDE DEF k
<1> QED BY <1>2, <1>3, <1>4, OneCall

(* Events come and go in the queue and nothing else changes. *)
LEMMA QueueEffect ==
    ASSUME CallType, NEW c \in Callers, CallBack(c) \/ TakeEvent(c)
    PROVE  /\ OthersKept(c)
           /\ calls'[c].pc = calls[c].pc
           /\ calls'[c].slot = calls[c].slot /\ calls'[c].via = calls[c].via
           /\ calls'[c].in = calls[c].in /\ calls'[c].plug = calls[c].plug
           /\ calls'[c].said = calls[c].said /\ calls'[c].answer = calls[c].answer
           /\ calls'[c].hand = calls[c].hand /\ calls'[c].bridge = calls[c].bridge
<1>1. CASE CallBack(c)
  BY <1>1 DEF CallBack, OthersKept, CallType, CallRecords
<1>2. CASE TakeEvent(c)
  BY <1>2 DEF TakeEvent, OthersKept, CallType, CallRecords
<1> QED BY <1>1, <1>2

(* The ways a handle goes. *)
LEMMA HandleEffect ==
    ASSUME CallType, NEW c \in Callers,
           BeginClose(c) \/ CancelReturns(c) \/ DropWatch(c) \/ DropKv(c)
    PROVE  /\ OthersKept(c)
           /\ calls'[c].pc = calls[c].pc
           /\ calls'[c].slot = calls[c].slot /\ calls'[c].via = calls[c].via
           /\ calls'[c].in = calls[c].in
           /\ calls'[c].said = calls[c].said /\ calls'[c].answer = calls[c].answer
           /\ calls[c].hand # "none" /\ calls'[c].hand # "none"
           /\ BeginClose(c) =>
                  /\ calls[c].hand = "held" /\ calls'[c].hand = "closing"
                  /\ calls'[c].plug = calls[c].plug /\ calls'[c].bridge = calls[c].bridge
           /\ CancelReturns(c) =>
                  /\ calls[c].hand = "closing" /\ calls'[c].hand \in {"cancelled", "closed"}
                  /\ ~calls'[c].plug
           /\ DropWatch(c) =>
                  /\ calls[c].hand \in {"held", "cancelled"} /\ calls'[c].hand = "closed"
                  /\ calls[c].slot.opens = "watch"
                  /\ calls'[c].plug = calls[c].plug
           /\ DropKv(c) =>
                  /\ calls[c].hand = "held" /\ calls'[c].hand = "closed"
                  /\ calls[c].slot.opens = "kv"
                  /\ calls'[c].plug = calls[c].plug
<1>0. calls[c] \in CallRecords
  BY DEF CallType
<1>1. CASE BeginClose(c)
  <2> DEFINE k == [calls[c] EXCEPT !.hand = "closing",
                       !.flag = calls[c].slot.opens \in {"stream", "watch"},
                       !.queue = IF calls[c].slot.opens = "stream" THEN 0 ELSE @]
  <2>1. calls[c].hand = "held" /\ calls[c].slot.opens # "kv" /\ calls' = [calls EXCEPT ![c] = k]
    BY <1>1 DEF BeginClose
  <2>2. k \in CallRecords
    <3> DEFINE f == calls[c].slot.opens \in {"stream", "watch"}
               q == IF calls[c].slot.opens = "stream" THEN 0 ELSE calls[c].queue
    <3>1. f \in BOOLEAN
      OBVIOUS
    <3>2. q \in Nat
      BY <1>0 DEF CallRecords
    <3> HIDE DEF f, q
    <3>3. [calls[c] EXCEPT !.hand = "closing", !.flag = f, !.queue = q] \in CallRecords
      BY <1>0, <3>1, <3>2 DEF CallRecords
    <3> QED BY <3>3 DEF f, q
  <2>3. /\ k.pc = calls[c].pc /\ k.slot = calls[c].slot /\ k.via = calls[c].via
        /\ k.in = calls[c].in /\ k.said = calls[c].said /\ k.answer = calls[c].answer
        /\ k.hand = "closing" /\ k.plug = calls[c].plug /\ k.bridge = calls[c].bridge
    BY <1>0 DEF CallRecords
  <2> HIDE DEF k
  <2>4. OthersKept(c) /\ calls'[c] = k
    BY <2>1, <2>2, OneCall
  <2>5. ~CancelReturns(c) /\ ~DropWatch(c) /\ ~DropKv(c)
    BY <1>0, <2>1, <2>3, <2>4 DEF CancelReturns, DropWatch, DropKv, CallType, CallRecords
  <2> QED BY <2>1, <2>3, <2>4, <2>5
<1>2. CASE CancelReturns(c)
  <2> DEFINE watch == calls[c].slot.opens = "watch"
             k == [calls[c] EXCEPT !.plug = FALSE,
                       !.hand = IF watch THEN "cancelled" ELSE "closed",
                       !.bridge = IF @ = "live" /\ ~watch THEN "freed" ELSE @]
  <2>1. calls[c].hand = "closing" /\ calls' = [calls EXCEPT ![c] = k]
    BY <1>2 DEF CancelReturns
  <2>2. k \in CallRecords
    <3>1. PICK h \in {"cancelled", "closed"} : h = IF watch THEN "cancelled" ELSE "closed"
      OBVIOUS
    <3>2. PICK b \in {"none", "live", "freed"} :
              b = IF calls[c].bridge = "live" /\ ~watch THEN "freed" ELSE calls[c].bridge
      BY <1>0 DEF CallRecords
    <3>3. [calls[c] EXCEPT !.plug = FALSE, !.hand = h, !.bridge = b] \in CallRecords
      BY <1>0, CancelUpdate
    <3> QED BY <3>1, <3>2, <3>3
  <2>3. /\ k.pc = calls[c].pc /\ k.slot = calls[c].slot /\ k.via = calls[c].via
        /\ k.in = calls[c].in /\ k.said = calls[c].said /\ k.answer = calls[c].answer
        /\ k.hand \in {"cancelled", "closed"} /\ ~k.plug
    BY <1>0 DEF CallRecords
  <2> HIDE DEF k
  <2>4. OthersKept(c) /\ calls'[c] = k
    BY <2>1, <2>2, OneCall
  <2> QED BY <2>1, <2>3, <2>4 DEF BeginClose, DropWatch, DropKv
<1>3. CASE DropWatch(c) \/ DropKv(c)
  <2>1. PICK b \in {calls[c].bridge, "freed"} :
            calls' = [calls EXCEPT ![c] = [calls[c] EXCEPT !.hand = "closed", !.bridge = b]]
    <3>1. CASE DropWatch(c)
      BY <3>1 DEF DropWatch
    <3>2. CASE DropKv(c)
      <4>1. [calls[c] EXCEPT !.hand = "closed"]
            = [calls[c] EXCEPT !.hand = "closed", !.bridge = calls[c].bridge]
        BY <1>0 DEF CallRecords
      <4> QED BY <3>2, <4>1 DEF DropKv
    <3> QED BY <1>3, <3>1, <3>2
  <2> DEFINE k == [calls[c] EXCEPT !.hand = "closed", !.bridge = b]
  <2>2. k \in CallRecords
    BY <1>0, <2>1 DEF CallRecords
  <2>3. /\ k.pc = calls[c].pc /\ k.slot = calls[c].slot /\ k.via = calls[c].via
        /\ k.in = calls[c].in /\ k.said = calls[c].said /\ k.answer = calls[c].answer
        /\ k.hand = "closed" /\ k.plug = calls[c].plug
    BY <1>0 DEF CallRecords
  <2> HIDE DEF k
  <2>4. OthersKept(c) /\ calls'[c] = k
    BY <2>1, <2>2, OneCall DEF k
  <2>5. calls[c].hand \in {"held", "cancelled"}
    BY <1>3 DEF DropWatch, DropKv
  <2>6. ~CancelReturns(c)
    BY <2>5 DEF CancelReturns
  <2>7. ~BeginClose(c)
    BY <1>0, <2>3, <2>4 DEF BeginClose, CallType, CallRecords
  <2> QED BY <1>3, <2>3, <2>4, <2>5, <2>6, <2>7 DEF DropWatch, DropKv
<1> QED BY <1>1, <1>2, <1>3

-------------------------------------------------------------------------------
(* Every call keeps its shape, and its answer is earned.                    *)

(* What is earned in one call. *)
Earned(k) ==
    k.slot \in Authorities /\ k.pc = "answered" =>
        k.answer = IF k.said \in {"good", "oversize"} THEN "ok" ELSE "refuse"

(* The slots that decide or record access refuse whatever they cannot read,  *)
(* and have nothing to say about the size of a reply.                        *)
LEMMA AuthoritySlots ==
    ASSUME NEW slot \in Authorities
    PROVE  slot.on = "refuse" /\ slot.over = "ok" /\ slot.null = "refuse"
           /\ slot.wire \in {"typed", "json"}
BY DEF Authorities, GatePre, GatePost, ResolveIdentity, PolicyEvaluate, IssueCredential,
       RevokeCredential, SecretGet, AuditEmit, Tier1, Json, Slot

(* An authority is read as a yes only when it said so. *)
LEMMA EarnedReply ==
    ASSUME NEW slot \in Authorities, NEW reply \in Replies(slot)
    PROVE  Answer(slot, reply) = IF reply \in {"good", "oversize"} THEN "ok" ELSE "refuse"
BY AuthoritySlots DEF Answer

(* A call that only changes its record keeps the others as they are. *)
LEMMA ShapeOfOne ==
    ASSUME CallsShaped, AnswersEarned, NEW c \in Callers, OthersKept(c),
           Shape(calls'[c]), Earned(calls'[c])
    PROVE  CallType' /\ CallsShaped' /\ AnswersEarned'
BY DEF OthersKept, CallsShaped, AnswersEarned, Shape, Earned

(* Every step keeps the shape of every call, and every yes is earned. *)
LEMMA NextShape ==
    DepType /\ CallType /\ CallsShaped /\ AnswersEarned /\ [Next]_vars
        => CallType' /\ CallsShaped' /\ AnswersEarned'
<1> SUFFICES ASSUME DepType, CallType, CallsShaped, AnswersEarned, [Next]_vars
             PROVE  CallType' /\ CallsShaped' /\ AnswersEarned'
  OBVIOUS
<1>1. CASE UNCHANGED calls
  BY <1>1 DEF CallType, CallsShaped, AnswersEarned
<1>2. ASSUME NEW c \in Callers, CallStep(c) PROVE CallType' /\ CallsShaped' /\ AnswersEarned'
  <2> DEFINE k == calls[c]
  <2>0. k \in CallRecords /\ Shape(k) /\ Earned(k) /\ k.slot \in Slots
    BY DEF CallType, CallsShaped, AnswersEarned, Earned, CallRecords
  <2> SUFFICES OthersKept(c) /\ Shape(calls'[c]) /\ Earned(calls'[c])
    BY ShapeOfOne
  <2>1. ASSUME NEW slot \in dep.slots, NEW via \in Callers \cup {"none"},
               Begin(c, slot, via, dep.rt)
        PROVE  OthersKept(c) /\ Shape(calls'[c]) /\ Earned(calls'[c])
    <3>1. SlotFits(slot) /\ slot \in Slots
      BY CalledSlot DEF SlotFits
    <3> QED BY <2>1, <3>1, BeginEffect DEF Shape, Earned
  <2>2. ASSUME NEW reply, Reply(c, reply)
        PROVE  OthersKept(c) /\ Shape(calls'[c]) /\ Earned(calls'[c])
    <3>1. /\ OthersKept(c) /\ reply \in Replies(k.slot)
          /\ k.pc = "waiting" /\ calls'[c].pc = "answered" /\ calls'[c].slot = k.slot
          /\ ~calls'[c].in /\ calls'[c].said = reply
          /\ calls'[c].answer = Answer(k.slot, reply)
          /\ calls'[c].hand = (IF Opens(k.slot, reply) THEN "held" ELSE "none")
          /\ (Opens(k.slot, reply) => calls'[c].bridge = k.bridge)
          /\ calls'[c].plug = (Opens(k.slot, reply) /\ k.slot.opens # "kv")
      BY <2>2, ReplyEffect
    <3>2. reply # "none"
      BY <2>0, <3>1, ReplyType
    <3>3. Shape(calls'[c])
      <4>1. Opens(k.slot, reply) => k.slot.opens # "none"
        BY DEF Opens
      <4>2. CASE Opens(k.slot, reply)
        BY <2>0, <3>1, <3>2, <4>1, <4>2 DEF Shape
      <4>3. CASE ~Opens(k.slot, reply)
        BY <2>0, <3>1, <3>2, <4>3 DEF Shape
      <4> QED BY <4>2, <4>3
    <3>4. Earned(calls'[c])
      BY <3>1, EarnedReply DEF Earned
    <3> QED BY <3>1, <3>3, <3>4
  <2>3. ASSUME NEW reply, LateReply(c, reply)
        PROVE  OthersKept(c) /\ Shape(calls'[c]) /\ Earned(calls'[c])
    <3>1. /\ OthersKept(c) /\ k.in /\ k.pc # "waiting" /\ calls'[c].pc = k.pc
          /\ calls'[c].slot = k.slot /\ ~calls'[c].in /\ calls'[c].said = k.said
          /\ calls'[c].answer = k.answer /\ calls'[c].hand = k.hand
          /\ calls'[c].bridge = k.bridge
          /\ (calls'[c].plug => k.slot.opens \notin {"none", "kv"})
      BY <2>3, LateReplyEffect
    <3>2. k.pc \in {"answered", "gone"} /\ k.said = "none"
      BY <2>0, <3>1 DEF Shape, CallRecords
    <3> QED BY <2>0, <3>1, <3>2 DEF Shape, Earned
  <2>4. CASE TimesOut(c, dep.rt)
    <3>1. /\ OthersKept(c) /\ Shape(calls'[c])
      BY <2>0, <2>4, TimesOutEffect DEF Shape, SlotFits, Bridged
    <3>2. Earned(calls'[c])
      BY <2>0, <2>4, TimesOutEffect, AuthoritySlots DEF Earned, Shape
    <3> QED BY <3>1, <3>2
  <2>5. CASE CallerLeaves(c, dep.rt)
    BY <2>0, <2>5, CallerLeavesEffect DEF Shape, Earned
  <2>6. CASE CallBack(c) \/ TakeEvent(c)
    BY <2>0, <2>6, QueueEffect DEF Shape, Earned
  <2>7. CASE BeginClose(c) \/ CancelReturns(c) \/ DropWatch(c) \/ DropKv(c)
    <3>1. /\ OthersKept(c) /\ calls'[c].pc = k.pc /\ calls'[c].slot = k.slot
          /\ calls'[c].in = k.in /\ calls'[c].said = k.said /\ calls'[c].answer = k.answer
          /\ k.hand # "none" /\ calls'[c].hand # "none"
      BY <2>7, HandleEffect
    <3>2. k.pc = "answered"
      BY <2>0, <3>1 DEF Shape, CallRecords
    <3>3. CASE BeginClose(c)
      BY <2>0, <2>7, <3>1, <3>2, <3>3, HandleEffect DEF Shape, Earned
    <3>4. CASE CancelReturns(c)
      BY <2>0, <2>7, <3>1, <3>2, <3>4, HandleEffect DEF Shape, Earned
    <3>5. CASE DropWatch(c)
      BY <2>0, <2>7, <3>1, <3>2, <3>5, HandleEffect DEF Shape, Earned
    <3>6. CASE DropKv(c)
      BY <2>0, <2>7, <3>1, <3>2, <3>6, HandleEffect DEF Shape, Earned
    <3> QED BY <2>7, <3>3, <3>4, <3>5, <3>6
  <2> QED BY <1>2, <2>1, <2>2, <2>3, <2>4, <2>5, <2>6, <2>7 DEF CallStep
<1> QED BY <1>1, <1>2, CallSteps

(* The calls start idle. *)
LEMMA InitShape == Init => DepType /\ CallType /\ CallsShaped /\ AnswersEarned
<1> SUFFICES ASSUME Init PROVE DepType /\ CallType /\ CallsShaped /\ AnswersEarned
  OBVIOUS
<1>1. SlotFits(Unit)
  BY DEF SlotFits, Slots, Unit, Slot
<1>2. DepType /\ calls = [c \in Callers |-> NoCall]
  BY DEF Init, NativeInit, DepType
<1>3. NoCall \in CallRecords /\ Shape(NoCall) /\ Earned(NoCall)
  BY <1>1 DEF NoCall, CallRecords, Shape, Earned, SlotFits
<1>4. \A c \in Callers : calls[c] = NoCall
  BY <1>2
<1> QED BY <1>2, <1>3, <1>4 DEF CallType, CallsShaped, AnswersEarned, Earned

(* For every slot table of a deployment, runtime and interleaving of calls,  *)
(* timeouts and late replies: who decides or records access says yes only    *)
(* when the plugin said so in time.                                          *)
THEOREM YesIsEarned == Spec => []AnswersEarned
BY InitShape, NextDep, NextShape, PTL DEF Spec

(* The bridge a plugin was lent is alive whenever the plugin may call it,    *)
(* but for a watch whose install timed out or whose handle was dropped       *)
(* uncancelled.                                                              *)
THEOREM BridgeIsAlive == Spec => []BridgeOutlivesCallbacks
<1>1. CallType /\ CallsShaped => BridgeOutlivesCallbacks
  BY DEF CallType, CallRecords, CallsShaped, Shape, SlotFits, Bridged, BridgeOutlivesCallbacks
<1> QED BY <1>1, InitShape, NextDep, NextShape, PTL DEF Spec

-------------------------------------------------------------------------------
(* Who owns the instance.                                                   *)

(* The owners of the instance are told apart by name. *)
LEMMA OwnersApart ==
    /\ Loader # Adapter
    /\ \A c \in Callers : /\ CallOf(c) # Loader /\ CallOf(c) # Adapter
                          /\ HandleOf(c) # Loader /\ HandleOf(c) # Adapter
    /\ \A c, d \in Callers : /\ CallOf(c) = CallOf(d) => c = d
                             /\ HandleOf(c) = HandleOf(d) => c = d
                             /\ CallOf(c) # HandleOf(d)
BY DEF Loader, Adapter, CallOf, HandleOf

(* The last owner out frees the instance, and nobody comes to a freed one. *)
LEMMA OwnedEffect ==
    ASSUME InstType, InstancesFreedOnce, NEW come \in SUBSET Owners, NEW go,
           inst.owners # {} \/ come = {}, inst' = Owned(come, go)
    PROVE  /\ InstType' /\ InstancesFreedOnce'
           /\ inst'.owners = (inst.owners \cup come) \ go
<1> DEFINE left == (inst.owners \cup come) \ go
<1>1. /\ inst.made \in Nat /\ inst.freed \in Nat /\ inst.owners \in SUBSET Owners
      /\ left \in SUBSET Owners
  BY DEF InstType
<1>2. CASE inst.owners # {} /\ left = {}
  <2>1. inst' = [inst EXCEPT !.owners = left, !.freed = inst.freed + 1]
    BY <1>2 DEF Owned
  <2> HIDE DEF left
  <2>2. InstType' /\ inst'.owners = left /\ inst'.made = inst.made /\ inst'.freed = inst.freed + 1
    <3>1. inst.freed + 1 \in Nat
      BY <1>1
    <3> QED BY <1>1, <2>1, <3>1 DEF InstType
  <2>3. InstancesFreedOnce'
    BY <1>1, <1>2, <2>2 DEF InstancesFreedOnce
  <2> QED BY <2>2, <2>3 DEF left
<1>3. CASE ~(inst.owners # {} /\ left = {})
  <2>1. inst' = [inst EXCEPT !.owners = left, !.freed = inst.freed]
    BY <1>3 DEF Owned
  <2>2. InstType' /\ inst'.owners = left /\ inst'.made = inst.made /\ inst'.freed = inst.freed
    BY <1>1, <2>1 DEF InstType
  <2>3. inst.owners = {} <=> left = {}
    BY <1>3
  <2> QED BY <1>1, <2>2, <2>3 DEF InstancesFreedOnce
<1> QED BY <1>2, <1>3

(* What ownership says of one call. *)
Owning(c, k, owners) ==
    /\ CallOf(c) \in owners <=> k.pc = "waiting" /\ k.slot.via = "none"
    /\ HandleOf(c) \in owners <=> k.hand \in {"held", "closing"} /\ Shares(k.slot)

(* A step of one call moves the ownership of that call only. *)
LEMMA OwningOfOne ==
    ASSUME OwnersExact, NEW c \in Callers, OthersKept(c), UNCHANGED load, load.pc = "ready",
           NEW come \in SUBSET {CallOf(c), HandleOf(c)},
           NEW go \in SUBSET {CallOf(c), HandleOf(c)},
           inst'.owners = (inst.owners \cup come) \ go,
           Owning(c, calls'[c], inst'.owners)
    PROVE  OwnersExact'
<1>1. ASSUME NEW d \in Callers PROVE Owning(d, calls'[d], inst'.owners)
  <2>1. CASE d = c
    BY <2>1
  <2>2. CASE d # c
    <3>1. calls'[d] = calls[d]
      BY <2>2 DEF OthersKept
    <3>2. /\ CallOf(d) \in inst'.owners <=> CallOf(d) \in inst.owners
          /\ HandleOf(d) \in inst'.owners <=> HandleOf(d) \in inst.owners
      BY <2>2, OwnersApart
    <3> QED BY <3>1, <3>2 DEF OwnersExact, Owning
  <2> QED BY <2>1, <2>2
<1>2. Loader \notin inst'.owners
  BY OwnersApart DEF OwnersExact
<1> QED BY <1>1, <1>2 DEF OwnersExact, Owning, Early

(* What a step of a call does to the owners. *)
LEMMA CallOwners ==
    ASSUME DepType, CallType, CallsShaped, InstType, OwnersExact, Borrowed,
           InstancesFreedOnce, [Next]_vars, NEW c \in Callers, CallStep(c)
    PROVE  InstType' /\ InstancesFreedOnce' /\ OwnersExact'
<1> DEFINE k == calls[c]
<1>0. /\ k \in CallRecords /\ Shape(k) /\ Owning(c, k, inst.owners) /\ UNCHANGED load
      /\ k.pc # "idle" => load.pc = "ready"
  BY CallSteps DEF CallType, CallsShaped, OwnersExact, Owning
<1>1. ASSUME NEW come \in SUBSET {CallOf(c), HandleOf(c)},
             NEW go \in SUBSET {CallOf(c), HandleOf(c)},
             inst.owners # {} \/ come = {}, inst' = Owned(come, go),
             OthersKept(c), load.pc = "ready",
             Owning(c, calls'[c], (inst.owners \cup come) \ go)
      PROVE  InstType' /\ InstancesFreedOnce' /\ OwnersExact'
  <2>1. come \in SUBSET Owners
    BY DEF Owners
  <2>2. /\ InstType' /\ InstancesFreedOnce'
        /\ inst'.owners = (inst.owners \cup come) \ go
    BY <1>1, <2>1, OwnedEffect
  <2>3. OwnersExact'
    BY <1>0, <1>1, <2>2, OwningOfOne
  <2> QED BY <2>2, <2>3
<1>2. ASSUME UNCHANGED inst, OthersKept(c), load.pc = "ready", Owning(c, calls'[c], inst.owners)
      PROVE  InstType' /\ InstancesFreedOnce' /\ OwnersExact'
  <2>1. InstType' /\ InstancesFreedOnce'
    BY <1>2 DEF InstType, InstancesFreedOnce
  <2>2. /\ inst'.owners = (inst.owners \cup {}) \ {}
        /\ Owning(c, calls'[c], inst'.owners)
    BY <1>2
  <2>3. OwnersExact'
    <3> DEFINE none == {}
    <3>1. /\ none \in SUBSET {CallOf(c), HandleOf(c)}
          /\ inst'.owners = (inst.owners \cup none) \ none
      BY <2>2
    <3> HIDE DEF none
    <3> QED BY <1>0, <1>2, <2>2, <3>1, OwningOfOne
  <2> QED BY <2>1, <2>3
<1>3. ASSUME NEW slot \in dep.slots, NEW via \in Callers \cup {"none"},
             load.pc = "ready", Begin(c, slot, via, dep.rt)
      PROVE  InstType' /\ InstancesFreedOnce' /\ OwnersExact'
  <2>1. slot \in Slots
    BY CalledSlot DEF SlotFits
  <2>2. /\ OthersKept(c) /\ k.pc = "idle" /\ calls'[c].pc = "waiting"
        /\ calls'[c].slot = slot /\ calls'[c].hand = "none"
    BY <1>3, <2>1, BeginEffect
  <2>3. HandleOf(c) \notin inst.owners /\ CallOf(c) \notin inst.owners
    BY <1>0, <2>2 DEF Owning, Shape
  <2>4. CASE slot.via = "none"
    <3>1. inst.owners # {} /\ inst' = Owned({CallOf(c)}, {})
      BY <1>3, <2>4 DEF Begin
    <3>2. Owning(c, calls'[c], (inst.owners \cup {CallOf(c)}) \ {})
      BY <2>2, <2>3, <2>4, OwnersApart DEF Owning
    <3> QED BY <1>1, <1>3, <2>2, <3>1, <3>2
  <2>5. CASE slot.via # "none"
    <3>1. inst' = Owned({}, {})
      BY <1>3, <2>5, CallerAssumption DEF Begin
    <3>2. Owning(c, calls'[c], (inst.owners \cup {}) \ {})
      BY <2>2, <2>3, <2>5 DEF Owning
    <3> QED BY <1>1, <1>3, <2>2, <3>1, <3>2
  <2> QED BY <2>4, <2>5
<1>4. ASSUME OthersKept(c), k.pc = "waiting", calls'[c].pc # "waiting",
             calls'[c].slot = k.slot,
             NEW opened \in BOOLEAN,
             calls'[c].hand = IF opened THEN "held" ELSE "none",
             inst' = Owned(SharedBy(c, opened), {CallOf(c)})
      PROVE  InstType' /\ InstancesFreedOnce' /\ OwnersExact'
  <2>1. HandleOf(c) \notin inst.owners /\ load.pc = "ready"
    BY <1>0, <1>4 DEF Owning, Shape
  <2>2. CASE opened /\ Shares(k.slot)
    <3>1. SharedBy(c, opened) = {HandleOf(c)}
      BY <2>2 DEF SharedBy
    <3>2. CallOf(c) \in inst.owners
      BY <1>0, <1>4, <2>2 DEF Owning, Shape, SlotFits, Shares
    <3>3. Owning(c, calls'[c], (inst.owners \cup {HandleOf(c)}) \ {CallOf(c)})
      BY <1>4, <2>2, OwnersApart DEF Owning
    <3> QED BY <1>1, <1>4, <2>1, <3>1, <3>2, <3>3
  <2>3. CASE ~(opened /\ Shares(k.slot))
    <3>1. SharedBy(c, opened) = {}
      BY <2>3 DEF SharedBy
    <3>2. Owning(c, calls'[c], (inst.owners \cup {}) \ {CallOf(c)})
      BY <1>4, <2>1, <2>3, OwnersApart DEF Owning
    <3> QED BY <1>1, <1>4, <2>1, <3>1, <3>2
  <2> QED BY <2>2, <2>3
<1>5. ASSUME NEW reply, Reply(c, reply) PROVE InstType' /\ InstancesFreedOnce' /\ OwnersExact'
  <2>1. inst' = Owned(SharedBy(c, Opens(k.slot, reply)), {CallOf(c)})
    BY <1>5 DEF Reply, Opens
  <2>2. Opens(k.slot, reply) \in BOOLEAN
    BY DEF Opens
  <2> QED BY <1>4, <1>5, <2>1, <2>2, ReplyEffect
<1>6. CASE TimesOut(c, dep.rt)
  <2>1. inst' = Owned(SharedBy(c, k.slot.opens = "kv"), {CallOf(c)})
    BY <1>6 DEF TimesOut
  <2>2. (k.slot.opens = "kv") \in BOOLEAN
    OBVIOUS
  <2> QED BY <1>4, <1>6, <2>1, <2>2, TimesOutEffect
<1>7. CASE CallerLeaves(c, dep.rt)
  <2>1. inst' = Owned(SharedBy(c, FALSE), {CallOf(c)})
    BY <1>7 DEF CallerLeaves, SharedBy
  <2>2. k.hand = "none"
    BY <1>0, <1>7, CallerLeavesEffect DEF Shape
  <2> QED BY <1>4, <1>7, <2>1, <2>2, CallerLeavesEffect
<1>8. ASSUME NEW reply, LateReply(c, reply)
      PROVE  InstType' /\ InstancesFreedOnce' /\ OwnersExact'
  <2>1. UNCHANGED inst
    BY <1>8 DEF LateReply
  <2>2. k.pc # "idle"
    BY <1>0, <1>8, LateReplyEffect DEF Shape
  <2>3. Owning(c, calls'[c], inst.owners)
    BY <1>0, <1>8, LateReplyEffect DEF Owning
  <2> QED BY <1>0, <1>2, <1>8, <2>1, <2>2, <2>3, LateReplyEffect
<1>9. CASE CallBack(c) \/ TakeEvent(c)
  <2>1. UNCHANGED inst
    BY <1>9 DEF CallBack, TakeEvent
  <2>2. k.pc # "idle"
    BY <1>0, <1>9 DEF CallBack, TakeEvent, Shape
  <2>3. Owning(c, calls'[c], inst.owners)
    BY <1>0, <1>9, QueueEffect DEF Owning
  <2> QED BY <1>0, <1>2, <1>9, <2>1, <2>2, <2>3, QueueEffect
<1>10. CASE BeginClose(c) \/ DropWatch(c)
  <2>1. UNCHANGED inst
    BY <1>10 DEF BeginClose, DropWatch
  <2>2. k.pc = "answered"
    BY <1>0, <1>10, HandleEffect DEF Shape, CallRecords
  <2>3. Owning(c, calls'[c], inst.owners)
    BY <1>0, <1>10, <2>2, HandleEffect DEF Owning, Shares
  <2> QED BY <1>0, <1>2, <1>10, <2>1, <2>2, <2>3, HandleEffect
<1>11. CASE CancelReturns(c) \/ DropKv(c)
  <2>1. inst' = Owned({}, {HandleOf(c)})
    BY <1>11 DEF CancelReturns, DropKv
  <2>2. k.pc = "answered"
    BY <1>0, <1>11, HandleEffect DEF Shape, CallRecords
  <2>3. Owning(c, calls'[c], (inst.owners \cup {}) \ {HandleOf(c)})
    BY <1>0, <1>11, <2>2, HandleEffect, OwnersApart DEF Owning
  <2> QED BY <1>0, <1>1, <1>11, <2>1, <2>2, <2>3, HandleEffect
<1> QED BY <1>3, <1>5, <1>6, <1>7, <1>8, <1>9, <1>10, <1>11 DEF CallStep

(* What loading, registering and dropping the plugin do to the owners. *)
LEMMA LoadOwners ==
    ASSUME LoadType, InstType, OwnersExact, LoadBeforeDrain, InstancesFreedOnce,
           UNCHANGED calls,
           \/ UNCHANGED nativeVars
           \/ \E a \in Artifacts : Replace(a)
           \/ LoadingStep
           \/ EnterRegistry
           \/ DropRegistry
    PROVE  InstType' /\ InstancesFreedOnce' /\ OwnersExact'
<1> DEFINE Goal == InstType' /\ InstancesFreedOnce' /\ OwnersExact'
           Idle == \A c \in Callers : calls[c].pc = "idle" /\ CallOf(c) \notin inst.owners
                                                        /\ HandleOf(c) \notin inst.owners
<1>1. ASSUME UNCHANGED inst,
             \/ load'.pc = load.pc
             \/ load.pc \in Early /\ load'.pc \in Early \cup {"refused"}
      PROVE  Goal
  <2>1. InstType' /\ InstancesFreedOnce'
    BY <1>1 DEF InstType, InstancesFreedOnce
  <2>2. OwnersExact'
    BY <1>1 DEF OwnersExact, Early
  <2> QED BY <2>1, <2>2
<1>2. load.pc \in Early \cup {"asking", "built", "ready", "refused"}
  BY DEF LoadType
<1>3. ASSUME NEW come \in SUBSET {Loader, Adapter}, NEW go \in SUBSET {Loader, Adapter},
             inst.owners # {} \/ come = {}, inst' = Owned(come, go),
             load.pc # "ready" => load'.pc \in {"built", "ready", "refused"},
             load.pc = "ready" => load'.pc = "ready",
             load'.pc = "built" => (inst.owners \cup come) \ go = {Adapter},
             Loader \in go \/ Loader \notin inst.owners \cup come,
             load'.pc = "refused" => Adapter \notin (inst.owners \cup come) \ go
      PROVE  Goal
  <2>1. come \in SUBSET Owners
    BY DEF Owners
  <2>2. InstType' /\ InstancesFreedOnce' /\ inst'.owners = (inst.owners \cup come) \ go
    BY <1>3, <2>1, OwnedEffect
  <2>3. ASSUME NEW c \in Callers
        PROVE  /\ CallOf(c) \in inst'.owners <=> CallOf(c) \in inst.owners
               /\ HandleOf(c) \in inst'.owners <=> HandleOf(c) \in inst.owners
    BY <2>2, OwnersApart
  <2>4. OwnersExact'
    BY <1>2, <1>3, <2>2, <2>3 DEF OwnersExact, Early
  <2> QED BY <2>2, <2>4
<1>4. CASE UNCHANGED nativeVars \/ (\E a \in Artifacts : Replace(a)) \/ Rehash \/ DlOpen
           \/ Verify(dep.options) \/ \E ok \in BOOLEAN : Registration(ok)
  <2>1. UNCHANGED inst
    BY <1>4 DEF nativeVars, Replace, Rehash, DlOpen, Verify, Registration
  <2>2. \/ load'.pc = load.pc
        \/ load.pc \in Early /\ load'.pc \in Early \cup {"refused"}
    <3>1. CASE UNCHANGED nativeVars
      BY <3>1 DEF nativeVars
    <3>2. ASSUME NEW a \in Artifacts, Replace(a) PROVE load'.pc = load.pc
      BY <3>2 DEF Replace, LoadType
    <3>3. CASE Rehash
      BY <3>3 DEF Rehash, LoadType, Refused, Early
    <3>4. CASE DlOpen
      BY <3>4 DEF DlOpen, LoadType, Refused, Early
    <3>5. CASE Verify(dep.options)
      BY <3>5 DEF Verify, LoadType, Refused, Early
    <3>6. ASSUME NEW ok \in BOOLEAN, Registration(ok)
          PROVE  load.pc \in Early /\ load'.pc \in Early \cup {"refused"}
      BY <3>6 DEF Registration, LoadType, Refused, Early
    <3> QED BY <1>4, <3>1, <3>2, <3>3, <3>4, <3>5, <3>6
  <2> QED BY <1>1, <2>1, <2>2
<1>5. ASSUME NEW ok \in BOOLEAN, DeriveManifest(dep.probed, ok) PROVE Goal
  <2>1. load.pc \in Early /\ load'.pc \in Early \cup {"refused"}
    BY <1>5 DEF DeriveManifest, LoadType, Refused, Early
  <2>2. CASE ~dep.probed
    BY <1>1, <1>5, <2>1, <2>2 DEF DeriveManifest
  <2>3. CASE dep.probed
    <3>1. inst' = [inst EXCEPT !.made = inst.made + 1, !.freed = inst.freed + 1]
      BY <1>5, <2>3 DEF DeriveManifest
    <3>2. inst.made \in Nat /\ inst.freed \in Nat
      BY DEF InstType
    <3>3. inst.made + 1 \in Nat /\ inst.freed + 1 \in Nat
      BY <3>2
    <3>4. /\ inst'.owners = inst.owners
          /\ inst'.made = inst.made + 1 /\ inst'.freed = inst.freed + 1
      BY <3>1 DEF InstType
    <3>5. InstType'
      BY <3>1, <3>3 DEF InstType
    <3>6. InstancesFreedOnce'
      BY <3>2, <3>4 DEF InstancesFreedOnce
    <3>7. OwnersExact'
      BY <2>1, <3>4 DEF OwnersExact, Early
    <3> QED BY <3>5, <3>6, <3>7
  <2> QED BY <2>2, <2>3
<1>6. ASSUME NEW ok \in BOOLEAN, Make(ok) PROVE Goal
  <2>1. load.pc = "loaded" /\ inst.owners = {}
    BY <1>6 DEF Make, OwnersExact, Early
  <2>2. CASE ~ok
    <3>1. load'.pc = "refused" /\ UNCHANGED inst
      BY <1>6, <2>2 DEF Make, LoadType, Refused
    <3> QED BY <1>1, <2>1, <3>1 DEF Early
  <2>3. CASE ok
    <3>1. load'.pc = "asking" /\ inst' = [inst EXCEPT !.made = inst.made + 1, !.owners = {Loader}]
      BY <1>6, <2>3 DEF Make, LoadType
    <3>2. inst.made \in Nat /\ inst.freed \in Nat
      BY DEF InstType
    <3>3. inst.made + 1 \in Nat /\ {Loader} \in SUBSET Owners
      BY <3>2 DEF Owners
    <3>4. inst'.owners = {Loader} /\ inst'.made = inst.made + 1 /\ inst'.freed = inst.freed
      BY <3>1 DEF InstType
    <3>5. InstType'
      BY <3>1, <3>3 DEF InstType
    <3>6. InstancesFreedOnce'
      BY <2>1, <3>2, <3>4 DEF InstancesFreedOnce
    <3>7. OwnersExact'
      BY <2>1, <3>1, <3>4, OwnersApart DEF OwnersExact, Early
    <3> QED BY <3>5, <3>6, <3>7
  <2> QED BY <2>2, <2>3
<1>7. ASSUME NEW ok \in BOOLEAN, NEW asks, Ask(asks, ok) PROVE Goal
  <2>1. load.pc = "asking" /\ inst.owners = {Loader}
    BY <1>7 DEF Ask, OwnersExact
  <2>2. CASE ~ok
    <3>1. load'.pc = "refused" /\ inst' = Owned({}, {Loader})
      BY <1>7, <2>2 DEF Ask, LoadType, Refused
    <3>2. Adapter \notin (inst.owners \cup {}) \ {Loader}
      BY <2>1
    <3> QED BY <1>3, <2>1, <3>1, <3>2
  <2>3. CASE ok /\ load.ask < Len(asks)
    <3>1. load'.pc = load.pc /\ UNCHANGED inst
      BY <1>7, <2>3 DEF Ask, LoadType
    <3> QED BY <1>1, <3>1
  <2>4. CASE ok /\ ~(load.ask < Len(asks))
    <3>1. load'.pc = "built" /\ inst' = Owned({Adapter}, {Loader})
      BY <1>7, <2>4 DEF Ask, LoadType
    <3>2. (inst.owners \cup {Adapter}) \ {Loader} = {Adapter}
      BY <2>1, OwnersApart
    <3> QED BY <1>3, <2>1, <3>1, <3>2
  <2> QED BY <2>2, <2>3, <2>4
<1>8. CASE EnterRegistry
  <2>1. load.pc = "built" /\ inst.owners = {Adapter}
    BY <1>8 DEF EnterRegistry, OwnersExact
  <2>2. CASE Admits(dep.native)
    <3>1. load'.pc = "ready" /\ UNCHANGED inst
      BY <1>8, <2>2 DEF EnterRegistry, LoadType
    <3>2. InstType' /\ InstancesFreedOnce'
      BY <3>1 DEF InstType, InstancesFreedOnce
    <3>3. OwnersExact'
      BY <2>1, <3>1, OwnersApart DEF OwnersExact, Early
    <3> QED BY <3>2, <3>3
  <2>3. CASE ~Admits(dep.native)
    <3>1. load'.pc = "refused" /\ inst' = Owned({}, {Adapter})
      BY <1>8, <2>3 DEF EnterRegistry, LoadType, Refused
    <3>2. Loader \notin inst.owners \cup {}
      BY <2>1, OwnersApart
    <3> QED BY <1>3, <2>1, <3>1, <3>2
  <2> QED BY <2>2, <2>3
<1>9. CASE DropRegistry
  <2>1. UNCHANGED load /\ inst' = Owned({}, {Adapter})
    BY <1>9 DEF DropRegistry
  <2>2. load.pc \in {"none", "refused", "ready"}
    BY <1>9 DEF DropRegistry, LoadBeforeDrain
  <2>3. CASE load.pc = "none"
    <3>1. inst.owners = {} /\ (inst.owners \cup {}) \ {Adapter} = {}
      BY <2>3 DEF OwnersExact, Early
    <3>2. {} \in SUBSET Owners
      OBVIOUS
    <3>3. InstType' /\ InstancesFreedOnce' /\ inst'.owners = (inst.owners \cup {}) \ {Adapter}
      BY <2>1, <3>2, OwnedEffect
    <3>4. OwnersExact'
      BY <2>1, <2>3, <3>1, <3>3 DEF OwnersExact
    <3> QED BY <3>3, <3>4
  <2>4. CASE load.pc # "none"
    <3>1. Loader \notin inst.owners \cup {}
      BY <2>2, <2>4 DEF OwnersExact
    <3> QED BY <1>3, <2>1, <2>2, <2>4, <3>1
  <2> QED BY <2>3, <2>4
<1> QED BY <1>4, <1>5, <1>6, <1>7, <1>8, <1>9 DEF LoadingStep

(* Shutdown begins under boot's own guard, and no load begins after it. *)
LEMMA NextDrain == LoadType /\ LoadBeforeDrain /\ [Next]_vars => LoadBeforeDrain'
<1> SUFFICES ASSUME LoadType, LoadBeforeDrain, [Next]_vars PROVE LoadBeforeDrain'
  OBVIOUS
<1>1. CASE Boot
  BY <1>1 DEF Boot, RegisterPlugin, RegisterFirstParty, BindKey, AutoBind, LoadNative, Done,
              Booting, nativeVars, registryVars, AutoBindSecret, AutoBindConfig, LoadBeforeDrain
<1>2. CASE LoadStep \/ EnterRegistry
  BY <1>2 DEF LoadStep, Rehash, DlOpen, Registration, DeriveManifest, Make, Ask, EnterRegistry,
              registryVars, LoadBeforeDrain
<1>3. CASE ReplaceArtifact
  <2>1. load'.pc = load.pc /\ UNCHANGED drain
    BY <1>3 DEF ReplaceArtifact, Replace, LoadType, registryVars
  <2> QED BY <2>1 DEF LoadBeforeDrain
<1>4. CASE Toggle \/ DropRegistry \/ UNCHANGED vars
  BY <1>4 DEF Toggle, SetState, DropRegistry, nativeVars, registryVars, vars, LoadBeforeDrain
<1>5. CASE Shutdown \/ DrainNext \/ DrainReturns \/ DrainTimesOut
  BY <1>5 DEF Shutdown, Booting, DrainNext, DrainOne, DrainReturns, ShutdownReturns,
              DrainTimesOut, ShutdownTimesOut, nativeVars, LoadBeforeDrain
<1>6. CASE AskHost \/ HostAnswers
  BY <1>6 DEF AskHost, HostAnswers, HostSlot, HostResolveCredentials, HostInvokeTool,
              HostIssueCredential, HostResolveSecret, HostConfigSnapshot, HostAuditEvent,
              HostCacheGet, HostCachePut, HostFetchContent, HostStoreContent, Enter,
              ServiceReturns, nativeVars, registryVars, LoadBeforeDrain
<1>7. CASE NativeReplies \/ UseHandle
  <2>1. UNCHANGED drain /\ \E c \in Callers : CallStep(c)
    BY <1>7 DEF NativeReplies, UseHandle, CallStep, registryVars
  <2> QED BY <2>1, CallSteps DEF LoadBeforeDrain
<1>8. ASSUME NEW c \in Callers,
             BeginCall(c) \/ CallTimesOut(c) \/ LeaveCall(c) \/ EndHandle(c)
      PROVE  LoadBeforeDrain'
  <2>1. UNCHANGED drain /\ CallStep(c)
    BY <1>8 DEF BeginCall, CallTimesOut, LeaveCall, EndHandle, CallStep, registryVars
  <2> QED BY <2>1, CallSteps DEF LoadBeforeDrain
<1> QED BY <1>1, <1>2, <1>3, <1>4, <1>5, <1>6, <1>7, <1>8 DEF Next

(* A step that neither begins a call nor takes a borrowed handle away. *)
LEMMA BorrowedKept ==
    ASSUME Borrowed, NEW c \in Callers, OthersKept(c),
           calls'[c].pc = "waiting" =>
               /\ calls[c].pc = "waiting"
               /\ calls'[c].slot = calls[c].slot /\ calls'[c].via = calls[c].via,
           calls[c].hand = "held" /\ calls[c].slot.opens # "watch" /\ ~NotBorrowed(c) =>
               calls'[c].hand = "held" /\ calls'[c].slot = calls[c].slot
    PROVE  Borrowed'
<1> SUFFICES ASSUME NEW d \in Callers, calls'[d].pc = "waiting", calls'[d].slot.via # "watch"
             PROVE  IF calls'[d].slot.via = "none" THEN calls'[d].via = "none"
                    ELSE /\ calls'[d].via \in Callers
                         /\ calls'[calls'[d].via].hand = "held"
                         /\ calls'[calls'[d].via].slot.opens = calls'[d].slot.via
  BY DEF Borrowed
<1>1. /\ calls[d].pc = "waiting"
      /\ calls'[d].slot = calls[d].slot /\ calls'[d].via = calls[d].via
  BY DEF OthersKept
<1>2. CASE calls[d].slot.via = "none"
  BY <1>1, <1>2 DEF Borrowed
<1>3. CASE calls[d].slot.via # "none"
  <2>1. /\ calls[d].via \in Callers /\ calls[calls[d].via].hand = "held"
        /\ calls[calls[d].via].slot.opens = calls[d].slot.via
    BY <1>1, <1>3 DEF Borrowed
  <2>2. /\ calls'[calls[d].via].hand = "held"
        /\ calls'[calls[d].via].slot = calls[calls[d].via].slot
    <3>1. CASE calls[d].via = c
      BY <1>1, <2>1, <3>1 DEF NotBorrowed
    <3>2. CASE calls[d].via # c
      BY <2>1, <3>2 DEF OthersKept
    <3> QED BY <3>1, <3>2
  <2> QED BY <1>1, <1>3, <2>1, <2>2
<1> QED BY <1>2, <1>3

(* A handle is held for as long as a call goes through it. *)
LEMMA NextBorrowed ==
    DepType /\ CallType /\ CallsShaped /\ Borrowed /\ [Next]_vars => Borrowed'
<1> SUFFICES ASSUME DepType, CallType, CallsShaped, Borrowed, [Next]_vars PROVE Borrowed'
  OBVIOUS
<1>1. CASE UNCHANGED calls
  BY <1>1 DEF Borrowed
<1>2. ASSUME NEW c \in Callers, CallStep(c) PROVE Borrowed'
  <2> DEFINE k == calls[c]
  <2>0. k \in CallRecords /\ Shape(k)
    BY DEF CallType, CallsShaped
  <2>1. ASSUME NEW slot \in dep.slots, NEW via \in Callers \cup {"none"},
               Begin(c, slot, via, dep.rt)
        PROVE  Borrowed'
    <3>1. slot \in Slots
      BY CalledSlot DEF SlotFits
    <3>2. /\ OthersKept(c) /\ k.pc = "idle" /\ calls'[c].slot = slot /\ calls'[c].via = via
          /\ k.hand = "none"
      BY <2>0, <2>1, <3>1, BeginEffect DEF Shape
    <3>3. IF slot.via = "none" THEN via = "none"
          ELSE /\ via \in Callers \ {c}
               /\ calls[via].hand = "held" /\ calls[via].slot.opens = slot.via
      BY <2>1 DEF Begin
    <3>4. ASSUME NEW d \in Callers, calls'[d].pc = "waiting", calls'[d].slot.via # "watch"
          PROVE  IF calls'[d].slot.via = "none" THEN calls'[d].via = "none"
                 ELSE /\ calls'[d].via \in Callers
                      /\ calls'[calls'[d].via].hand = "held"
                      /\ calls'[calls'[d].via].slot.opens = calls'[d].slot.via
      <4>1. CASE d = c
        BY <3>2, <3>3, <4>1 DEF OthersKept
      <4>2. CASE d # c
        <5>1. calls'[d] = calls[d]
          BY <3>2, <4>2 DEF OthersKept
        <5>2. CASE calls[d].slot.via = "none"
          BY <3>4, <5>1, <5>2 DEF Borrowed
        <5>3. CASE calls[d].slot.via # "none"
          <6>1. /\ calls[d].via \in Callers /\ calls[calls[d].via].hand = "held"
                /\ calls[calls[d].via].slot.opens = calls[d].slot.via
            BY <3>4, <5>1, <5>3 DEF Borrowed
          <6>2. calls[d].via # c
            BY <3>2, <6>1
          <6> QED BY <3>2, <5>1, <5>3, <6>1, <6>2 DEF OthersKept
        <5> QED BY <5>2, <5>3
      <4> QED BY <4>1, <4>2
    <3> QED BY <3>4 DEF Borrowed
  <2>2. ASSUME NEW reply, Reply(c, reply) PROVE Borrowed'
    BY <2>0, <2>2, ReplyEffect, BorrowedKept DEF Shape
  <2>3. ASSUME NEW reply, LateReply(c, reply) PROVE Borrowed'
    BY <2>3, LateReplyEffect, BorrowedKept
  <2>4. CASE TimesOut(c, dep.rt)
    BY <2>0, <2>4, TimesOutEffect, BorrowedKept DEF Shape
  <2>5. CASE CallerLeaves(c, dep.rt)
    BY <2>5, CallerLeavesEffect, BorrowedKept
  <2>6. CASE CallBack(c) \/ TakeEvent(c)
    BY <2>6, QueueEffect, BorrowedKept
  <2>7. CASE BeginClose(c) \/ DropKv(c)
    <3>1. calls[c].slot.opens = "watch" \/ NotBorrowed(c)
      BY <2>7 DEF BeginClose, DropKv
    <3> QED BY <2>7, <3>1, HandleEffect, BorrowedKept
  <2>8. CASE CancelReturns(c) \/ DropWatch(c)
    BY <2>8, HandleEffect, BorrowedKept
  <2> QED BY <1>2, <2>1, <2>2, <2>3, <2>4, <2>5, <2>6, <2>7, <2>8 DEF CallStep
<1> QED BY <1>1, <1>2, CallSteps

-------------------------------------------------------------------------------
(* The memory of the plugin.                                                *)

(* What the loads, the calls and the owners keep between them. *)
Kept ==
    /\ DepType /\ LoadType /\ LoadChecked /\ LoadedBytesVerified /\ LoadBeforeDrain
    /\ CallType /\ CallsShaped /\ AnswersEarned /\ Borrowed
    /\ InstType /\ InstancesFreedOnce /\ OwnersExact

(* It holds at first. *)
LEMMA InitKept == Init => Kept
<1> SUFFICES ASSUME Init PROVE Kept
  OBVIOUS
<1>1. DepType /\ CallType /\ CallsShaped /\ AnswersEarned
  BY InitShape
<1>2. /\ load = NotLoaded /\ disk \in Artifacts /\ drain.pc = "no"
      /\ inst = [made |-> 0, freed |-> 0, owners |-> {}]
      /\ \A c \in Callers : calls[c] = NoCall
  BY DeploymentAssumption DEF Init, NativeInit, NotDraining
<1>3. LoadType /\ LoadChecked /\ LoadedBytesVerified /\ LoadBeforeDrain
  BY <1>2 DEF NotLoaded, LoadType, LoadChecked, LoadedBytesVerified, LoadBeforeDrain, Early, Files
<1>4. Borrowed
  BY <1>2 DEF NoCall, Borrowed
<1>5. InstType /\ InstancesFreedOnce
  BY <1>2 DEF InstType, InstancesFreedOnce
<1>6. OwnersExact
  BY <1>2 DEF OwnersExact, NotLoaded, NoCall, Early
<1> QED BY <1>1, <1>3, <1>4, <1>5, <1>6 DEF Kept

(* Every step keeps it. *)
LEMMA NextKept == Kept /\ [Next]_vars => Kept'
<1> SUFFICES ASSUME Kept, [Next]_vars PROVE Kept'
  OBVIOUS
<1>1. DepType' /\ LoadType' /\ LoadChecked' /\ LoadedBytesVerified' /\ LoadBeforeDrain'
  BY NextDep, NextLoad, NextDrain DEF Kept
<1>2. CallType' /\ CallsShaped' /\ AnswersEarned' /\ Borrowed'
  BY NextShape, NextBorrowed DEF Kept
<1>3. InstType' /\ InstancesFreedOnce' /\ OwnersExact'
  <2>1. CASE \E c \in Callers : CallStep(c)
    BY <2>1, CallOwners DEF Kept
  <2>2. CASE ~\E c \in Callers : CallStep(c)
    BY <2>2, NativeSteps, CallSteps, LoadOwners DEF Kept
  <2> QED BY <2>1, <2>2
<1> QED BY <1>1, <1>2, <1>3 DEF Kept

(* However many calls and handles share the plugin, and in whatever order    *)
(* loader, registry, callers and handles let go: each instance made is freed *)
(* once, by the last of them.                                                *)
THEOREM EachInstanceFreedOnce == Spec => []InstancesFreedOnce
<1>1. Kept => InstancesFreedOnce
  BY DEF Kept
<1> QED BY <1>1, InitKept, NextKept, PTL DEF Spec

(* For any number of callers, in whatever order loader, registry, callers    *)
(* and handles let go: what goes through the adapter, a lease or a key-value *)
(* handle is inside a live instance, the cancel of a stream and what goes    *)
(* through a listener inside mapped code.                                    *)
THEOREM InstanceStaysInUse == Spec => []InstanceOutlivesUse
<1>1. ASSUME Kept PROVE InstanceOutlivesUse
  <2> SUFFICES ASSUME NEW c \in Callers
               PROVE
        /\ \A kind \in {"none", "lease", "kv"} : Inside(c, kind) => inst.owners # {} /\ Mapped
        /\ \A kind \in {"stream", "listener"} : Inside(c, kind) => Mapped
        /\ Inside(c, "none") => HostBridgeLive
        /\ calls[c].hand = "held" /\ calls[c].slot.opens \in {"lease", "kv"} => inst.owners # {}
    BY DEF InstanceOutlivesUse
  <2>1. calls[c] \in CallRecords /\ Shape(calls[c]) /\ calls[c].slot \in Slots
    BY <1>1 DEF Kept, CallType, CallsShaped, CallRecords
  <2>2. ASSUME NEW d \in Callers, calls[d].hand \in {"held", "closing"},
               calls[d].slot.opens \in {"lease", "kv"}
        PROVE  inst.owners # {} /\ Mapped
    BY <1>1, <2>2 DEF Kept, OwnersExact, Shares, Mapped
  <2>3. ASSUME calls[c].pc = "waiting", calls[c].slot.via = "none"
        PROVE  HostBridgeLive /\ inst.owners # {} /\ Mapped
    BY <1>1, <2>3 DEF Kept, OwnersExact, HostBridgeLive, Mapped
  <2>4. ASSUME calls[c].pc = "waiting", calls[c].slot.via \notin {"none", "watch"}
        PROVE  Mapped /\ (calls[c].slot.via # "listener" => inst.owners # {})
    <3>1. PICK d \in Callers : calls[d].hand = "held" /\ calls[d].slot.opens = calls[c].slot.via
      BY <1>1, <2>4 DEF Kept, Borrowed
    <3>2. calls[c].slot.via \in {"kv", "lease", "listener"}
      BY <2>1, <2>4 DEF Slots
    <3> QED BY <2>2, <3>1, <3>2 DEF Mapped, KeepsLibrary
  <2>5. ASSUME calls[c].hand = "closing", calls[c].slot.opens \in {"stream", "listener"}
        PROVE  Mapped
    BY <2>5 DEF Mapped, KeepsLibrary
  <2>6. calls[c].hand = "closing" => calls[c].slot.opens # "none"
    BY <2>1 DEF Shape
  <2>7. ASSUME NEW kind \in {"none", "lease", "kv"}, Inside(c, kind)
        PROVE  inst.owners # {} /\ Mapped
    <3>1. CASE calls[c].pc = "waiting" /\ calls[c].slot.via = kind
      BY <2>3, <2>4, <3>1
    <3>2. CASE calls[c].hand = "closing" /\ calls[c].slot.opens = kind
      BY <2>2, <2>6, <3>2
    <3> QED BY <2>7, <3>1, <3>2 DEF Inside
  <2>8. ASSUME NEW kind \in {"stream", "listener"}, Inside(c, kind) PROVE Mapped
    BY <2>4, <2>5, <2>8 DEF Inside
  <2>9. Inside(c, "none") => HostBridgeLive
    BY <2>3, <2>6 DEF Inside
  <2> QED BY <2>2, <2>7, <2>8, <2>9
<1> QED BY <1>1, InitKept, NextKept, PTL DEF Spec

-------------------------------------------------------------------------------
(* Dispatches.                                                              *)

(* The fields of the host's record, and an update of it. *)
LEMMA HostFields ==
    ASSUME HostType, NEW n \in Nat, NEW live \in SUBSET Nat, NEW nonce \in [Callers -> Nat],
           host' = [host EXCEPT !.next = n, !.live = live, !.nonce = nonce]
    PROVE  HostType' /\ host'.next = n /\ host'.live = live /\ host'.nonce = nonce
BY DEF HostType

(* The step of one call that neither opens nor ends a dispatch. *)
LEMMA DispatchGoesOn ==
    ASSUME HostType, Dispatches, NEW c \in Callers, OthersKept(c), UNCHANGED host,
           host.nonce[c] # 0 =>
               /\ calls'[c].pc # "idle" /\ calls'[c].slot = calls[c].slot
               /\ Serving(c)' <=> Serving(c)
    PROVE  HostType' /\ Dispatches'
<1>1. HostType'
  BY DEF HostType
<1>2. ASSUME NEW d \in Callers, host.nonce[d] # 0
      PROVE  /\ calls'[d].pc # "idle" /\ calls'[d].slot.opens \notin {"kv", "watch"}
             /\ host.nonce[d] \in host.live <=> Serving(d)'
  <2>1. CASE d = c
    BY <1>2, <2>1 DEF Dispatches
  <2>2. CASE d # c
    BY <1>2, <2>2 DEF Dispatches, OthersKept, Serving
  <2> QED BY <2>1, <2>2
<1> QED BY <1>1, <1>2 DEF Dispatches

(* DispatchGuard::drop, at the end of a call or of its stream. *)
LEMMA DispatchEnds ==
    ASSUME HostType, Dispatches, NEW c \in Callers, OthersKept(c), host' = Retired(c),
           calls'[c].pc # "idle", calls'[c].slot = calls[c].slot,
           host.nonce[c] # 0 => ~Serving(c)'
    PROVE  HostType' /\ Dispatches'
<1> DEFINE live == host.live \ {host.nonce[c]}
<1>1. /\ host' = [host EXCEPT !.next = host.next, !.live = live, !.nonce = host.nonce]
      /\ host.next \in Nat /\ live \in SUBSET Nat /\ host.nonce \in [Callers -> Nat]
  BY DEF Retired, HostType
<1>2. /\ HostType' /\ host'.next = host.next /\ host'.live = live /\ host'.nonce = host.nonce
  <2> HIDE DEF live
  <2> QED BY <1>1, HostFields
<1>3. ASSUME NEW d \in Callers, host.nonce[d] # 0
      PROVE  /\ calls'[d].pc # "idle" /\ calls'[d].slot.opens \notin {"kv", "watch"}
             /\ host.nonce[d] \in live <=> Serving(d)'
  <2>1. CASE d = c
    BY <1>3, <2>1 DEF Dispatches
  <2>2. CASE d # c
    <3>1. host.nonce[d] # host.nonce[c]
      BY <1>3, <2>2 DEF Dispatches
    <3> QED BY <1>3, <2>2, <3>1 DEF Dispatches, OthersKept, Serving
  <2> QED BY <2>1, <2>2
<1>4. \A n \in live : n # 0 /\ n < host.next
  BY DEF Dispatches
<1> HIDE DEF live
<1> QED BY <1>2, <1>3, <1>4 DEF Dispatches

(* The next nonce is nobody's. *)
LEMMA DispatchBegins ==
    ASSUME HostType, Dispatches, NEW c \in Callers, OthersKept(c), BeginDispatch(c),
           calls'[c].pc = "waiting", calls'[c].slot.opens \notin {"kv", "watch"},
           calls[c].pc = "idle"
    PROVE  HostType' /\ Dispatches'
<1> DEFINE n == host.next + 1
           live == host.live \cup {host.next}
           nonce == [host.nonce EXCEPT ![c] = host.next]
<1>1. host.next \in Nat /\ host.live \in SUBSET Nat /\ host.nonce \in [Callers -> Nat]
  BY DEF HostType
<1>2. n \in Nat /\ live \in SUBSET Nat /\ nonce \in [Callers -> Nat]
  BY <1>1
<1>3. host' = [host EXCEPT !.next = n, !.live = live, !.nonce = nonce]
  BY DEF BeginDispatch
<1>4. HostType' /\ host'.next = n /\ host'.live = live /\ host'.nonce = nonce
  <2> HIDE DEF n, live, nonce
  <2> QED BY <1>2, <1>3, HostFields
<1>5. nonce[c] = host.next /\ \A d \in Callers \ {c} : nonce[d] = host.nonce[d]
  BY <1>1
<1>6. host.next # 0 /\ n # 0 /\ \A m \in live : m # 0 /\ m < n
  BY <1>1 DEF Dispatches
<1>7. \A d \in Callers : host.nonce[d] < host.next /\ nonce[d] < n
  BY <1>1, <1>5 DEF Dispatches
<1>8. \A d, e \in Callers : nonce[d] = nonce[e] /\ nonce[d] # 0 => d = e
  BY <1>1, <1>5, <1>7 DEF Dispatches
<1>9. ASSUME NEW d \in Callers, nonce[d] # 0
      PROVE  /\ calls'[d].pc # "idle" /\ calls'[d].slot.opens \notin {"kv", "watch"}
             /\ nonce[d] \in live <=> Serving(d)'
  <2>1. CASE d = c
    BY <1>5, <2>1 DEF Serving
  <2>2. CASE d # c
    <3>1. nonce[d] = host.nonce[d] /\ nonce[d] # host.next
      BY <1>1, <1>5, <1>7, <2>2
    <3> QED BY <1>9, <2>2, <3>1 DEF Dispatches, OthersKept, Serving
  <2> QED BY <2>1, <2>2
<1> HIDE DEF n, live, nonce
<1> QED BY <1>4, <1>6, <1>7, <1>8, <1>9 DEF Dispatches

(* A host slot changes who is in it, and no dispatch. *)
LEMMA HostSlotsKeepDispatches ==
    ASSUME HostType, Dispatches, UNCHANGED calls, NEW c \in Callers,
           NEW as \in Callers \cup {System, NoSlot}, host' = [host EXCEPT !.in[c] = as]
    PROVE  HostType' /\ Dispatches'
<1>1. /\ HostType' /\ host'.next = host.next /\ host'.live = host.live
      /\ host'.nonce = host.nonce
  BY DEF HostType
<1>2. \A d \in Callers : Serving(d)' <=> Serving(d)
  BY DEF Serving
<1> QED BY <1>1, <1>2 DEF Dispatches

(* Every request has a dispatch of its own, open while it is served. *)
LEMMA NextDispatches == Kept /\ HostType /\ Dispatches /\ [Next]_vars => HostType' /\ Dispatches'
<1> SUFFICES ASSUME Kept, HostType, Dispatches, [Next]_vars PROVE HostType' /\ Dispatches'
  OBVIOUS
<1>0. ASSUME NEW c \in Callers
      PROVE  calls[c] \in CallRecords /\ Shape(calls[c])
  BY DEF Kept, CallType, CallsShaped
<1>a. CallType /\ DepType
  BY DEF Kept
<1>1. CASE UNCHANGED <<calls, host>>
  BY <1>1 DEF HostType, Dispatches, Serving
<1>2. CASE Boot \/ LoadStep \/ EnterRegistry \/ ReplaceArtifact \/ Toggle \/ Shutdown
           \/ DrainNext \/ DrainReturns \/ DrainTimesOut \/ DropRegistry \/ UNCHANGED vars
  <2>1. UNCHANGED <<calls, host>>
    <3>1. CASE Boot
      BY <3>1 DEF Boot, RegisterPlugin, RegisterFirstParty, BindKey, AutoBind, LoadNative,
                  Done, Verify, nativeVars
    <3>2. CASE LoadStep \/ EnterRegistry \/ ReplaceArtifact
      BY <3>2 DEF LoadStep, Rehash, DlOpen, Registration, DeriveManifest, Make, Ask,
                  EnterRegistry, ReplaceArtifact, Replace
    <3>3. CASE Toggle \/ Shutdown \/ DrainNext \/ DrainReturns \/ DrainTimesOut
               \/ DropRegistry \/ UNCHANGED vars
      BY <3>3 DEF Toggle, Shutdown, DrainNext, DrainReturns, DrainTimesOut, DropRegistry,
                  nativeVars, vars
    <3> QED BY <1>2, <3>1, <3>2, <3>3
  <2> QED BY <1>1, <2>1
<1>3. ASSUME NEW c \in Callers, BeginCall(c) PROVE HostType' /\ Dispatches'
  <2>1. PICK slot \in dep.slots, via \in Callers \cup {"none"} :
            /\ Begin(c, slot, via, dep.rt)
            /\ \/ Stamps(dep.native.class, slot) /\ BeginDispatch(c)
               \/ UNCHANGED host
    BY <1>3 DEF BeginCall
  <2>2. slot \in Slots
    BY <1>a, CalledSlot DEF SlotFits
  <2>3. /\ OthersKept(c) /\ calls[c].pc = "idle" /\ calls'[c].pc = "waiting"
        /\ calls'[c].slot = slot
    BY <1>a, <2>1, <2>2, BeginEffect
  <2>4. host.nonce[c] = 0
    BY <2>3 DEF Dispatches
  <2>5. CASE Stamps(dep.native.class, slot) /\ BeginDispatch(c)
    <3>1. slot.opens \notin {"kv", "watch"}
      BY <2>5 DEF Stamps, BackendExecute, ExecuteStreaming, OpensStream, Opening, Capped, Slot
    <3> QED BY <2>3, <2>5, <3>1, DispatchBegins
  <2>6. CASE UNCHANGED host
    BY <2>3, <2>4, <2>6, DispatchGoesOn
  <2> QED BY <2>1, <2>5, <2>6
<1>4. CASE NativeReplies
  <2>0. PICK c \in Callers : \E reply \in Replies(calls[c].slot) :
            \/ Reply(c, reply) /\ AfterReply(c)
            \/ LateReply(c, reply) /\ UNCHANGED host
    BY <1>4 DEF NativeReplies
  <2>1. PICK reply : \/ Reply(c, reply) /\ AfterReply(c)
                     \/ LateReply(c, reply) /\ UNCHANGED host
    BY <2>0
  <2>2. CASE Reply(c, reply) /\ AfterReply(c)
    <3>1. /\ OthersKept(c) /\ calls[c].pc = "waiting" /\ calls'[c].pc = "answered"
          /\ calls'[c].slot = calls[c].slot /\ calls'[c].hand \in {"held", "none"}
      BY <1>a, <2>2, ReplyEffect
    <3>2. CASE calls'[c].hand = "held"
      <4>1. UNCHANGED host /\ Serving(c) /\ Serving(c)'
        BY <2>2, <3>1, <3>2 DEF AfterReply, Serving
      <4> QED BY <3>1, <4>1, DispatchGoesOn
    <3>3. CASE calls'[c].hand = "none"
      <4>1. host' = Retired(c) /\ ~Serving(c)'
        BY <2>2, <3>1, <3>3 DEF AfterReply, Serving
      <4> QED BY <3>1, <4>1, DispatchEnds
    <3> QED BY <3>1, <3>2, <3>3
  <2>3. CASE LateReply(c, reply) /\ UNCHANGED host
    <3>1. /\ OthersKept(c) /\ calls'[c].pc = calls[c].pc /\ calls'[c].slot = calls[c].slot
          /\ calls'[c].hand = calls[c].hand
      BY <1>a, <2>3, LateReplyEffect
    <3>2. Serving(c)' <=> Serving(c)
      BY <3>1 DEF Serving
    <3>3. host.nonce[c] # 0 => calls'[c].pc # "idle"
      BY <3>1 DEF Dispatches
    <3> QED BY <2>3, <3>1, <3>2, <3>3, DispatchGoesOn
  <2> QED BY <2>1, <2>2, <2>3
<1>5. CASE AskHost \/ HostAnswers
  <2>1. /\ UNCHANGED calls
        /\ \E c \in Callers, as \in Callers \cup {System, NoSlot} :
               host' = [host EXCEPT !.in[c] = as]
    <3>1. \A id : VerifyStrip(id) \in Callers \cup {System, NoSlot}
      BY DEF VerifyStrip
    <3>2. CASE AskHost
      BY <3>1, <3>2 DEF AskHost, HostSlot, HostResolveCredentials, HostInvokeTool,
              HostIssueCredential, HostResolveSecret, HostConfigSnapshot, HostAuditEvent,
              HostCacheGet, HostCachePut, HostFetchContent, HostStoreContent, Enter, nativeVars
    <3>3. CASE HostAnswers
      BY <3>3 DEF HostAnswers, ServiceReturns, nativeVars
    <3> QED BY <1>5, <3>2, <3>3
  <2> QED BY <2>1, HostSlotsKeepDispatches
<1>6. ASSUME NEW c \in Callers, CallTimesOut(c) \/ LeaveCall(c) \/ EndHandle(c)
      PROVE  HostType' /\ Dispatches'
  <2>1. host' = Retired(c)
    BY <1>6 DEF CallTimesOut, LeaveCall, EndHandle
  <2>2. CASE TimesOut(c, dep.rt)
    <3>1. /\ OthersKept(c) /\ calls'[c].pc = "answered" /\ calls'[c].slot = calls[c].slot
          /\ calls[c].slot.opens # "kv" => calls'[c].hand = "none"
      BY <1>a, <2>2, TimesOutEffect
    <3>2. host.nonce[c] # 0 => ~Serving(c)'
      BY <3>1 DEF Dispatches, Serving
    <3> QED BY <2>1, <3>1, <3>2, DispatchEnds
  <2>3. CASE CallerLeaves(c, dep.rt)
    <3>1. /\ OthersKept(c) /\ calls'[c].pc = "gone" /\ calls'[c].slot = calls[c].slot
          /\ calls'[c].hand = "none"
      BY <1>0, <1>a, <2>3, CallerLeavesEffect DEF Shape
    <3>2. ~Serving(c)'
      BY <3>1 DEF Serving
    <3> QED BY <2>1, <3>1, <3>2, DispatchEnds
  <2>4. CASE CancelReturns(c)
    <3>1. /\ OthersKept(c) /\ calls'[c].pc = calls[c].pc /\ calls'[c].slot = calls[c].slot
          /\ calls[c].hand = "closing" /\ calls'[c].hand \in {"cancelled", "closed"}
      BY <1>a, <2>4, HandleEffect
    <3>2. calls[c].pc = "answered"
      BY <1>0, <3>1 DEF Shape, CallRecords
    <3>3. ~Serving(c)'
      BY <3>1, <3>2 DEF Serving
    <3> QED BY <2>1, <3>1, <3>2, <3>3, DispatchEnds
  <2> QED BY <1>6, <2>2, <2>3, <2>4 DEF CallTimesOut, LeaveCall, EndHandle
<1>7. CASE UseHandle
  <2>1. PICK c \in Callers :
            CallBack(c) \/ TakeEvent(c) \/ BeginClose(c) \/ DropWatch(c) \/ DropKv(c)
    BY <1>7 DEF UseHandle
  <2>2. UNCHANGED host
    BY <1>7 DEF UseHandle
  <2>3. CASE CallBack(c) \/ TakeEvent(c)
    <3>1. /\ OthersKept(c) /\ calls'[c].pc = calls[c].pc /\ calls'[c].slot = calls[c].slot
          /\ calls'[c].hand = calls[c].hand
      BY <1>a, <2>3, QueueEffect
    <3>2. /\ Serving(c)' <=> Serving(c)
          /\ host.nonce[c] # 0 => calls'[c].pc # "idle"
      BY <3>1 DEF Serving, Dispatches
    <3> QED BY <2>2, <3>1, <3>2, DispatchGoesOn
  <2>4. CASE BeginClose(c) \/ DropWatch(c) \/ DropKv(c)
    <3>1. /\ OthersKept(c) /\ calls'[c].pc = calls[c].pc /\ calls'[c].slot = calls[c].slot
      BY <1>a, <2>4, HandleEffect
    <3>2. host.nonce[c] # 0 => calls'[c].pc # "idle" /\ calls[c].slot.opens \notin {"kv", "watch"}
      BY <3>1 DEF Dispatches
    <3>3. calls[c].slot.opens \notin {"kv", "watch"} => (Serving(c)' <=> Serving(c))
      <4>1. CASE BeginClose(c)
        BY <1>a, <3>1, <4>1, HandleEffect DEF Serving
      <4>2. CASE DropWatch(c)
        BY <4>2 DEF DropWatch
      <4>3. CASE DropKv(c)
        BY <4>3 DEF DropKv
      <4> QED BY <2>4, <4>1, <4>2, <4>3
    <3> QED BY <2>2, <3>1, <3>2, <3>3, DispatchGoesOn
  <2> QED BY <2>1, <2>3, <2>4
<1> QED BY <1>2, <1>3, <1>4, <1>5, <1>6, <1>7 DEF Next

(* For every number of requests, however calls, streams, timeouts and late   *)
(* threads interleave: the host believes an identity it handed to a backend  *)
(* exactly while that request is served.                                     *)
THEOREM IdentityDies == Spec => []IdentityDiesWithDispatch
<1>1. Init => HostType /\ Dispatches
  BY DEF Init, HostInit, HostType, Dispatches
<1>2. HostType /\ Dispatches => IdentityDiesWithDispatch
  BY IdentityAssumption DEF IdentityDiesWithDispatch, Dispatches, VerifyStrip
<1> QED BY <1>1, <1>2, InitKept, NextKept, NextDispatches, PTL DEF Spec

-------------------------------------------------------------------------------
(* The registry.                                                            *)

(* What admission asks, whatever the class. *)
Cleared(e) ==
    /\ \A i \in 1 .. Len(regs) : regs[i].alias # e.alias
    /\ e.class \in OneName =>
           /\ Len(e.keys) = 1
           /\ \A i \in 1 .. Len(regs) : regs[i].class = e.class => regs[i].keys # e.keys
    /\ e.class = "cluster" => \A i \in 1 .. Len(regs) : regs[i].class # "cluster"

(* Every register_* asks for a free alias, and those of the keyed classes    *)
(* and of the cluster for a free name or place.                              *)
LEMMA AdmitsClears ==
    ASSUME NEW e \in PluginEntries(Classes), Admits(e) PROVE Cleared(e)
<1>1. e.class \in {"tool_gate", "transform", "identity", "catalog", "backend",
                   "content_store", "watch_strategy", "http_route", "audit_sink",
                   "log_sink", "telemetry_sink", "metrics_sink", "store", "cache",
                   "secret_provider", "config_provider", "policy_engine",
                   "credential_issuer", "approval_notifier", "cluster", "transport"}
  BY DEF PluginEntries, Classes, SlotsOf
<1>2. Named(e) => \A i \in 1 .. Len(regs) : regs[i].alias # e.alias
  BY DEF Named, AliasFree, Entries
<1>3. NameFree(e) =>
          /\ Len(e.keys) = 1
          /\ \A i \in 1 .. Len(regs) : regs[i].class = e.class => regs[i].keys # e.keys
  BY DEF NameFree, OfClass, Entries
<1>4. OfClass("cluster") = {} => \A i \in 1 .. Len(regs) : regs[i].class # "cluster"
  BY DEF OfClass, Entries
<1>5. CASE e.class \in {"tool_gate", "transform", "identity", "catalog"}
  <2>1. Named(e)
    BY <1>5 DEF Admits, RegisterToolGate, RegisterTransform, RegisterIdentity, RegisterCatalog
  <2> QED BY <1>2, <1>5, <2>1 DEF Cleared, OneName
<1>6. CASE e.class \in {"audit_sink", "log_sink", "telemetry_sink", "metrics_sink"}
  <2>1. Named(e)
    BY <1>6 DEF Admits, RegisterAuditSink, RegisterTelemetrySink, RegisterLogSink,
                RegisterMetricsSink
  <2> QED BY <1>2, <1>6, <2>1 DEF Cleared, OneName
<1>7. CASE e.class \in {"store", "cache", "secret_provider", "config_provider", "http_route"}
  <2>1. Named(e)
    BY <1>7 DEF Admits, RegisterStore, RegisterCache, RegisterSecretProvider,
                RegisterConfigProvider, RegisterHttpRoute
  <2> QED BY <1>2, <1>7, <2>1 DEF Cleared, OneName
<1>8. CASE e.class \in {"credential_issuer", "approval_notifier"}
  <2>1. Named(e)
    BY <1>8 DEF Admits, RegisterCredentialIssuer, RegisterApprovalNotifier
  <2> QED BY <1>2, <1>8, <2>1 DEF Cleared, OneName
<1>9. CASE e.class \in OneName
  <2>1. Named(e) /\ NameFree(e)
    BY <1>9 DEF Admits, OneName, RegisterBackend, RegisterContentStore, RegisterWatchStrategy,
                RegisterTransport, RegisterPolicyEngine
  <2> QED BY <1>2, <1>3, <1>9, <2>1 DEF Cleared, OneName
<1>10. CASE e.class = "cluster"
  <2>1. Named(e) /\ OfClass("cluster") = {}
    BY <1>10 DEF Admits, RegisterCluster
  <2> QED BY <1>2, <1>4, <1>10, <2>1 DEF Cleared, OneName
<1> QED BY <1>1, <1>5, <1>6, <1>7, <1>8, <1>9, <1>10 DEF OneName

(* An admitted entry keeps names apart, and bindings lead where they led. *)
LEMMA AdmitKeeps ==
    ASSUME RegsType, PositionsApart, BindingsLead, NEW e \in PluginEntries(Classes),
           Cleared(e), Admit(e), UNCHANGED bound
    PROVE  RegsType' /\ PositionsApart' /\ BindingsLead'
<1> DEFINE n == Len(regs)
<1>1. /\ n \in Nat /\ Len(regs') = n + 1 /\ regs'[n + 1] = e
      /\ \A i \in 1 .. n : regs'[i] = regs[i]
      /\ RegsType'
  BY DEF RegsType, Admit
<1>2. \A i \in 1 .. n + 1 : i \in 1 .. n \/ i = n + 1
  BY <1>1
<1> HIDE DEF n
<1>3. \A i, j \in 1 .. n + 1 : regs'[i].alias = regs'[j].alias => i = j
  BY <1>1, <1>2 DEF PositionsApart, Cleared, n
<1>4. \A i \in 1 .. n + 1 : regs'[i].class \in OneName => Len(regs'[i].keys) = 1
  BY <1>1, <1>2 DEF PositionsApart, Cleared, n
<1>5. \A i, j \in 1 .. n + 1 :
          regs'[i].class \in OneName /\ regs'[i].class = regs'[j].class
              /\ regs'[i].keys = regs'[j].keys => i = j
  BY <1>1, <1>2 DEF PositionsApart, Cleared, n
<1>6. \A i, j \in 1 .. n + 1 : regs'[i].class = "cluster" /\ regs'[j].class = "cluster" => i = j
  BY <1>1, <1>2 DEF PositionsApart, Cleared, n
<1>7. ASSUME NEW b \in bound PROVE \E i \in 1 .. n + 1 : Leads(b, regs'[i])
  <2>1. PICK i \in 1 .. n : Leads(b, regs[i])
    BY DEF BindingsLead, n
  <2>2. i \in 1 .. n + 1 /\ regs'[i] = regs[i]
    BY <1>1, <2>1
  <2> QED BY <2>1, <2>2
<1>8. PositionsApart'
  BY <1>1, <1>3, <1>4, <1>5, <1>6 DEF PositionsApart
<1>9. BindingsLead'
  BY <1>1, <1>7 DEF BindingsLead
<1> QED BY <1>1, <1>8, <1>9

(* An operator's state change moves nothing but the state. *)
LEMMA SetStateKeeps ==
    ASSUME RegsType, PositionsApart, BindingsLead, NEW id, NEW from,
           NEW to \in {"Active", "Degraded", "Disabled"}, SetState(id, from, to)
    PROVE  RegsType' /\ PositionsApart' /\ BindingsLead'
<1>1. PICK i \in 1 .. Len(regs) : regs' = [regs EXCEPT ![i] = [regs[i] EXCEPT !.state = to]]
  BY DEF SetState, Cell
<1> DEFINE e == [regs[i] EXCEPT !.state = to]
<1>2. regs[i] \in PluginEntries(Classes)
  BY DEF RegsType
<1>3. e \in PluginEntries(Classes)
  BY <1>2 DEF PluginEntries
<1>4. /\ e.class = regs[i].class /\ e.alias = regs[i].alias /\ e.id = regs[i].id
      /\ e.keys = regs[i].keys /\ e.anyKey = regs[i].anyKey
  BY <1>2 DEF PluginEntries
<1> HIDE DEF e
<1>5. /\ RegsType' /\ Len(regs') = Len(regs)
      /\ \A j \in 1 .. Len(regs) : regs'[j] = IF j = i THEN e ELSE regs[j]
  BY <1>1, <1>3 DEF RegsType, e
<1>6. \A j \in 1 .. Len(regs) :
          /\ regs'[j].class = regs[j].class /\ regs'[j].alias = regs[j].alias
          /\ regs'[j].id = regs[j].id /\ regs'[j].keys = regs[j].keys
          /\ regs'[j].anyKey = regs[j].anyKey
  BY <1>4, <1>5
<1>7. PositionsApart'
  BY <1>5, <1>6 DEF PositionsApart
<1>8. ASSUME NEW b, NEW j \in 1 .. Len(regs), Leads(b, regs[j]) PROVE Leads(b, regs'[j])
  BY <1>6, <1>8 DEF Leads, Supports, KeySet
<1>9. UNCHANGED bound
  BY DEF SetState
<1>10. BindingsLead'
  BY <1>5, <1>8, <1>9 DEF BindingsLead
<1> QED BY <1>5, <1>7, <1>10

(* A set of naturals has a least element. *)
LEMMA LeastNatural ==
    ASSUME NEW S, S \subseteq Nat, S # {} PROVE \E i \in S : \A j \in S : i <= j
<1>1. PICK i \in S : \A j \in S : <<j, i>> \notin OpToRel(<, Nat)
  BY NatLessThanWellFounded, WFMin, Zenon
<1>2. \A j \in S : ~(j < i)
  BY <1>1, Zenon DEF OpToRel
<1> QED BY <1>2

(* The entry an id leads to is one of the registered. *)
LEMMA FirstByIdFound ==
    ASSUME RegsType, NEW class, NEW id, FirstById(class, id) # {}
    PROVE  \E i \in 1 .. Len(regs) :
               /\ FirstById(class, id) = {regs[i]}
               /\ regs[i].class = class /\ regs[i].id = id
<1> DEFINE at == {i \in 1 .. Len(regs) : regs[i].class = class /\ regs[i].id = id}
           first == CHOOSE i \in at : \A j \in at : i <= j
<1>1. at # {} /\ FirstById(class, id) = {regs[first]}
  BY DEF FirstById
<1>2. at \subseteq Nat
  BY DEF RegsType
<1>4. \E i \in at : \A j \in at : i <= j
  <2> HIDE DEF at
  <2> QED BY <1>1, <1>2, LeastNatural
<1>5. first \in at
  BY <1>4
<1> QED BY <1>1, <1>5

(* What may be bound is one binding, and leads to an entry that may hold it. *)
LEMMA BindingLeads ==
    ASSUME RegsType, NEW class, NEW key, NEW id, CanBind(class, key, id)
    PROVE  \E b : /\ BindingOf(class, key, id) = {b} /\ b.table = class /\ b.key = key
                  /\ \E i \in 1 .. Len(regs) : Leads(b, regs[i])
<1>1. PICK i \in 1 .. Len(regs) : /\ FirstById(class, id) = {regs[i]}
                                  /\ regs[i].class = class /\ regs[i].id = id
  <2>1. FirstById(class, id) # {}
    BY DEF CanBind
  <2> QED BY <2>1, FirstByIdFound
<1>2. Supports(regs[i], key) /\ MayClaim(class, key, id)
  BY <1>1 DEF CanBind
<1> DEFINE b == [table |-> class, key |-> key, alias |-> regs[i].alias]
<1>3. BindingOf(class, key, id) = {b}
  BY <1>1 DEF BindingOf
<1>4. b.table = class /\ b.key = key /\ b.alias = regs[i].alias
  OBVIOUS
<1> HIDE DEF b
<1>5. Leads(b, regs[i])
  BY <1>1, <1>2, <1>4 DEF Leads, MayClaim
<1> QED BY <1>3, <1>4, <1>5

(* A second binding of a key takes the place of the first. *)
LEMMA ReboundLeads ==
    ASSUME RegsType, BindingsLead, NEW class, NEW key, NEW id, CanBind(class, key, id),
           bound' = Rebound(class, key, id), UNCHANGED regs
    PROVE  BindingsLead'
<1>1. PICK n : /\ BindingOf(class, key, id) = {n} /\ n.table = class /\ n.key = key
               /\ \E i \in 1 .. Len(regs) : Leads(n, regs[i])
  BY BindingLeads
<1>2. \A b \in bound' : b = n \/ (b \in bound /\ ~(b.table = class /\ b.key = key))
  BY <1>1 DEF Rebound
<1>3. ASSUME NEW b \in bound'
      PROVE  /\ \A d \in bound' : d.table = b.table /\ d.key = b.key => d = b
             /\ \E i \in 1 .. Len(regs) : Leads(b, regs[i])
  BY <1>1, <1>2 DEF BindingsLead
<1> QED BY <1>3 DEF BindingsLead

(* Auto-binding binds each scheme that is not bound to the one provider that *)
(* claims it.                                                                *)
LEMMA AutoBoundLeads ==
    ASSUME RegsType, BindingsLead, NEW class, bound' = AutoBound(class), UNCHANGED regs
    PROVE  BindingsLead'
<1>1. CASE ClaimConflict(class)
  BY <1>1 DEF AutoBound, BindingsLead
<1>2. CASE ~ClaimConflict(class)
  <2> DEFINE c == Claims(class)
             stops == {i \in 1 .. Len(c) : ~IsBound(class, c[i].key)
                                           /\ ~CanBind(class, c[i].key, c[i].id)}
             at == {i \in 1 .. Len(c) : (\A s \in stops : i < s) /\ ~IsBound(class, c[i].key)}
  <2>1. Bindable(class) = {c[i] : i \in at}
    BY DEF Bindable
  <2>2. ASSUME NEW i \in at
        PROVE  CanBind(class, c[i].key, c[i].id) /\ ~IsBound(class, c[i].key)
    <3>1. i \in Int /\ ~(i < i)
      OBVIOUS
    <3> QED BY <3>1
  <2>3. ASSUME NEW i \in at, NEW j \in at, c[i].key = c[j].key PROVE i = j
    BY <1>2, <2>3 DEF ClaimConflict
  <2> HIDE DEF c, at
  <2>4. ASSUME NEW b \in bound', b \notin bound
        PROVE  \E i \in at : b \in BindingOf(class, c[i].key, c[i].id)
    BY <1>2, <2>1, <2>4 DEF AutoBound
  <2>5. ASSUME NEW i \in at
        PROVE  \E b : /\ BindingOf(class, c[i].key, c[i].id) = {b}
                      /\ b.table = class /\ b.key = c[i].key
                      /\ \E j \in 1 .. Len(regs) : Leads(b, regs[j])
    BY <2>2, BindingLeads
  <2>6. ASSUME NEW b \in bound', b \notin bound
        PROVE  /\ b.table = class /\ ~IsBound(class, b.key)
               /\ \E j \in 1 .. Len(regs) : Leads(b, regs[j])
               /\ \A d \in bound' : d \notin bound /\ d.key = b.key => d = b
    <3>1. PICK i \in at : b \in BindingOf(class, c[i].key, c[i].id)
      BY <2>4, <2>6
    <3>2. /\ BindingOf(class, c[i].key, c[i].id) = {b} /\ b.table = class /\ b.key = c[i].key
          /\ \E j \in 1 .. Len(regs) : Leads(b, regs[j])
      BY <2>5, <3>1
    <3>3. ASSUME NEW d \in bound', d \notin bound, d.key = b.key PROVE d = b
      <4>1. PICK j \in at : d \in BindingOf(class, c[j].key, c[j].id)
        BY <2>4, <3>3
      <4>2. d.key = c[j].key
        BY <2>5, <4>1
      <4>3. i = j
        BY <2>3, <3>2, <3>3, <4>2
      <4> QED BY <3>2, <4>1, <4>3
    <3> QED BY <2>2, <3>2, <3>3
  <2>7. ASSUME NEW b \in bound, NEW d \in bound', d \notin bound,
               d.table = b.table, d.key = b.key
        PROVE  FALSE
    BY <2>6, <2>7 DEF IsBound
  <2>8. ASSUME NEW b \in bound'
        PROVE  /\ \A d \in bound' : d.table = b.table /\ d.key = b.key => d = b
               /\ \E i \in 1 .. Len(regs) : Leads(b, regs[i])
    <3>1. CASE b \in bound
      <4>1. \A d \in bound : d.table = b.table /\ d.key = b.key => d = b
        BY <3>1 DEF BindingsLead
      <4>2. \E i \in 1 .. Len(regs) : Leads(b, regs[i])
        BY <3>1 DEF BindingsLead
      <4> QED BY <2>7, <3>1, <4>1, <4>2
    <3>2. CASE b \notin bound
      BY <2>6, <2>7, <3>2
    <3> QED BY <3>1, <3>2
  <2> QED BY <2>8 DEF BindingsLead
<1> QED BY <1>1, <1>2

(* The registry's invariant is kept by boot, by the loaded plugin's entry,   *)
(* by operators and by the end.                                              *)
LEMMA NextRegistry ==
    DepType /\ RegsType /\ PositionsApart /\ BindingsLead /\ [Next]_vars
        => RegsType' /\ PositionsApart' /\ BindingsLead'
<1> SUFFICES ASSUME DepType, RegsType, PositionsApart, BindingsLead, [Next]_vars
             PROVE  RegsType' /\ PositionsApart' /\ BindingsLead'
  OBVIOUS
<1>1. ASSUME UNCHANGED <<regs, bound>> PROVE RegsType' /\ PositionsApart' /\ BindingsLead'
  BY <1>1 DEF RegsType, PositionsApart, BindingsLead
<1>2. ASSUME NEW e \in PluginEntries(Classes), UNCHANGED bound,
             \/ Admits(e) /\ Admit(e)
             \/ UNCHANGED regs
      PROVE  RegsType' /\ PositionsApart' /\ BindingsLead'
  BY <1>1, <1>2, AdmitsClears, AdmitKeeps
<1>3. ASSUME UNCHANGED regs, BindingsLead' PROVE RegsType' /\ PositionsApart' /\ BindingsLead'
  BY <1>3 DEF RegsType, PositionsApart
<1>4. CASE Boot
  <2>1. PICK cmd \in todo : \/ RegisterPlugin(cmd)
                            \/ RegisterFirstParty(cmd)
                            \/ BindKey(cmd)
                            \/ AutoBind(cmd)
                            \/ LoadNative(cmd)
    BY <1>4 DEF Boot
  <2>2. cmd.do \in {"register", "firstparty"} => cmd.entry \in PluginEntries(Classes)
    BY DeploymentAssumption DEF DepType
  <2>3. CASE RegisterPlugin(cmd)
    BY <1>2, <2>2, <2>3 DEF RegisterPlugin
  <2>4. CASE RegisterFirstParty(cmd)
    BY <1>2, <2>2, <2>4 DEF RegisterFirstParty, RegistrarAdmits
  <2>5. CASE BindKey(cmd)
    <3>1. UNCHANGED regs
      BY <2>5 DEF BindKey
    <3>2. CASE CanBind(cmd.class, cmd.key, cmd.id)
      <4>1. bound' = Rebound(cmd.class, cmd.key, cmd.id)
        BY <2>5, <3>2 DEF BindKey, Bind, BindStoreRole, BindCacheNamespace, BindSecretScheme,
                          BindConfigScheme
      <4> QED BY <1>3, <3>1, <3>2, <4>1, ReboundLeads
    <3>3. CASE ~CanBind(cmd.class, cmd.key, cmd.id)
      BY <1>1, <2>5, <3>1, <3>3 DEF BindKey
    <3> QED BY <3>2, <3>3
  <2>6. CASE AutoBind(cmd)
    <3>1. UNCHANGED regs /\ \E class : bound' = AutoBound(class)
      BY <2>6 DEF AutoBind, AutoBindSecret, AutoBindConfig
    <3> QED BY <1>3, <3>1, AutoBoundLeads
  <2>7. CASE LoadNative(cmd)
    BY <1>1, <2>7 DEF LoadNative, registryVars
  <2> QED BY <2>1, <2>3, <2>4, <2>5, <2>6, <2>7
<1>5. CASE EnterRegistry
  <2>1. dep.native \in PluginEntries(Classes)
    BY DeploymentAssumption DEF DepType
  <2> QED BY <1>2, <1>5, <2>1 DEF EnterRegistry
<1>6. CASE Toggle
  BY <1>6, SetStateKeeps DEF Toggle
<1>7. CASE DropRegistry
  <2>1. regs' = <<>> /\ bound' = {} /\ Len(<<>>) = 0
    BY <1>7 DEF DropRegistry
  <2>2. \A i \in 1 .. Len(regs') : FALSE
    BY <2>1
  <2> QED BY <2>1, <2>2 DEF RegsType, PositionsApart, BindingsLead
<1>8. CASE LoadStep \/ ReplaceArtifact \/ NativeReplies \/ AskHost \/ HostAnswers \/ UseHandle
           \/ UNCHANGED vars
  BY <1>1, <1>8 DEF LoadStep, ReplaceArtifact, NativeReplies, AskHost, HostAnswers, UseHandle,
                    registryVars, vars
<1>9. CASE Shutdown \/ DrainNext \/ DrainReturns \/ DrainTimesOut
  BY <1>1, <1>9 DEF Shutdown, ShutdownAll, DrainNext, DrainOne, DrainReturns, ShutdownReturns,
                    DrainTimesOut, ShutdownTimesOut
<1>10. ASSUME NEW c \in Callers,
              BeginCall(c) \/ CallTimesOut(c) \/ LeaveCall(c) \/ EndHandle(c)
       PROVE  RegsType' /\ PositionsApart' /\ BindingsLead'
  BY <1>1, <1>10 DEF BeginCall, CallTimesOut, LeaveCall, EndHandle, registryVars
<1> QED BY <1>4, <1>5, <1>6, <1>7, <1>8, <1>9, <1>10 DEF Next

(* By position and by entry come to the same. *)
LEMMA PositionsSuffice ==
    ASSUME RegsType, PositionsApart, BindingsLead PROVE RegistryConsistent
<1>1. ASSUME NEW class \in OneName, NEW i \in 1 .. Len(regs), NEW j \in 1 .. Len(regs),
             regs[i].class = class, regs[j].class = class, KeySet(regs[i]) = KeySet(regs[j])
      PROVE  i = j
  <2>1. Len(regs[i].keys) = 1 /\ Len(regs[j].keys) = 1
    BY <1>1 DEF PositionsApart
  <2>2. regs[i] \in PluginEntries(Classes) /\ regs[j] \in PluginEntries(Classes)
    BY DEF RegsType
  <2>3. regs[i].keys \in Seq(STRING) /\ regs[j].keys \in Seq(STRING)
    BY <2>2 DEF PluginEntries
  <2>4. KeySet(regs[i]) = {regs[i].keys[1]} /\ KeySet(regs[j]) = {regs[j].keys[1]}
    BY <2>1 DEF KeySet
  <2>5. regs[i].keys[1] = regs[j].keys[1]
    <3> DEFINE x == regs[i].keys[1]
               y == regs[j].keys[1]
    <3>1. {x} = {y}
      BY <1>1, <2>4, Zenon
    <3> HIDE DEF x, y
    <3>2. x = y
      BY <3>1
    <3> QED BY <3>2 DEF x, y
  <2>6. regs[i].keys = regs[j].keys
    BY <2>1, <2>3, <2>5
  <2> QED BY <1>1, <2>6 DEF PositionsApart
<1>2. \A class \in OneName : OneEach(class, KeySet)
  BY <1>1 DEF OneEach
<1>3. Cardinality(OfClass("cluster")) <= 1
  <2>1. CASE OfClass("cluster") = {}
    BY <2>1, FS_EmptySet
  <2>2. CASE OfClass("cluster") # {}
    <3>1. PICK e : e \in OfClass("cluster")
      BY <2>2
    <3>2. OfClass("cluster") = {e}
      BY <3>1 DEF OfClass, Entries, PositionsApart
    <3> QED BY <3>2, FS_Singleton
  <2> QED BY <2>1, <2>2
<1>4. \A b \in bound :
          /\ \A d \in bound : d.table = b.table /\ d.key = b.key => d = b
          /\ \E e \in OfClass(b.table) :
                 /\ e.alias = b.alias /\ Supports(e, b.key)
                 /\ b.table \in Schemed /\ b.key \in Reserved => e.id \in Builtin
  BY DEF BindingsLead, Leads, OfClass, Entries
<1> QED BY <1>2, <1>3, <1>4 DEF RegistryConsistent, PositionsApart, OneName

(* For every set of plugins and boot calls, in every order and with every    *)
(* failure: the registry's names stay apart and its bindings lead to plugins *)
(* that may hold them.                                                       *)
THEOREM RegistryStaysConsistent == Spec => []RegistryConsistent
<1>1. Init => DepType /\ RegsType /\ PositionsApart /\ BindingsLead
  <2> SUFFICES ASSUME Init PROVE RegsType /\ PositionsApart /\ BindingsLead
    BY InitShape
  <2>1. regs = <<>> /\ bound = {} /\ \A i \in 1 .. Len(regs) : FALSE
    BY DEF Init
  <2> QED BY <2>1 DEF RegsType, PositionsApart, BindingsLead
<1> QED BY <1>1, NextDep, NextRegistry, PositionsSuffice, PTL DEF Spec
===============================================================================
