----------------------------- MODULE NativeSlots ------------------------------
(***************************************************************************)
(* The slots of the native plugin ABI, as the adapters of native_loader.rs *)
(* call them: one definition per adapter method.  A slot says              *)
(*   how      the call is made                                             *)
(*              "ferried"    spawn_blocking under a timeout                *)
(*              "inlinable"  ferried, or on the caller when the operator   *)
(*                           set inline_fast                               *)
(*              "sync"       call_sync_vtable_bounded                      *)
(*              "unbounded"  spawn_blocking and no timeout                 *)
(*              "direct"     on the caller                                 *)
(*   wire     what comes back: "typed", "json", "text", "unit" or "handle" *)
(*   on       the answer when the call is late or lost, or what came back  *)
(*            cannot be read: "refuse" is an error the caller sees,        *)
(*            "neutral" an ordinary-looking empty answer                   *)
(*   over     the answer to a reply above the payload cap; "ok" where the  *)
(*            adapter does not look                                        *)
(*   null     the answer to a null handle that carries no error            *)
(*   opens    what a good reply leaves behind in the plugin                *)
(*   via      the handle the call goes through, "none" for the adapter     *)
(***************************************************************************)
EXTENDS Integers, Sequences

Slot(how, wire, on) ==
    [how |-> how, wire |-> wire, on |-> on, over |-> "ok", null |-> on,
     opens |-> "none", via |-> "none"]

Json(on)           == Slot("ferried", "json", on)
Unit               == Slot("ferried", "unit", "neutral")
Tier1(on)          == Slot("inlinable", "typed", on)
Capped(slot, over) == [slot EXCEPT !.over = over]
Via(kind, slot)    == [slot EXCEPT !.via = kind]

Opening(how, on, kind) == [Slot(how, "handle", on) EXCEPT !.opens = kind]
OpensStream            == Opening("unbounded", "refuse", "stream")

(* What a plugin can answer through a slot: "bad" is its own refusal.  A     *)
(* panic in a thread of the host's pool is lost with the thread.             *)
Replies(slot) ==
    (CASE slot.wire = "typed"  -> {"good", "bad"}
       [] slot.wire = "json"   -> {"good", "bad", "empty", "garbled", "oversize"}
       [] slot.wire = "text"   -> {"good", "empty"}
       [] slot.wire = "unit"   -> {"good"}
       [] slot.wire = "handle" -> {"good", "bad", "null"})
    \cup (IF slot.how \in {"ferried", "sync", "unbounded"} THEN {"lost"} ELSE {})

(* Mutant: an empty reply is no error. *)
AnswerLenient(slot, reply) ==
    CASE reply \in {"good", "empty"} -> "ok"
      [] reply = "bad"      -> IF slot.wire = "handle" THEN slot.on ELSE "refuse"
      [] reply = "oversize" -> slot.over
      [] reply = "null"     -> slot.null
      [] OTHER              -> slot.on

(* What the caller is told when the plugin replies in time. *)
Answer(slot, reply) ==
    CASE reply = "good"     -> "ok"
      [] reply = "bad"      -> IF slot.wire = "handle" THEN slot.on ELSE "refuse"
      [] reply = "oversize" -> slot.over
      [] reply = "null"     -> slot.null
      [] OTHER              -> slot.on

-------------------------------------------------------------------------------
(* Gates, transforms, identity.                                             *)

GatePre         == Tier1("refuse")  \* Deny 504 or 500
GatePost        == Tier1("refuse")
TransformArgs   == Tier1("refuse")  \* TransformOutcome::Error
TransformResult == Tier1("refuse")
ResolveIdentity == Tier1("refuse")  \* IdentityResult::Invalid

(* Content stores: an enveloped slot fails loudly, a bare one yields the     *)
(* type's default.                                                           *)
CallEnveloped == Capped(Slot("sync", "json", "refuse"), "refuse")
CallBare      == Slot("sync", "json", "neutral")
ContentStoreOps == {CallEnveloped, CallBare}

(* Backends. *)
RegisterProfile     == Slot("sync", "json", "refuse")
BackendExecute      == Capped(Slot("inlinable", "json", "refuse"), "refuse")
ExecuteTransaction  == Capped(Slot("inlinable", "json", "refuse"), "refuse")
ExecuteStreaming    == OpensStream
InputSchema         == Capped(Slot("sync", "json", "neutral"), "neutral")
OutputSchema        == Capped(Slot("sync", "json", "neutral"), "neutral")
ListResources       == Capped(Slot("sync", "json", "neutral"), "refuse")
AuditMetadata       == Slot("sync", "json", "neutral")
ExpandCapabilities  == Capped(Slot("sync", "json", "neutral"), "refuse")
CompleteVariable    == Capped(Slot("inlinable", "json", "neutral"), "neutral")

(* Watches and HTTP routes.  `watch' installs a subscription under the data  *)
(* timeout, and its handle passes positions back; `handle' opens a response  *)
(* stream, or answers in full with a null handle; a stream whose head cannot *)
(* be read is cancelled at once.                                             *)
Watch              == Opening("sync", "refuse", "watch")
WatchAcknowledge   == Via("watch", Slot("direct", "unit", "neutral"))
HttpDispatch       == Capped(Json("refuse"), "refuse")  \* 500 or 504
HttpHandle         == [OpensStream EXCEPT !.null = "ok"]

(* Sinks. *)
AuditEmit        == Json("refuse")
AuditFlush       == Json("refuse")
LogEmit          == Slot("inlinable", "unit", "neutral")
LogFlush         == Json("refuse")
TelemetryEmit    == Unit
TelemetryFlush   == Json("refuse")
MetricsEmit      == Unit
MetricsFlush     == Json("refuse")
RenderExposition == Slot("ferried", "text", "neutral")

(* Stores and caches; all of the store's slots but `watch' go through        *)
(* call_json_vtable and fail loudly.                                         *)
CallJsonVtable == Json("refuse")
DecodeStore    == CallJsonVtable.on
StoreGet       == Json(DecodeStore)
StorePut       == Json(DecodeStore)
StoreDelete    == Json(DecodeStore)
StoreList      == Json(DecodeStore)
StoreSwap      == Json(DecodeStore)
StoreAppend    == Json(DecodeStore)
StoreWatch     == OpensStream
CacheGet       == Json("neutral")
CachePut       == Json("refuse")
CacheDelete    == Unit
CacheClear     == Json("refuse")
CacheIncr      == Json("refuse")

(* Secrets, configuration, policy, credentials, approvals, catalogs. *)
SecretGet        == Json("refuse")
SecretWatch      == OpensStream
ConfigSnapshot   == Json("refuse")
ConfigWatch      == OpensStream
PolicyEvaluate   == Json("refuse")  \* deny
PolicyVersion    == Json("neutral")
IssueCredential  == Json("refuse")
RevokeCredential == Json("refuse")
Notify           == Json("refuse")
FilterAndEnrich  == Json("neutral") \* no tool at all
Describe         == Json("neutral")
ListCatalog      == Json("neutral")

(* Cluster.  kv and pub_sub handles, and leases, share the instance. *)
ClusterPublish   == Json("refuse")
ClusterSubscribe == OpensStream
PubSubPublish    == Json("refuse")
PubSubSubscribe  == OpensStream
KvCallSlot       == Via("kv", Json("refuse"))
KvGet            == KvCallSlot
KvPut            == KvCallSlot
KvPutIfAbsent    == KvCallSlot
KvDelete         == KvCallSlot
KvListPage       == KvCallSlot
KvListPrefix     == KvCallSlot
KvExpire         == KvCallSlot
KvIncr           == KvCallSlot
KvIncrFloor      == KvCallSlot
ProbeKv          == Slot("sync", "json", "neutral")  \* a failed probe counts as supported
KeyValueStore    == [ProbeKv EXCEPT !.opens = "kv"]
NodeInfo         == Json("neutral")
ListPeers        == Json("neutral")
WatchPeers       == Opening("unbounded", "neutral", "stream")
AcquireLease     == Opening("unbounded", "refuse", "lease")
TryAcquireLease  == [AcquireLease EXCEPT !.null = "neutral"]  \* a peer holds it
LeaseRenew       == Via("lease", Slot("unbounded", "json", "refuse"))
LeaseRelease     == Via("lease", Slot("unbounded", "json", "refuse"))

(* Transports. *)
TransportStart == Opening("unbounded", "refuse", "listener")
ListenAddress  == Via("listener", Slot("unbounded", "text", "neutral"))
TransportClose == Via("listener", Slot("unbounded", "unit", "neutral"))

-------------------------------------------------------------------------------
(* Construction: what each adapter asks the fresh instance, in order, before *)
(* it takes it over.  An answer it cannot use frees the instance.            *)

MakeToolGate         == <<"manifest">>
MakeTransform        == <<"manifest">>
MakeIdentity         == <<"manifest">>
MakeContentStore     == <<"manifest", "kind">>
MakeBackend          == <<"manifest", "kind">>
MakeWatchStrategy    == <<"manifest", "kind", "event_source">>
MakeHttpRoute        == <<"manifest", "routes">>
MakeAuditSink        == <<"manifest">>
MakeLogSink          == <<"manifest">>
MakeTelemetrySink    == <<"manifest">>
MakeMetricsSink      == <<"manifest">>
MakeStore            == <<"manifest", "roles">>
MakeCache            == <<"manifest", "namespaces">>
MakeSecretProvider   == <<"manifest", "schemes">>
MakeConfigProvider   == <<"manifest", "schemes">>
MakePolicyEngine     == <<"manifest", "name">>
MakeCredentialIssuer == <<"manifest">>
MakeApprovalNotifier == <<"manifest">>
MakeCatalog          == <<"manifest">>
MakeCluster          == <<"manifest">>
MakeTransport        == <<"manifest", "name">>

AsksOf ==
    [tool_gate |-> MakeToolGate, transform |-> MakeTransform, identity |-> MakeIdentity,
     catalog |-> MakeCatalog, backend |-> MakeBackend, content_store |-> MakeContentStore,
     watch_strategy |-> MakeWatchStrategy, http_route |-> MakeHttpRoute,
     audit_sink |-> MakeAuditSink, log_sink |-> MakeLogSink,
     telemetry_sink |-> MakeTelemetrySink, metrics_sink |-> MakeMetricsSink,
     store |-> MakeStore, cache |-> MakeCache, secret_provider |-> MakeSecretProvider,
     config_provider |-> MakeConfigProvider, policy_engine |-> MakePolicyEngine,
     credential_issuer |-> MakeCredentialIssuer, approval_notifier |-> MakeApprovalNotifier,
     cluster |-> MakeCluster, transport |-> MakeTransport]

SlotsOf ==
    [tool_gate |-> {GatePre, GatePost},
     transform |-> {TransformArgs, TransformResult},
     identity  |-> {ResolveIdentity},
     catalog   |-> {FilterAndEnrich, Describe, ListCatalog},
     backend   |-> {RegisterProfile, BackendExecute, ExecuteTransaction, ExecuteStreaming,
                    InputSchema, OutputSchema, ListResources, AuditMetadata,
                    ExpandCapabilities, CompleteVariable},
     content_store  |-> ContentStoreOps,
     watch_strategy |-> {Watch, WatchAcknowledge},
     http_route     |-> {HttpDispatch, HttpHandle},
     audit_sink     |-> {AuditEmit, AuditFlush},
     log_sink       |-> {LogEmit, LogFlush},
     telemetry_sink |-> {TelemetryEmit, TelemetryFlush},
     metrics_sink   |-> {MetricsEmit, MetricsFlush, RenderExposition},
     store |-> {StoreGet, StorePut, StoreDelete, StoreList, StoreSwap, StoreAppend, StoreWatch},
     cache |-> {CacheGet, CachePut, CacheDelete, CacheClear, CacheIncr},
     secret_provider   |-> {SecretGet, SecretWatch},
     config_provider   |-> {ConfigSnapshot, ConfigWatch},
     policy_engine     |-> {PolicyEvaluate, PolicyVersion},
     credential_issuer |-> {IssueCredential, RevokeCredential},
     approval_notifier |-> {Notify},
     cluster |-> {ClusterPublish, ClusterSubscribe, PubSubPublish, PubSubSubscribe,
                  KvGet, KvPut, KvPutIfAbsent, KvDelete, KvListPage, KvListPrefix, KvExpire,
                  KvIncr, KvIncrFloor, KeyValueStore, NodeInfo, ListPeers, WatchPeers,
                  AcquireLease, TryAcquireLease, LeaseRenew, LeaseRelease},
     transport |-> {TransportStart, ListenAddress, TransportClose}]

Classes == DOMAIN SlotsOf
===============================================================================
