------------------------------- MODULE Registry -------------------------------
(***************************************************************************)
(* What the registry admits, binds, hands out and drains (registry.rs),    *)
(* and the first-party registrar in front of it (firstparty.rs).           *)
(*                                                                         *)
(* An entry is one plugin under one alias:                                 *)
(*   class, id, alias                                                      *)
(*   keys      its kind, name, entity, roles, namespaces or schemes, in    *)
(*             the order the plugin lists them                             *)
(*   provides  provides_schemes of its manifest, {} when not declared      *)
(*   valid     its manifest has an id, a version and a 1.x protocol        *)
(*   native    it is the adapter of a native plugin                        *)
(*   state     its AtomicPluginState                                       *)
(***************************************************************************)
EXTENDS Integers, FiniteSets, SequencesExt

CONSTANTS
    Reserved,   \* RESERVED_SCHEMES (uri_routing.rs)
    Builtin     \* ids under dev.mcpg.builtin.

VARIABLES
    regs,       \* entries in registration order
    bound,      \* bindings [table, key, alias] of a role, namespace or scheme
    drain       \* shutdown_all: where it is

registryVars == <<regs, bound, drain>>

(* The Loaded*Plugin structs and the manifest, as far as anything asks. *)
PluginEntries(classes) ==
    [class : classes, id : STRING, alias : STRING, keys : Seq(STRING),
     provides : SUBSET STRING, valid : BOOLEAN, native : BOOLEAN,
     state : {"Active", "Degraded", "Disabled"}, anyKey : BOOLEAN,
     routes : SUBSET {"absolute", "relative"}, override : BOOLEAN,
     declaresServe : BOOLEAN, schema : BOOLEAN,
     requires : SUBSET STRING, granted : SUBSET STRING]

NotDraining == [pc |-> "no", at |-> 1, late |-> {}]

-------------------------------------------------------------------------------
(* Admission.  Every class asks for a valid manifest and a free alias; the   *)
(* rest is the class's own.                                                  *)

Entries == {regs[i] : i \in 1..Len(regs)}
OfClass(class) == {e \in Entries : e.class = class}
KeySet(e) == {e.keys[i] : i \in 1..Len(e.keys)}

(* validate_manifest. *)
ManifestValid(e) == e.valid

(* check_duplicate_alias: over every class. *)
AliasFree(e) == \A r \in Entries : r.alias # e.alias

(* What every register_* asks first. *)
Named(e) == ManifestValid(e) /\ AliasFree(e)

IdFree(e)     == \A r \in OfClass(e.class) : r.id # e.id
Declares(e)   == e.keys # <<>>
(* A kind or name: not empty, and not taken in its class. *)
NameFree(e)   == /\ Len(e.keys) = 1 /\ e.keys[1] # ""
                 /\ \A r \in OfClass(e.class) : r.keys # e.keys

(* cross_check_provides_schemes. *)
SchemesAgree(e) == e.provides \in {{}, KeySet(e)}

RegisterToolGate(e)         == Named(e)
RegisterTransform(e)        == Named(e)
RegisterIdentity(e)         == Named(e)
RegisterCatalog(e)          == Named(e)
RegisterAuditSink(e)        == Named(e)
RegisterTelemetrySink(e)    == Named(e)
RegisterLogSink(e)          == Named(e)
RegisterMetricsSink(e)      == Named(e)
RegisterBackend(e)          == Named(e) /\ NameFree(e)
RegisterContentStore(e)     == Named(e) /\ NameFree(e)
RegisterWatchStrategy(e)    == Named(e) /\ NameFree(e)
RegisterStore(e)            == Named(e) /\ Declares(e)
RegisterCache(e)            == Named(e) /\ (Declares(e) \/ e.anyKey)
RegisterSecretProvider(e)   == Named(e) /\ IdFree(e) /\ Declares(e) /\ SchemesAgree(e)
RegisterConfigProvider(e)   == Named(e) /\ Declares(e) /\ SchemesAgree(e)
RegisterTransport(e)        == Named(e) /\ IdFree(e) /\ NameFree(e)
RegisterPolicyEngine(e)     == Named(e) /\ IdFree(e) /\ NameFree(e)
RegisterCredentialIssuer(e) == Named(e) /\ IdFree(e)
RegisterApprovalNotifier(e) == Named(e) /\ IdFree(e)
RegisterCluster(e)          == Named(e) /\ OfClass("cluster") = {}

(* An http_route entity: its routes, and the guardrails of override mode.    *)
RegisterHttpRoute(e) ==
    /\ Named(e)
    /\ e.keys[1] # ""
    /\ \A r \in OfClass("http_route") : r.id # e.id \/ r.keys # e.keys
    /\ e.routes # {}
    /\ e.override => /\ e.declaresServe
                     /\ e.routes \subseteq {"absolute"}

Admits(e) ==
    CASE e.class = "tool_gate"         -> RegisterToolGate(e)
      [] e.class = "transform"         -> RegisterTransform(e)
      [] e.class = "identity"          -> RegisterIdentity(e)
      [] e.class = "catalog"           -> RegisterCatalog(e)
      [] e.class = "audit_sink"        -> RegisterAuditSink(e)
      [] e.class = "telemetry_sink"    -> RegisterTelemetrySink(e)
      [] e.class = "log_sink"          -> RegisterLogSink(e)
      [] e.class = "metrics_sink"      -> RegisterMetricsSink(e)
      [] e.class = "backend"           -> RegisterBackend(e)
      [] e.class = "content_store"     -> RegisterContentStore(e)
      [] e.class = "watch_strategy"    -> RegisterWatchStrategy(e)
      [] e.class = "http_route"        -> RegisterHttpRoute(e)
      [] e.class = "store"             -> RegisterStore(e)
      [] e.class = "cache"             -> RegisterCache(e)
      [] e.class = "secret_provider"   -> RegisterSecretProvider(e)
      [] e.class = "config_provider"   -> RegisterConfigProvider(e)
      [] e.class = "transport"         -> RegisterTransport(e)
      [] e.class = "policy_engine"     -> RegisterPolicyEngine(e)
      [] e.class = "credential_issuer" -> RegisterCredentialIssuer(e)
      [] e.class = "approval_notifier" -> RegisterApprovalNotifier(e)
      [] e.class = "cluster"           -> RegisterCluster(e)

Admit(e) == regs' = Append(regs, e)

(* FirstPartyRegistrar: schema and capability grants are checked before the  *)
(* plugin is built; the descriptor is compared with the manifest after it    *)
(* has been registered, and a mismatch does not take it out again.           *)
GrantsSuffice(e) == e.requires \subseteq e.granted

RegistrarAdmits(e) == e.schema /\ GrantsSuffice(e) /\ Admits(e)

-------------------------------------------------------------------------------
(* Bindings of roles, namespaces and schemes.                               *)

Serves(e) == e.state \in {"Active", "Degraded"}

(* The first entry of the class with this id; there may be several. *)
FirstById(class, id) ==
    LET at == {i \in 1..Len(regs) : regs[i].class = class /\ regs[i].id = id}
    IN  IF at = {} THEN {} ELSE {regs[CHOOSE i \in at : \A j \in at : i <= j]}

Schemed == {"secret_provider", "config_provider"}

(* reject_reserved_scheme. *)
MayClaim(class, key, id) == class \in Schemed /\ key \in Reserved => id \in Builtin

Supports(e, key) == key \in KeySet(e) \/ (e.class = "cache" /\ e.anyKey)

CanBind(class, key, id) ==
    /\ MayClaim(class, key, id)
    /\ \E e \in FirstById(class, id) : Serves(e) /\ Supports(e, key)

(* Mutant: the instance bound is the last one with the id, the one checked   *)
(* the first.                                                                *)
BindingOfLast(class, key, id) ==
    LET at == {i \in 1..Len(regs) : regs[i].class = class /\ regs[i].id = id}
    IN  {[table |-> class, key |-> key, alias |-> regs[i].alias] :
            i \in {i \in at : \A j \in at : j <= i}}

BindingOf(class, key, id) ==
    {[table |-> class, key |-> key, alias |-> e.alias] : e \in FirstById(class, id)}

(* A second binding of a key replaces the first. *)
Rebound(class, key, id) ==
    {b \in bound : ~(b.table = class /\ b.key = key)} \cup BindingOf(class, key, id)

BindStoreRole(key, id)      == bound' = Rebound("store", key, id)
BindCacheNamespace(key, id) == bound' = Rebound("cache", key, id)
BindSecretScheme(key, id)   == bound' = Rebound("secret_provider", key, id)
BindConfigScheme(key, id)   == bound' = Rebound("config_provider", key, id)

Bind(class, key, id) ==
    \/ class = "store"           /\ BindStoreRole(key, id)
    \/ class = "cache"           /\ BindCacheNamespace(key, id)
    \/ class = "secret_provider" /\ BindSecretScheme(key, id)
    \/ class = "config_provider" /\ BindConfigScheme(key, id)

(* Every (scheme, id) a registered provider claims, in registration order.   *)
Claims(class) ==
    FlattenSeq([i \in 1..Len(regs) |->
        IF regs[i].class # class THEN <<>>
        ELSE [k \in 1..Len(regs[i].keys) |-> [key |-> regs[i].keys[k], id |-> regs[i].id]]])

ClaimConflict(class) ==
    \E i, j \in 1..Len(Claims(class)) :
        i # j /\ Claims(class)[i].key = Claims(class)[j].key

IsBound(class, key) == \E b \in bound : b.table = class /\ b.key = key

(* The claims auto-binding goes through before the first that cannot be      *)
(* bound; a scheme that is bound already is passed over.                     *)
Bindable(class) ==
    LET c == Claims(class)
        stops == {i \in 1..Len(c) : ~IsBound(class, c[i].key)
                                    /\ ~CanBind(class, c[i].key, c[i].id)}
    IN  {c[i] : i \in {i \in 1..Len(c) : (\A s \in stops : i < s)
                                         /\ ~IsBound(class, c[i].key)}}

(* auto_bind_secret_provider_schemes, auto_bind_config_provider_schemes: a   *)
(* conflict binds nothing; a bind that fails leaves those before it in place.*)
AutoBound(class) ==
    IF ClaimConflict(class) THEN bound
    ELSE bound \cup UNION {BindingOf(class, c.key, c.id) : c \in Bindable(class)}

AutoBindSecret == bound' = AutoBound("secret_provider")
AutoBindConfig == bound' = AutoBound("config_provider")

-------------------------------------------------------------------------------
(* Handing plugins out.                                                     *)

(* Chains, keyed plugins and sinks skip an entry that does not serve; three  *)
(* classes want it Active; bindings, names and ids are looked up whatever    *)
(* its state.                                                                *)
ByServing == {"tool_gate", "transform", "identity", "backend", "content_store",
              "watch_strategy", "http_route", "audit_sink", "telemetry_sink",
              "log_sink", "metrics_sink"}
ByActive  == {"catalog", "credential_issuer", "approval_notifier"}

HandedOut(e) ==
    /\ e.class \in ByServing => Serves(e)
    /\ e.class \in ByActive  => e.state = "Active"

(* find_state_cell: the class order it searches; content stores have none.   *)
CellOrder ==
    <<"tool_gate", "transform", "identity", "backend", "watch_strategy",
      "http_route", "audit_sink", "store", "cache", "telemetry_sink", "log_sink",
      "metrics_sink", "secret_provider", "config_provider", "transport",
      "policy_engine", "cluster", "catalog", "credential_issuer", "approval_notifier">>

Rank(order, class) == CHOOSE i \in 1..Len(order) : order[i] = class

Celled == {CellOrder[i] : i \in 1..Len(CellOrder)}

Cell(id) ==
    LET at == {i \in 1..Len(regs) : regs[i].id = id /\ regs[i].class \in Celled}
        Before(i, j) == \/ Rank(CellOrder, regs[i].class) < Rank(CellOrder, regs[j].class)
                        \/ regs[i].class = regs[j].class /\ i <= j
    IN  {i \in at : \A j \in at : Before(i, j)}

(* disable, enable, mark_degraded, mark_active: on the first cell of the id. *)
SetState(id, from, to) ==
    \E i \in Cell(id) :
        /\ regs[i].state \in from
        /\ regs' = [regs EXCEPT ![i].state = to]
        /\ UNCHANGED <<bound, drain>>

-------------------------------------------------------------------------------
(* shutdown_all: class after class, plugin after plugin.                    *)

DrainOrder ==
    <<"tool_gate", "backend", "watch_strategy", "approval_notifier", "transform",
      "identity", "catalog", "http_route", "audit_sink", "store", "cache",
      "telemetry_sink", "log_sink", "metrics_sink", "secret_provider",
      "config_provider", "transport", "policy_engine", "credential_issuer", "cluster">>

DrainList ==
    FlattenSeq([k \in 1..Len(DrainOrder) |->
        SelectSeq(regs, LAMBDA e : e.class = DrainOrder[k])])

ShutdownAll ==
    /\ drain.pc = "no"
    /\ drain' = [drain EXCEPT !.pc = "next"]
    /\ UNCHANGED <<regs, bound>>

(* drain_one calls the plugin's shutdown. *)
DrainOne ==
    /\ drain.pc = "next"
    /\ drain' = IF drain.at <= Len(DrainList) THEN [drain EXCEPT !.pc = "in"]
                ELSE [drain EXCEPT !.pc = "over"]
    /\ UNCHANGED <<regs, bound>>

Drained(late) ==
    drain' = [drain EXCEPT !.pc = "next", !.at = @ + 1, !.late = @ \cup late]

ShutdownReturns ==
    /\ drain.pc = "in"
    /\ Drained({})
    /\ UNCHANGED <<regs, bound>>

(* Mutant: no timeout around a plugin's shutdown. *)
ShutdownTimesOutNever ==
    /\ FALSE
    /\ UNCHANGED registryVars

(* The timer of drain_one.  It is only polled between polls of the plugin's  *)
(* future, and the adapter of a native plugin runs the shutdown slot inside  *)
(* one poll.                                                                 *)
ShutdownTimesOut ==
    /\ drain.pc = "in"
    /\ ~DrainList[drain.at].native
    /\ Drained({DrainList[drain.at].alias})
    /\ UNCHANGED <<regs, bound>>
===============================================================================
