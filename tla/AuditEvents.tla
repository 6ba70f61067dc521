------------------------------ MODULE AuditEvents ------------------------------
(***************************************************************************)
(* The audit records the host can write (audit_events.rs), one record per  *)
(* constructor and outcome.  Of a record the model keeps what an auditor   *)
(* selects by: its action (the dotted name as a sequence of segments), its *)
(* outcome, whose identity it carries and whether it names the request it  *)
(* belongs to.  Wording, sizes and timestamps are left out.                *)
(***************************************************************************)
EXTENDS Integers, Sequences, FiniteSetsExt

(* actor: "caller" is the identity of the request or session, "system" the  *)
(* gateway itself (system_identity, which has no attributes).               *)
Event(action, outcome, actor, tied) ==
    [action |-> action, outcome |-> outcome, actor |-> actor, tied |-> tied]

Mcpg(name) == <<"mcpg">> \o name

OfCaller(name, outcome)  == Event(Mcpg(name), outcome, "caller", TRUE)
OfSession(name, outcome) == Event(Mcpg(name), outcome, "caller", FALSE)
OfSystem(name, outcome)  == Event(Mcpg(name), outcome, "system", FALSE)

-------------------------------------------------------------------------------
(* The verdicts of a tools/call.                                            *)

(* tool_gate_event: the short-circuit of one gate. *)
GateRefused(decision) ==
    CASE decision = "deny"      -> OfCaller(<<"tool", "call", "denied">>, "Denied")
      [] decision = "challenge" -> OfCaller(<<"tool", "call", "challenged">>, "Partial")

ToolCallAllowed   == OfCaller(<<"tool", "call", "allowed">>, "Success")
ToolCallCompleted == OfCaller(<<"tool", "call", "completed">>, "Success")

ToolCallUnknown      == OfCaller(<<"tool", "call", "unknown">>, "Failure")
ToolCallAccessDenied == OfCaller(<<"tool", "call", "access_denied">>, "Denied")

(* payment_outcome_event: written beside the gate's own record. *)
PaymentOutcome(success) ==
    IF success THEN OfCaller(<<"payment", "charged">>, "Success")
               ELSE OfCaller(<<"payment", "failed">>, "Denied")

(* transform_applied_event: hashes of both values, never the values. *)
TransformApplied == OfCaller(<<"transform", "applied">>, "Success")

BackendExecuted(success) ==
    IF success THEN OfCaller(<<"backend", "executed">>, "Success")
               ELSE OfCaller(<<"backend", "failed">>, "Failure")

-------------------------------------------------------------------------------
(* Resources, prompts, lists and completions.                               *)

ResourceRead ==
    {OfCaller(<<"resource", "read", "success">>, "Success"),
     OfCaller(<<"resource", "read", "denied">>, "Denied"),
     OfCaller(<<"resource", "read", "not_found">>, "Failure")}

PromptGet ==
    {OfCaller(<<"prompt", "get", "success">>, "Success"),
     OfCaller(<<"prompt", "get", "denied">>, "Denied")}

PromptGetNotFound == OfCaller(<<"prompt", "get", "not_found">>, "Failure")

ListCalls ==
    {OfCaller(<<kind, "list">>, "Success") :
         kind \in {"tool", "prompt", "resource", "resource_template"}}
        \cup {OfCaller(<<"apps", "offered">>, "Success")}

Subscriptions ==
    {OfCaller(<<"resource", what>>, "Success") : what \in {"subscribe", "unsubscribe"}}

CatalogAndWatch ==
    {OfCaller(<<"catalog", "filtered">>, "Success"),
     OfSystem(<<"watch", "fired">>, "Success")}

(* The outcome of an elicitation is the user's answer. *)
Elicitations ==
    {OfCaller(<<"elicitation", "requested">>, "Success")}
        \cup {OfCaller(<<"elicitation", "completed">>, o) :
                  o \in {"Success", "Denied", "Failure"}}

RootsAndCompletions ==
    {OfCaller(<<"roots", "requested">>, "Success"),
     OfCaller(<<"completion", "requested">>, "Success"),
     OfCaller(<<"operation", "cancelled">>, "Success")}

Pipelines ==
    {OfCaller(<<"pipeline", "started">>, "Success"),
     OfCaller(<<"pipeline", "completed">>, "Success"),
     OfCaller(<<"pipeline", "failed">>, "Failure")}

Sampling == OfCaller(<<"sampling", "created">>, "Success")

-------------------------------------------------------------------------------
(* Sessions and authentication: a failed authentication has no caller yet.  *)

Sessions ==
    {Event(Mcpg(<<"auth", "failed">>), "Failure", "system", TRUE),
     OfSession(<<"session", "opened">>, "Success"),
     OfSystem(<<"session", "terminated">>, "Success")}

SessionTraffic ==
    {OfCaller(<<"ping", "received">>, "Success"),
     OfSession(<<"session", "initialized_acked">>, "Success"),
     OfSession(<<"progress", "notified">>, "Success"),
     OfSystem(<<"list", "changed_broadcast">>, "Success"),
     OfCaller(<<"logging", "level_set">>, "Success")}

-------------------------------------------------------------------------------
(* Configuration, governance, credentials, approvals, routes, cluster.      *)

(* admin_event and lifecycle_event take action and outcome from the caller;  *)
(* an unauthenticated admin API acts as the gateway.                         *)
AdminEvent(what, outcome)     == {Event(Mcpg(<<"admin", what>>), outcome, a, FALSE) :
                                     a \in {"caller", "system"}}
LifecycleEvent(what, outcome) == OfSystem(<<"lifecycle", what>>, outcome)

Configuration ==
    {OfSystem(<<"config", what>>, "Success") :
         what \in {"loaded", "secrets_resolved", "feature_flags_active", "reloaded"}}
        \cup {OfSystem(<<"config", "reloaded">>, "Failure")}

(* These two are not under the "mcpg." prefix. *)
Quotas ==
    {Event(<<"governance", "quota", "exceeded">>, "Failure", "caller", TRUE),
     Event(<<"governance", "quota", "warn">>, "Success", "caller", TRUE)}

(* credential_resolution_failed_event names a request when there is one. *)
Credentials ==
    {OfSession(<<"credential", "issued">>, "Success"),
     OfSession(<<"credential", "failed">>, "Failure")}
        \cup {Event(Mcpg(<<"credential", "resolution_failed">>), "Failure", "caller", t) :
                  t \in BOOLEAN}

SecretResolved ==
    {OfSession(<<"secret", "resolved">>, "Success"),
     OfSession(<<"secret", "failed">>, "Failure")}

Approvals ==
    {OfCaller(<<"approval", "requested">>, "Success"),
     OfCaller(<<"approval", "granted">>, "Success"),
     OfCaller(<<"approval", "denied">>, "Denied"),
     OfCaller(<<"approval", "expired">>, "Failure")}

(* The status decides: 2xx and 3xx, then 4xx, then the rest.  A route that  *)
(* allows anonymous access is recorded as the gateway's.                    *)
HttpRouteDispatched ==
    {Event(Mcpg(<<"http_route", "dispatched">>), o, a, TRUE) :
         o \in {"Success", "Denied", "Failure"}, a \in {"caller", "system"}}

ClusterEvents ==
    {OfSystem(<<"cluster", what>>, "Success") :
         what \in {"member_joined", "member_left", "member_health_changed",
                   "member_event", "leader_changed"}}
        \cup {OfSystem(<<"cluster", "leader_acquire_failed">>, "Failure")}

-------------------------------------------------------------------------------
(* What other surfaces of the gateway write through the same fan-out.       *)
SurfaceEvents ==
    {ToolCallUnknown, ToolCallAccessDenied, PromptGetNotFound, Sampling}
        \cup {BackendExecuted(b) : b \in BOOLEAN}
        \cup ResourceRead \cup PromptGet \cup ListCalls \cup Subscriptions
        \cup CatalogAndWatch \cup Elicitations \cup RootsAndCompletions
        \cup Pipelines \cup Sessions \cup SessionTraffic \cup Configuration
        \cup Quotas \cup Credentials \cup SecretResolved \cup Approvals
        \cup HttpRouteDispatched \cup ClusterEvents
        \cup UNION {AdminEvent(what, o) : what \in {"plugin_disabled"},
                                          o \in {"Success", "Failure"}}
        \cup {LifecycleEvent(what, "Success") : what \in
                  {"gateway_started", "gateway_stopping", "plugin_loaded", "plugin_unloaded"}}

-------------------------------------------------------------------------------
(* with_digested_actor_attributes: an attribute that is on the list leaves  *)
(* as a keyed digest, or redacted when no key is set; an event without one  *)
(* is passed on as it is.                                                   *)
DigestedAttribute(attr, keySet) ==
    CASE attr # "plain" -> attr
      [] attr = "plain" /\ keySet  -> "digest"
      [] attr = "plain" /\ ~keySet -> "redacted"

-------------------------------------------------------------------------------
(* A pattern is the sequence of parts its stars separate.                   *)

Occurs(part, text, from) ==
    {i \in from..(Len(text) - Len(part)) :
        SubSeq(text, i + 1, i + Len(part)) = part}

(* glob_match: the first part is a prefix, each later one is taken at its    *)
(* first place in the rest, and the last one must end the rest.              *)
GlobMatch(parts, text) ==
    LET n == Len(parts)
        Rest[i \in 1..n] ==
            IF i = 1 THEN 0
            ELSE LET from == Rest[i - 1]
                     at   == IF from = -1 THEN {}
                             ELSE Occurs(parts[i - 1], text, from)
                                      \cap (IF i = 2 THEN {0} ELSE Nat)
                 IN  IF at = {} THEN -1 ELSE Min(at) + Len(parts[i - 1])
    IN  IF n = 1 THEN parts[1] = text
        ELSE /\ Rest[n] # -1
             /\ Len(text) - Len(parts[n]) \in Occurs(parts[n], text, Rest[n])

(* What a glob means: the parts can be laid out in the text, in order and    *)
(* disjoint, the first at its beginning and the last at its end.             *)
GlobMeans(parts, text) ==
    LET n == Len(parts) IN
    \E place \in [1..n -> 0..Len(text)] :
        /\ place[1] = 0
        /\ place[n] + Len(parts[n]) = Len(text)
        /\ \A i \in 1..n : place[i] \in Occurs(parts[i], text, 0)
        /\ \A i \in 1..(n - 1) : place[i] + Len(parts[i]) <= place[i + 1]

(* AuditSinkPolicy::accepts: a deny pattern wins, an empty allow list        *)
(* accepts every other action.                                               *)
AcceptsBy(allow, deny, action) ==
    /\ \A p \in deny : ~GlobMatch(p, action)
    /\ allow = {} \/ \E p \in allow : GlobMatch(p, action)
===============================================================================
