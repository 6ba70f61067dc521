------------------------------ MODULE AuditFanout ------------------------------
(***************************************************************************)
(* The audit fan-out of the registry (registry.rs, emit_audit_event and    *)
(* emit_audit_event_enforced).                                             *)
(*                                                                         *)
(* An emitter hands a record to every sink in registration order.  A       *)
(* gating sink is awaited and its answer counts; a non-gating one (a       *)
(* collector) gets the record in a task of its own, if a permit is free.   *)
(* The permits belong to the sink's AuditSinkPolicy: the sinks that one    *)
(* set_audit_sink_policy call finds under its name have clones of one      *)
(* policy and draw from one semaphore.  Under fail_closed the emitter      *)
(* looks at the sinks a second time, after the fan-out, and counts those   *)
(* that do not serve as failed.  Operators disable and enable sinks, and   *)
(* change the policy, meanwhile.                                           *)
(***************************************************************************)
EXTENDS AuditEvents, SequencesExt

CONSTANTS
    Emitters,       \* tasks that write audit records
    SinkOrder,      \* the audit sinks, in registration order
    Gating,         \* sinks whose AuditSinkPolicy.gating is set
    AllowActions,   \* AllowActions[s]: allow patterns of sink s
    DenyActions,    \* DenyActions[s]: deny patterns of sink s
    PolicyOf,       \* PolicyOf[s]: the AuditSinkPolicy value s has a clone of
    InFlight,       \* NON_GATING_IN_FLIGHT
    NodeId          \* TRUE when set_audit_node_id has set one, at boot

ASSUME SinkAssumption ==
    /\ SinkOrder \in Seq({SinkOrder[i] : i \in 1..Len(SinkOrder)})
    /\ \A i, j \in 1..Len(SinkOrder) : SinkOrder[i] = SinkOrder[j] => i = j
    /\ Gating \subseteq {SinkOrder[i] : i \in 1..Len(SinkOrder)}
ASSUME PolicyAssumption ==
    LET sinks == {SinkOrder[i] : i \in 1..Len(SinkOrder)} IN
    \A s, t \in sinks : PolicyOf[s] = PolicyOf[t] =>
        /\ s \in Gating <=> t \in Gating
        /\ AllowActions[s] = AllowActions[t] /\ DenyActions[s] = DenyActions[t]
ASSUME InFlightAssumption == InFlight \in Nat \ {0} /\ NodeId \in BOOLEAN

Sinks == {SinkOrder[i] : i \in 1..Len(SinkOrder)}
SinkPolicies == {PolicyOf[s] : s \in Sinks}
Policies == {"fail_open", "fail_closed"}

VARIABLES
    serving,    \* serving[p]: serves_traffic() of plugin p (sinks and others)
    policy,     \* audit_request_policy
    digestKey,  \* an audit_digest_key is set
    fan,        \* fan[e]: the emission emitter e is in the middle of
    kept,       \* kept[s]: records gating sink s has made durable
    tasks,      \* tasks[q]: records in the spawned tasks of the sinks of policy q
    permits     \* permits[q]: free permits of the policy's semaphore, in_flight

auditVars == <<policy, digestKey, fan, kept, tasks, permits>>

Idle == [pc |-> "idle"]

Accepts(s, ev) == AcceptsBy(AllowActions[s], DenyActions[s], ev.action)

-------------------------------------------------------------------------------
AuditInit ==
    /\ policy    \in Policies
    /\ digestKey \in BOOLEAN
    /\ fan       = [e \in Emitters |-> Idle]
    /\ kept      = [s \in Gating |-> {}]
    /\ tasks     = [q \in SinkPolicies |-> <<>>]
    /\ permits   = [q \in SinkPolicies |-> InFlight]

(* Mutant: the stamped copy is made from the event, not from its digested form. *)
PreparedFromOriginal(ev, of, attr) ==
    [ev |-> ev, of |-> of, node |-> NodeId,
     attr |-> IF NodeId THEN attr ELSE DigestedAttribute(attr, digestKey)]

(* The record as the sinks get it: actor attributes digested under the key   *)
(* that is set now, then stamped with the node id when one is set and the    *)
(* event has none.                                                           *)
Prepared(ev, of, attr) ==
    LET digested == [ev |-> ev, of |-> of, node |-> FALSE,
                     attr |-> DigestedAttribute(attr, digestKey)]
    IN  IF NodeId THEN [digested EXCEPT !.node = TRUE] ELSE digested

(* Start emitting: the policy is read here, before the fan-out.              *)
BeginEmit(e, ev, of, attr, enforced) ==
    /\ fan[e].pc = "idle"
    /\ fan' = [fan EXCEPT ![e] =
                  [pc |-> "fan", at |-> 1, rec |-> Prepared(ev, of, attr),
                   policy |-> IF enforced THEN policy ELSE "fail_open",
                   failed |-> {}, skipped |-> {}]]
    /\ UNCHANGED <<policy, digestKey, kept, tasks, permits>>

AtSink(e, s) ==
    /\ fan[e].pc = "fan"
    /\ fan[e].at <= Len(SinkOrder)
    /\ s = SinkOrder[fan[e].at]

Advanced(e) == [fan[e] EXCEPT !.at = @ + 1]

(* A sink that does not serve, or whose policy rejects the action.  What it  *)
(* is skipped for is history.                                                *)
SkipSink(e) ==
    \E s \in Sinks :
        /\ AtSink(e, s)
        /\ ~serving[s] \/ ~Accepts(s, fan[e].rec.ev)
        /\ fan' = [fan EXCEPT ![e] = [Advanced(e) EXCEPT
                      !.skipped = IF Accepts(s, fan[e].rec.ev) THEN @ \cup {s} ELSE @]]
        /\ UNCHANGED <<policy, digestKey, kept, tasks, permits>>

(* Mutant: the emitter waits for a permit. *)
SpawnEmitWaiting(e) ==
    \E s \in Sinks \ Gating :
        /\ AtSink(e, s) /\ serving[s] /\ Accepts(s, fan[e].rec.ev)
        /\ permits[PolicyOf[s]] > 0
        /\ permits' = [permits EXCEPT ![PolicyOf[s]] = @ - 1]
        /\ tasks'   = [tasks EXCEPT ![PolicyOf[s]] = Append(@, fan[e].rec)]
        /\ fan' = [fan EXCEPT ![e] = Advanced(e)]
        /\ UNCHANGED <<policy, digestKey, kept>>

(* A collector: the permit is taken before the task is spawned; when its     *)
(* sinks hold all of the policy's permits the record is lost.                *)
SpawnEmit(e) ==
    \E s \in Sinks \ Gating :
        /\ AtSink(e, s) /\ serving[s] /\ Accepts(s, fan[e].rec.ev)
        /\ IF permits[PolicyOf[s]] > 0
           THEN /\ permits' = [permits EXCEPT ![PolicyOf[s]] = @ - 1]
                /\ tasks'   = [tasks EXCEPT ![PolicyOf[s]] = Append(@, fan[e].rec)]
           ELSE UNCHANGED <<permits, tasks>>
        /\ fan' = [fan EXCEPT ![e] = Advanced(e)]
        /\ UNCHANGED <<policy, digestKey, kept>>

(* A gating sink answers: it kept the record, or it failed.                  *)
GatingEmit(e) ==
    \E s \in Gating :
        /\ AtSink(e, s) /\ serving[s] /\ Accepts(s, fan[e].rec.ev)
        /\ \/ /\ kept' = [kept EXCEPT ![s] = @ \cup {fan[e].rec}]
              /\ fan'  = [fan EXCEPT ![e] = Advanced(e)]
           \/ /\ fan'  = [fan EXCEPT ![e] = [Advanced(e) EXCEPT !.failed = @ \cup {s}]]
              /\ UNCHANGED kept
        /\ UNCHANGED <<policy, digestKey, tasks, permits>>

(* The second look, under fail_closed only: every gating sink that accepts   *)
(* the action and does not serve now.                                        *)
NotServingNow(ev) == {s \in Gating : ~serving[s] /\ Accepts(s, ev)}

EmissionFailed(e) ==
    /\ fan[e].policy = "fail_closed"
    /\ fan[e].failed \cup NotServingNow(fan[e].rec.ev) # {}

FanoutDone(e) == fan[e].pc = "fan" /\ fan[e].at > Len(SinkOrder)

(* Mutant: the permit comes back only when the collector took the record. *)
CollectorDoneLeaking(q) ==
    \E i \in 1..Len(tasks[q]), took \in BOOLEAN :
        /\ tasks'   = [tasks EXCEPT ![q] = RemoveAt(@, i)]
        /\ permits' = [permits EXCEPT ![q] = IF took THEN @ + 1 ELSE @]
        /\ UNCHANGED <<serving, policy, digestKey, fan, kept>>

(* A collector's task ends, whatever the sink answered, and its permit goes  *)
(* back.                                                                     *)
CollectorDone(q) ==
    \E i \in 1..Len(tasks[q]) :
        /\ tasks'   = [tasks EXCEPT ![q] = RemoveAt(@, i)]
        /\ permits' = [permits EXCEPT ![q] = @ + 1]
        /\ UNCHANGED <<serving, policy, digestKey, fan, kept>>

SetRequestPolicy ==
    /\ policy' \in Policies \ {policy}
    /\ UNCHANGED <<serving, digestKey, fan, kept, tasks, permits>>

SetDigestKey ==
    /\ digestKey' = ~digestKey
    /\ UNCHANGED <<serving, policy, fan, kept, tasks, permits>>
===============================================================================
