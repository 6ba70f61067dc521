------------------------------ MODULE RequestPath ------------------------------
(***************************************************************************)
(* A tools/call on its way through the registry's chains (registry.rs):    *)
(* resolve_identity, apply_transforms_pre, evaluate_tool_gates_pre, the    *)
(* backend, evaluate_tool_gates_post, apply_transforms_post, with every    *)
(* audit record the chains write.  The order of the six is the dispatch    *)
(* site's, which is not part of this repository.                           *)
(*                                                                         *)
(* A payload is named after who wrote it last: "client", "backend" or the  *)
(* plugin whose rewrite it is.                                             *)
(***************************************************************************)
EXTENDS AuditFanout

CONSTANTS
    Requests,       \* concurrent tools/call
    Surfaces,       \* other request surfaces that write audit records
    OtherEvents,    \* the events those write
    Deployments,    \* the plugin chains a gateway may be configured with
    Enforce,        \* gates with enforce set; the others run in shadow mode
    Payment         \* gates whose id is under dev.mcpg.payment.

ASSUME EmitterAssumption ==
    Emitters = Requests \cup Surfaces /\ Requests \cap Surfaces = {}
ASSUME OtherAssumption == OtherEvents \subseteq SurfaceEvents

VARIABLES
    dep,        \* the deployment: identity, transforms and gates chains, and
                \* the audit_emit_tool_call_* switches; the surfaces in
                \* use; maxToggles, the bound on operator changes
    job,        \* job[r]: where call r is
    trace,      \* trace[r]: history, what each plugin of the current chain said
    val,        \* val[r]: the payload as it is now
    input,      \* input[r]: history, the payload at the start of the chain
    short,      \* short[r]: modified_result of the pre chain, or "none"
    ran,        \* calls the backend has run
    toggles

callVars == <<job, trace, val, input, short, ran>>
vars == <<serving, auditVars, dep, callVars, toggles>>

GatePhases      == {"gate_pre", "gate_post"}
TransformPhases == {"transform_pre", "transform_post"}

ChainOf(phase) ==
    CASE phase = "identity"          -> dep.identity
      [] phase \in TransformPhases   -> dep.transforms
      [] phase \in GatePhases        -> dep.gates

Plugins == UNION {{c[i] : i \in 1..Len(c)} :
                     c \in UNION {{d.identity, d.transforms, d.gates} : d \in Deployments}}

(* The plugins this gateway has registered. *)
Registered == UNION {{c[i] : i \in 1..Len(c)} : c \in {dep.identity, dep.transforms, dep.gates}}

(* GateDecision: an Allow may carry modified_arguments and modified_result. *)
Decisions ==
    {[kind |-> "allow", mods |-> m] : m \in {{}, {"args"}, {"result"}}}
        \cup {[kind |-> k, mods |-> {}] : k \in {"deny", "challenge", "pending"}}

(* `at' is 0 while no chain is walked.  `reachable' and `log' are history:   *)
(* what the dispatch site was told of the sinks, and what was written.       *)
NotBegun == [phase |-> "none", pc |-> "idle", at |-> 0, verdict |-> "none",
             due |-> <<>>, reachable |-> FALSE, log |-> <<>>]

-------------------------------------------------------------------------------
Init ==
    /\ AuditInit
    /\ serving = [p \in Plugins \cup Sinks |-> TRUE]
    /\ dep     \in Deployments
    /\ job     = [r \in Requests |-> NotBegun]
    /\ trace   = [r \in Requests |-> <<>>]
    /\ val     = [r \in Requests |-> "client"]
    /\ input   = [r \in Requests |-> "client"]
    /\ short   = [r \in Requests |-> "none"]
    /\ ran     = {}
    /\ toggles = 0

-------------------------------------------------------------------------------
(* Walking a chain.                                                         *)

Enter(r, phase) ==
    /\ job'   = [job EXCEPT ![r] = [NotBegun EXCEPT !.phase = phase, !.pc = "run", !.at = 1]]
    /\ trace' = [trace EXCEPT ![r] = <<>>]

(* The plugin whose turn it is in the chain of the phase. *)
Turn(r, p) ==
    /\ job[r].pc = "run"
    /\ job[r].at <= Len(ChainOf(job[r].phase))
    /\ p = ChainOf(job[r].phase)[job[r].at]

Said(r, p, saw, said) ==
    trace' = [trace EXCEPT ![r] = Append(@, [by |-> p, saw |-> saw, said |-> said])]

(* Go on to the next plugin, writing the records `due' first. *)
GoOn(r, due) ==
    job' = [job EXCEPT ![r].at = @ + 1, ![r].due = due,
                       ![r].pc = IF due = <<>> THEN "run" ELSE "emit"]

(* Leave the chain with a verdict, writing the records `due' first. *)
Return(r, verdict, due) ==
    job' = [job EXCEPT ![r].verdict = verdict, ![r].due = due,
                       ![r].pc = IF due = <<>> THEN "ended" ELSE "emit"]

SkipPlugin(r) ==
    \E p \in Plugins :
        /\ Turn(r, p) /\ ~serving[p]
        /\ Said(r, p, val[r], [kind |-> "skipped", mods |-> {}])
        /\ GoOn(r, <<>>)
        /\ UNCHANGED <<serving, auditVars, dep, val, input, short, ran, toggles>>

(* resolve_identity: Resolved wins, None falls through, Invalid stops. *)
AskIdentity(r) ==
    \E p \in Plugins, kind \in {"resolved", "none", "invalid"} :
        /\ job[r].phase = "identity" /\ Turn(r, p) /\ serving[p]
        /\ Said(r, p, val[r], [kind |-> kind, mods |-> {}])
        /\ CASE kind = "resolved" -> Return(r, "resolved", <<>>)
             [] kind = "none"     -> GoOn(r, <<>>)
             [] kind = "invalid"  -> Return(r, "rejected", <<>>)
        /\ UNCHANGED <<serving, auditVars, dep, val, input, short, ran, toggles>>

(* apply_transforms_pre and _post: an error keeps the last good value. *)
ApplyTransform(r) ==
    \E p \in Plugins, kind \in {"unchanged", "modified", "error"} :
        /\ job[r].phase \in TransformPhases /\ Turn(r, p) /\ serving[p]
        /\ Said(r, p, val[r], [kind |-> kind, mods |-> {}])
        /\ IF kind = "modified"
           THEN val' = [val EXCEPT ![r] = p] /\ GoOn(r, <<TransformApplied>>)
           ELSE UNCHANGED val /\ GoOn(r, <<>>)
        /\ UNCHANGED <<serving, auditVars, dep, input, short, ran, toggles>>

(* Mutant: a challenge leaves without its record. *)
RefusalRecordsDenyOnly(p, kind) ==
    IF kind = "challenge" THEN <<>>
    ELSE <<GateRefused(kind)>>
             \o (IF p \in Payment THEN <<PaymentOutcome(FALSE)>> ELSE <<>>)

(* The records of a refusal: the gate's own, and the payment one. *)
RefusalRecords(p, kind) ==
    <<GateRefused(kind)>> \o (IF p \in Payment THEN <<PaymentOutcome(FALSE)>> ELSE <<>>)

(* Mutant: each gate is given the client's arguments, not the running rewrite. *)
ClientArguments(r) == input[r]

(* current_args: what the gates before have made of the arguments. *)
CurrentArguments(r) == val[r]

(* evaluate_tool_gates_pre.  Shadow mode overrides a Deny or a Challenge,   *)
(* and not a PendingApproval.                                               *)
GatePre(r) ==
    \E p \in Plugins, d \in Decisions :
        /\ job[r].phase = "gate_pre" /\ Turn(r, p) /\ serving[p]
        /\ Said(r, p, CurrentArguments(r), d)
        /\ CASE d.kind = "allow" ->
                  /\ GoOn(r, IF p \in Payment THEN <<PaymentOutcome(TRUE)>> ELSE <<>>)
                  /\ val'   = [val EXCEPT ![r] = IF "args" \in d.mods THEN p ELSE @]
                  /\ short' = [short EXCEPT ![r] = IF "result" \in d.mods THEN p ELSE @]
             [] d.kind = "pending" ->
                  Return(r, "pending", <<>>) /\ UNCHANGED <<val, short>>
             [] d.kind \in {"deny", "challenge"} ->
                  /\ IF p \in Enforce THEN Return(r, d.kind, RefusalRecords(p, d.kind))
                                      ELSE GoOn(r, <<>>)
                  /\ UNCHANGED <<val, short>>
        /\ UNCHANGED <<serving, auditVars, dep, input, ran, toggles>>

(* evaluate_tool_gates_post: only modified_result counts, a PendingApproval  *)
(* is a Deny, and a refusal writes no record.                                *)
GatePost(r) ==
    \E p \in Plugins, d \in Decisions :
        /\ job[r].phase = "gate_post" /\ Turn(r, p) /\ serving[p]
        /\ Said(r, p, val[r], d)
        /\ CASE d.kind = "allow" ->
                  /\ GoOn(r, <<>>)
                  /\ val' = [val EXCEPT ![r] = IF "result" \in d.mods THEN p ELSE @]
             [] d.kind = "pending" -> Return(r, "deny", <<>>) /\ UNCHANGED val
             [] d.kind \in {"deny", "challenge"} ->
                  /\ IF p \in Enforce THEN Return(r, d.kind, <<>>) ELSE GoOn(r, <<>>)
                  /\ UNCHANGED val
        /\ UNCHANGED <<serving, auditVars, dep, input, short, ran, toggles>>

(* The record of an accepted call or result, and the switch it is under. *)
CallRecord(phase) == IF phase = "gate_pre" THEN ToolCallAllowed ELSE ToolCallCompleted
Emits(phase) == IF phase = "gate_pre" THEN dep.emitAllowed ELSE dep.emitCompleted

(* The end of a chain, an empty one too: an accepted call owes its record.   *)
EndChain(r) ==
    /\ job[r].pc = "run"
    /\ job[r].at > Len(ChainOf(job[r].phase))
    /\ CASE job[r].phase = "identity" -> Return(r, "no_credential", <<>>)
         [] job[r].phase \in TransformPhases -> Return(r, "value", <<>>)
         [] job[r].phase \in GatePhases ->
              Return(r, "allow",
                     IF Emits(job[r].phase) THEN <<CallRecord(job[r].phase)>> ELSE <<>>)
    /\ UNCHANGED <<serving, auditVars, dep, trace, val, input, short, ran, toggles>>

-------------------------------------------------------------------------------
(* Writing the records a chain owes.                                        *)

CallRecords == {ToolCallAllowed, ToolCallCompleted}

(* A caller's identity may carry an attribute that is on the digest list.   *)
AttributeOf(ev) == IF ev.actor = "caller" THEN "plain" ELSE "none"

(* Only the allowed and the completed record is enforced                    *)
(* (emit_tool_call_record); the others go through emit_audit_event and      *)
(* their results are dropped.                                               *)
WriteRecord(r) ==
    /\ job[r].pc = "emit"
    /\ LET ev == Head(job[r].due) IN
       BeginEmit(r, ev, r, AttributeOf(ev), ev \in CallRecords)
    /\ UNCHANGED <<serving, dep, callVars, toggles>>

RecordWritten(r) ==
    /\ FanoutDone(r)
    /\ fan' = [fan EXCEPT ![r] = Idle]
    /\ LET due     == Tail(job[r].due)
           verdict == IF EmissionFailed(r) THEN "audit_refused" ELSE job[r].verdict
           down    == NotServingNow(fan[r].rec.ev)
       IN  job' = [job EXCEPT
                     ![r].due = due, ![r].verdict = verdict,
                     ![r].log = Append(@, [rec |-> fan[r].rec, policy |-> fan[r].policy,
                                           failed |-> fan[r].failed, down |-> down,
                                           skipped |-> fan[r].skipped]),
                     ![r].pc = IF due # <<>> THEN "emit"
                               ELSE IF verdict = "none" THEN "run" ELSE "ended"]
    /\ UNCHANGED <<serving, policy, digestKey, kept, tasks, permits,
                   dep, trace, val, input, short, ran, toggles>>

(* Another surface writes one of its records under the request policy.      *)
SurfaceWrites(e) ==
    /\ e \in dep.surfaces
    /\ \E ev \in OtherEvents : BeginEmit(e, ev, e, AttributeOf(ev), TRUE)
    /\ UNCHANGED <<serving, dep, callVars, toggles>>

SurfaceWritten(e) ==
    /\ FanoutDone(e)
    /\ fan' = [fan EXCEPT ![e] = [pc |-> "over"]]
    /\ UNCHANGED <<serving, policy, digestKey, kept, tasks, permits,
                   dep, callVars, toggles>>

-------------------------------------------------------------------------------
(* The dispatch site.  It consults emits_tool_call_allowed / _completed so   *)
(* that a gateway without gates still has its calls on record.               *)

ToolCallAuditReachable ==
    \/ \E s \in Sinks : serving[s]
    \/ Gating # {} /\ policy = "fail_closed"

(* Mutant: the dispatch site asks for gates only. *)
EvaluatesLoadedGates(phase) == dep.gates # <<>>

EvaluatesGates(phase) == dep.gates # <<>> \/ (Emits(phase) /\ ToolCallAuditReachable)

BeginCall(r) ==
    /\ job[r].pc = "idle"
    /\ Enter(r, "identity")
    /\ UNCHANGED <<serving, auditVars, dep, val, input, short, ran, toggles>>

(* Enter the gate chain, or pass it by with an Allow. *)
EnterGates(r, phase) ==
    IF EvaluatesGates(phase)
    THEN Enter(r, phase)
    ELSE /\ job'   = [job EXCEPT ![r] = [NotBegun EXCEPT
                         !.phase = phase, !.pc = "ended", !.verdict = "allow",
                         !.reachable = ToolCallAuditReachable]]
         /\ trace' = [trace EXCEPT ![r] = <<>>]

Finish(r) ==
    /\ job'   = [job EXCEPT ![r] = [NotBegun EXCEPT !.phase = "over", !.pc = "done",
                                                    !.verdict = job[r].verdict]]
    /\ trace' = [trace EXCEPT ![r] = <<>>]

Dispatch(r) ==
    /\ job[r].pc = "ended"
    /\ CASE job[r].phase = "identity" ->
              /\ IF job[r].verdict = "rejected" THEN Finish(r) ELSE Enter(r, "transform_pre")
              /\ UNCHANGED <<val, ran>>
         [] job[r].phase = "transform_pre" ->
              EnterGates(r, "gate_pre") /\ UNCHANGED <<val, ran>>
         [] job[r].phase = "gate_pre" /\ job[r].verdict # "allow" ->
              Finish(r) /\ UNCHANGED <<val, ran>>
         [] job[r].phase = "gate_pre" /\ job[r].verdict = "allow" ->
              \* a modified_result answers the call in the backend's place
              /\ val' = [val EXCEPT ![r] = IF short[r] # "none" THEN short[r] ELSE "backend"]
              /\ ran' = IF short[r] # "none" THEN ran ELSE ran \cup {r}
              /\ EnterGates(r, "gate_post")
         [] job[r].phase = "gate_post" ->
              /\ IF job[r].verdict = "allow" THEN Enter(r, "transform_post") ELSE Finish(r)
              /\ UNCHANGED <<val, ran>>
         [] job[r].phase = "transform_post" -> Finish(r) /\ UNCHANGED <<val, ran>>
    /\ input' = [input EXCEPT ![r] = val'[r]]
    /\ short' = IF job[r].phase = "gate_pre" THEN [short EXCEPT ![r] = "none"] ELSE short
    /\ UNCHANGED <<serving, auditVars, dep, toggles>>

-------------------------------------------------------------------------------
(* Operators.                                                               *)

Toggle(p) ==
    /\ toggles < dep.maxToggles
    /\ toggles' = toggles + 1
    /\ serving' = [serving EXCEPT ![p] = ~@]
    /\ UNCHANGED <<auditVars, dep, callVars>>

Reconfigure ==
    /\ toggles < dep.maxToggles
    /\ toggles' = toggles + 1
    /\ SetRequestPolicy \/ SetDigestKey
    /\ UNCHANGED <<dep, callVars>>

-------------------------------------------------------------------------------
CallStep(r) ==
    \/ BeginCall(r) \/ SkipPlugin(r) \/ AskIdentity(r) \/ ApplyTransform(r)
    \/ GatePre(r) \/ GatePost(r) \/ EndChain(r)
    \/ WriteRecord(r) \/ RecordWritten(r) \/ Dispatch(r)

SinkStep(e) ==
    /\ SkipSink(e) \/ SpawnEmit(e) \/ GatingEmit(e)
    /\ UNCHANGED <<serving, dep, callVars, toggles>>

Collects == \E q \in SinkPolicies :
    CollectorDone(q) /\ UNCHANGED <<dep, callVars, toggles>>

Next ==
    \/ \E r \in Requests : CallStep(r)
    \/ \E e \in Emitters : SinkStep(e)
    \/ \E e \in Surfaces : SurfaceWrites(e) \/ SurfaceWritten(e)
    \/ Collects
    \/ \E p \in Registered \cup Sinks : Toggle(p)
    \/ Reconfigure

(* A call's own task runs on, and the plugins and gating sinks it awaits     *)
(* answer: every adapter bounds its call.  Nothing is assumed of collectors. *)
Fairness ==
    /\ \A r \in Requests : WF_vars(CallStep(r))
    /\ \A r \in Requests : WF_vars(SinkStep(r))

Spec == Init /\ [][Next]_vars /\ Fairness
-------------------------------------------------------------------------------
(* Properties.                                                              *)

Refuses(phase, entry) ==
    \/ entry.said.kind \in {"pending", "invalid"}
    \/ entry.said.kind \in {"deny", "challenge"} /\ entry.by \in Enforce

(* The rewrites of a chain's first n entries that reach the next plugin. *)
Rewrites(phase, entry) ==
    \/ phase \in TransformPhases /\ entry.said.kind = "modified"
    \/ phase = "gate_pre"  /\ "args" \in entry.said.mods
    \/ phase = "gate_post" /\ "result" \in entry.said.mods

LastWriter(r, n) ==
    LET w == {i \in 1..n : Rewrites(job[r].phase, trace[r][i])}
    IN  IF w = {} THEN input[r]
        ELSE trace[r][CHOOSE i \in w : \A j \in w : j <= i].by

(* What a chain decides is a function of what its plugins said, however      *)
(* operators disable and enable them meanwhile: the plugins are asked in     *)
(* order, each is given the latest rewrite before it, the first enforced     *)
(* refusal (or rejected credential) is the last word and becomes the         *)
(* verdict, a shadow gate never refuses, and only a chain without a refusal  *)
(* ends in an Allow or in the refusal of a lost audit record                 *)
(* (evaluate_tool_gates_pre/_post, apply_transforms_*, resolve_identity).    *)
VerdictFollowsChain ==
    \A r \in Requests :
        LET t == trace[r]  ph == job[r].phase  n == Len(t)
            refusing == {i \in 1..n : Refuses(ph, t[i])}
        IN  /\ \A i \in 1..n : /\ t[i].by = ChainOf(ph)[i]
                                /\ t[i].saw = LastWriter(r, i - 1)
            /\ n > 0 => val[r] = LastWriter(r, n)
            /\ refusing \subseteq {n}
            /\ job[r].pc = "ended" /\ ph \in GatePhases =>
                 IF refusing = {}
                 THEN job[r].verdict \in {"allow", "audit_refused"}
                 ELSE job[r].verdict = IF ph = "gate_post" /\ t[n].said.kind = "pending"
                                       THEN "deny" ELSE t[n].said.kind

Interested(ev) == {s \in Gating : Accepts(s, ev)}

KeptBy(of, ev) ==
    {s \in Gating : \E rec \in kept[s] : rec.of = of /\ rec.ev = ev}

Log(r) == {job[r].log[i] : i \in 1..Len(job[r].log)}

(* An accepted call or result, once its chain is through, has an emission of *)
(* its record behind it whenever the switch asks for one; and if fail_closed *)
(* held when that began, the record is with every gating sink that wants it, *)
(* except a sink the fan-out found disabled and the second look found        *)
(* enabled again (emit_audit_event_enforced).  The one accepted call without *)
(* a record is that of a gateway without gates whose dispatch site was told, *)
(* by emits_tool_call_allowed / _completed, that no sink could be reached.   *)
AcceptedCallsRecorded ==
    \A r \in Requests :
        LET ph == job[r].phase IN
        job[r].pc = "ended" /\ ph \in GatePhases /\ job[r].verdict = "allow" /\ Emits(ph) =>
            \/ dep.gates = <<>> /\ ~job[r].reachable /\ job[r].at = 0
            \/ \E l \in Log(r) :
                  /\ l.rec.ev = CallRecord(ph)
                  /\ l.policy = "fail_closed" =>
                        \A s \in Interested(l.rec.ev) :
                            \/ s \in KeptBy(r, l.rec.ev)
                            \/ s \in l.skipped /\ s \notin l.down

(* The records one plugin's answer must leave behind. *)
EntryOwes(phase, entry) ==
    LET k == entry.said.kind  paid == entry.by \in Payment IN
    CASE phase \in TransformPhases /\ k = "modified" -> {TransformApplied}
      [] phase = "gate_pre" /\ k = "allow" /\ paid -> {PaymentOutcome(TRUE)}
      [] phase = "gate_pre" /\ k \in {"deny", "challenge"} /\ entry.by \in Enforce ->
             {GateRefused(k)} \cup IF paid THEN {PaymentOutcome(FALSE)} ELSE {}
      [] OTHER -> {}

(* The record a chain that has been walked owes for the call itself: the     *)
(* verdict is an Allow, or was one until its record was lost.                *)
CallOwes(j) ==
    IF /\ j.phase \in GatePhases /\ j.at > 0 /\ Emits(j.phase)
       /\ j.verdict \in {"allow", "audit_refused"}
    THEN {CallRecord(j.phase)} ELSE {}

(* When a chain is through, what has been written is what it owes, and no    *)
(* record of another kind: that of every rewrite, refusal and charge in it,  *)
(* and that of the call it accepted; only a call whose own record was        *)
(* written can be refused for losing it; and each record was offered to      *)
(* every gating sink that wants it and served when its turn came             *)
(* (apply_transforms_*, evaluate_tool_gates_pre/_post).                      *)
ChainOnRecord ==
    \A r \in Requests : job[r].pc = "ended" =>
        LET ph   == job[r].phase
            owed == UNION {EntryOwes(ph, trace[r][i]) : i \in 1..Len(trace[r])}
        IN  /\ {l.rec.ev : l \in Log(r)} = owed \cup CallOwes(job[r])
            /\ job[r].verdict = "audit_refused" => CallOwes(job[r]) # {}
            /\ \A l \in Log(r) : \A s \in Interested(l.rec.ev) :
                   s \in KeptBy(r, l.rec.ev) \cup l.failed \cup l.skipped

(* A permit of a policy is free or rides with exactly one spawned emission   *)
(* of a sink that has the policy, also after emissions that failed: the      *)
(* collectors under one name are never sent more than InFlight records at    *)
(* once between them, and never end up shut out for good (emit_audit_event). *)
PermitsConserved ==
    \A q \in SinkPolicies : permits[q] + Len(tasks[q]) = InFlight

(* No sink and no collector's task ever holds a digest-listed attribute in   *)
(* the clear, whatever digest key or node id is set when (emit_audit_event,  *)
(* with_digested_actor_attributes).                                          *)
NoPlainAttribute ==
    /\ \A s \in Gating : \A rec \in kept[s] : rec.attr # "plain"
    /\ \A q \in SinkPolicies : \A i \in 1..Len(tasks[q]) : tasks[q][i].attr # "plain"

(* Every call ends, however long collectors hang and whatever operators      *)
(* toggle: no non-gating sink is on the request path.                        *)
CallsEnd == \A r \in Requests : job[r].pc # "idle" ~> job[r].pc = "done"
===============================================================================
