----------------------------- MODULE HealthProber -----------------------------
(***************************************************************************)
(* The background health prober (health_prober.rs) and the registry calls  *)
(* it makes (probe_plugin, mark_degraded, mark_active of registry.rs),     *)
(* against an operator that disables, enables and drains plugins and the   *)
(* holder of the HealthProberHandle that nudges it and stops it.           *)
(*                                                                         *)
(* A probe is a plugin call the prober awaits; everybody else moves while  *)
(* it runs.  Every registry call that changes a state cell is a load and a *)
(* store, as in ChainDrain.  Signals travel by Notify::notify_waiters,     *)
(* which reaches the prober only while it is parked in its select.         *)
(***************************************************************************)
EXTENDS PluginLifecycle, Naturals, Sequences

CONSTANTS
    Listed,         \* registered_plugin_ids(): the ids in registration order;
                    \* two instances of one plugin list its id twice
    Probeable,      \* ids of chain plugins; a probe of any other answers
                    \* Unsupported or NotFound
    Threshold       \* failure_threshold

ASSUME ListedAssumption    == Listed \in Seq(Plugins) /\ Probeable \subseteq Plugins
ASSUME ThresholdAssumption == Threshold \in Nat \ {0}    \* validate()

VARIABLES
    streak,     \* streak[p]: consecutive failures, saturating at Threshold
    ppc,        \* where the prober is
    i,          \* its index in Listed
    result,     \* outcome of the latest probe that called the plugin
    sick,       \* plugins whose calls panic or hang now
    handle,     \* the HealthProberHandle: "held", "stopping", "stopped"
    opc,        \* where the operator is in its registry call
    oplugin,    \* the plugin it names
    oto,        \* the state it is about to store
    lateProbes  \* history: probes begun after the stop flag was set

proberVars == <<streak, ppc, i, result>>
opVars     == <<opc, oplugin, oto>>
vars == <<state, proberVars, sick, handle, opVars, lateProbes>>

Id == Listed[i]
StopFlag == handle # "held"
Cells == {"Active", "Degraded", "Disabled", "Draining"}

Init ==
    /\ state   = [p \in Plugins |-> "Active"]
    /\ streak  = [p \in Plugins |-> 0]
    /\ ppc     = "head"
    /\ i       = 1
    /\ result  = "none"
    /\ sick    = {}
    /\ handle  = "held"
    /\ opc     = "idle"
    /\ oplugin \in Plugins
    /\ oto     = "none"
    /\ lateProbes = 0

-------------------------------------------------------------------------------
(* run_prober.                                                              *)

(* Mutant: the flag is not looked at. *)
BadBeginCycle ==
    /\ ppc = "head"
    /\ ppc' = "each"
    /\ i' = 1
    /\ UNCHANGED <<state, streak, result, sick, handle, opVars, lateProbes>>

(* Mutant: the streaks live for one cycle. *)
ForgetfulCycle ==
    /\ ppc = "head"
    /\ ppc' = IF StopFlag THEN "stopped" ELSE "each"
    /\ i' = 1
    /\ streak' = [p \in Plugins |-> 0]
    /\ UNCHANGED <<state, result, sick, handle, opVars, lateProbes>>

(* Top of the loop: leave, or take the list of ids and start a cycle. *)
BeginCycle ==
    /\ ppc = "head"
    /\ ppc' = IF StopFlag THEN "stopped" ELSE "each"
    /\ i' = 1
    /\ UNCHANGED <<state, streak, result, sick, handle, opVars, lateProbes>>

(* Mutant: the stop flag is read once per cycle. *)
BadEach ==
    /\ ppc = "each"
    /\ ppc' = IF i > Len(Listed) THEN "select" ELSE "probe"
    /\ UNCHANGED <<state, streak, i, result, sick, handle, opVars, lateProbes>>

(* Top of the for loop: the stop flag breaks out of it, to the select. *)
Each ==
    /\ ppc = "each"
    /\ ppc' = IF i > Len(Listed) \/ StopFlag THEN "select" ELSE "probe"
    /\ UNCHANGED <<state, streak, i, result, sick, handle, opVars, lateProbes>>

NextId ==
    /\ ppc' = "each"
    /\ i' = i + 1

(* probe_plugin answers Skipped, Unsupported or NotFound: the streak stays. *)
ProbeNothing ==
    /\ ppc = "probe"
    /\ Id \notin Probeable \/ ~ServesTraffic(state[Id])
    /\ NextId
    /\ UNCHANGED <<state, streak, result, sick, handle, opVars, lateProbes>>

(* probe_plugin calls the plugin; it takes no InflightGuard. *)
ProbeCall ==
    /\ ppc = "probe"
    /\ Id \in Probeable /\ ServesTraffic(state[Id])
    /\ ppc' = "calling"
    /\ lateProbes' = IF StopFlag THEN lateProbes + 1 ELSE lateProbes
    /\ UNCHANGED <<state, streak, i, result, sick, handle, opVars>>

(* Mutant: the threshold is compared with the streak before this failure, *)
(* plus two.                                                              *)
BadProbeFails ==
    /\ ppc = "calling"
    /\ Id \in sick
    /\ result' = "fail"
    /\ streak' = [streak EXCEPT ![Id] = IF @ < Threshold THEN @ + 1 ELSE @]
    /\ IF streak[Id] + 2 >= Threshold
       THEN ppc' = "mark" /\ i' = i
       ELSE NextId
    /\ UNCHANGED <<state, sick, handle, opVars, lateProbes>>

(* The call panicked or probe_timeout elapsed. *)
ProbeFails ==
    /\ ppc = "calling"
    /\ Id \in sick
    /\ result' = "fail"
    /\ LET n == streak[Id] + 1
       IN  IF n >= Threshold
           THEN /\ streak' = [streak EXCEPT ![Id] = Threshold]
                /\ ppc' = "mark" /\ i' = i
           ELSE /\ streak' = [streak EXCEPT ![Id] = n]
                /\ NextId
    /\ UNCHANGED <<state, sick, handle, opVars, lateProbes>>

(* Mutant: a pass clears the streak and leaves the state. *)
BadProbePasses ==
    /\ ppc = "calling"
    /\ Id \notin sick
    /\ result' = "pass"
    /\ streak' = [streak EXCEPT ![Id] = 0]
    /\ NextId
    /\ UNCHANGED <<state, sick, handle, opVars, lateProbes>>

(* Any other answer, a Deny included, is a Pass. *)
ProbePasses ==
    /\ ppc = "calling"
    /\ Id \notin sick
    /\ result' = "pass"
    /\ streak' = [streak EXCEPT ![Id] = 0]
    /\ ppc' = "mark"
    /\ UNCHANGED <<state, i, sick, handle, opVars, lateProbes>>

(* mark_degraded after a failure, mark_active after a pass: the load. *)
MarkFrom == IF result = "fail" THEN "Active"   ELSE "Degraded"
MarkTo   == IF result = "fail" THEN "Degraded" ELSE "Active"

MarkLoad ==
    /\ ppc = "mark"
    /\ IF state[Id] = MarkFrom THEN ppc' = "store" /\ i' = i ELSE NextId
    /\ UNCHANGED <<state, streak, result, sick, handle, opVars, lateProbes>>

MarkStore ==
    /\ ppc = "store"
    /\ state' = [state EXCEPT ![Id] = MarkTo]
    /\ NextId
    /\ UNCHANGED <<streak, result, sick, handle, opVars, lateProbes>>

(* The select registers with the notifier and starts the sleep. *)
Park ==
    /\ ppc = "select"
    /\ ppc' = "parked"
    /\ UNCHANGED <<state, streak, i, result, sick, handle, opVars, lateProbes>>

SleepElapses ==
    /\ ppc = "parked"
    /\ ppc' = "head"
    /\ UNCHANGED <<state, streak, i, result, sick, handle, opVars, lateProbes>>

-------------------------------------------------------------------------------
(* The handle.  notify_waiters stores no permit.                            *)

Notify == ppc' = IF ppc = "parked" THEN "head" ELSE ppc

Nudge ==
    /\ handle = "held"
    /\ Notify
    /\ UNCHANGED <<state, streak, i, result, sick, handle, opVars, lateProbes>>

(* stop() or drop: first the flag, then the notification. *)
StopStore ==
    /\ handle = "held"
    /\ handle' = "stopping"
    /\ UNCHANGED <<state, proberVars, sick, opVars, lateProbes>>

StopNotify ==
    /\ handle = "stopping"
    /\ handle' = "stopped"
    /\ Notify
    /\ UNCHANGED <<state, streak, i, result, sick, opVars, lateProbes>>

-------------------------------------------------------------------------------
(* The plugins and the operator.                                            *)

Sicken(p) ==
    /\ p \notin sick
    /\ sick' = sick \cup {p}
    /\ UNCHANGED <<state, proberVars, handle, opVars, lateProbes>>

Heal(p) ==
    /\ p \in sick
    /\ sick' = sick \ {p}
    /\ UNCHANGED <<state, proberVars, handle, opVars, lateProbes>>

WillStore(p, to) ==
    /\ opc' = "store"
    /\ oplugin' = p
    /\ oto' = to

Disable(p) ==
    /\ opc = "idle"
    /\ TransitionAllowed(state[p], "Disabled")
    /\ WillStore(p, "Disabled")
    /\ UNCHANGED <<state, proberVars, sick, handle, lateProbes>>

Enable(p) ==
    /\ opc = "idle"
    /\ state[p] = "Disabled"
    /\ WillStore(p, "Active")
    /\ UNCHANGED <<state, proberVars, sick, handle, lateProbes>>

MarkDraining(p) ==
    /\ opc = "idle"
    /\ ServesTraffic(state[p])
    /\ WillStore(p, "Draining")
    /\ UNCHANGED <<state, proberVars, sick, handle, lateProbes>>

StoreState ==
    /\ opc = "store"
    /\ state' = [state EXCEPT ![oplugin] = oto]
    /\ opc' = "idle"
    /\ oto' = "none"
    /\ UNCHANGED <<proberVars, sick, handle, oplugin, lateProbes>>

-------------------------------------------------------------------------------
Prober ==
    \/ BeginCycle \/ Each \/ ProbeNothing \/ ProbeCall \/ ProbeFails \/ ProbePasses
    \/ MarkLoad \/ MarkStore \/ Park \/ SleepElapses

Operator ==
    \/ \E p \in Plugins : Disable(p) \/ Enable(p) \/ MarkDraining(p)
    \/ StoreState

Next ==
    \/ Prober
    \/ Nudge \/ StopStore \/ StopNotify
    \/ \E p \in Plugins : Sicken(p) \/ Heal(p)
    \/ Operator

Spec == Init /\ [][Next]_vars

(* The runtime polls the prober's task, the sleep and probe_timeout elapse;  *)
(* a stop() that has set the flag goes on to notify, and a store follows its *)
(* load.  Nobody has to disable, enable, nudge, heal or stop.                *)
Fairness ==
    /\ WF_vars(Prober)
    /\ WF_vars(StopNotify)
    /\ WF_vars(StoreState)

FairSpec == Spec /\ Fairness

-------------------------------------------------------------------------------
TypeOK ==
    /\ state \in [Plugins -> Cells]
    /\ streak \in [Plugins -> 0 .. Threshold]
    /\ ppc \in {"head", "each", "probe", "calling", "mark", "store", "select",
                "parked", "stopped"}
    /\ i \in 1 .. Len(Listed) + 1
    /\ ppc \in {"probe", "calling", "mark", "store"} => i <= Len(Listed)
    /\ result \in {"none", "pass", "fail"}
    /\ sick \subseteq Plugins
    /\ handle \in {"held", "stopping", "stopped"}
    /\ opc \in {"idle", "store"}
    /\ oplugin \in Plugins
    /\ oto \in Cells \cup {"none"}
    /\ opc = "store" => oto \in Cells
    /\ lateProbes \in Nat

(* A plugin is Degraded only on the evidence of Threshold consecutive        *)
(* failures, and stays so only until a probe passes: the flag and the streak *)
(* agree whatever the operator does to the plugin meanwhile.                 *)
DegradedExplained ==
    \A p \in Plugins :
        state[p] = "Degraded" =>
            \/ streak[p] >= Threshold
            \/ ppc \in {"mark", "store"} /\ Id = p /\ result = "pass"

(* The stop flag is honoured: at most the one probe whose check came before  *)
(* it is begun after it was set.                                             *)
OneLateProbe == lateProbes <= 1

(* stop() returns and a dropped handle ends the task, although the           *)
(* notification is lost on a prober that is not parked: it finds the flag    *)
(* after the sleep.                                                          *)
StopEndsTask == StopFlag ~> ppc = "stopped"

(* A plugin that is well and keeps being probed does not stay Degraded. *)
HealthyRecovers ==
    \A p \in Probeable :
        <>[](p \notin sick /\ ~StopFlag) => []<>(state[p] # "Degraded")

(* A plugin that fails every probe while it serves is flagged for good: no   *)
(* interleaving of earlier operator calls loses the flag or the streak.      *)
SickIsFlagged ==
    \A p \in Probeable :
        <>[](p \in sick /\ ~StopFlag /\ ServesTraffic(state[p]))
            => <>[](state[p] = "Degraded")

================================================================================
