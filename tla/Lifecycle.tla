------------------------------ MODULE Lifecycle ------------------------------
(***************************************************************************)
(* The Lifecycle struct of lifecycle.rs: one state per plugin, moved by    *)
(* transition, advance, fail and reject.  A refused call returns an error  *)
(* and changes nothing.                                                    *)
(***************************************************************************)
EXTENDS PluginLifecycle

VARIABLE seen       \* seen[p]: history, the states entered since p was last
                    \* discovered

lifecycleVars == <<state, seen>>

LifecycleInit ==
    /\ state = [p \in Plugins |-> "Discovered"]
    /\ seen  = [p \in Plugins |-> {"Discovered"}]

Enter(p, to) ==
    /\ state' = [state EXCEPT ![p] = to]
    /\ seen'  = [seen EXCEPT ![p] = IF to = "Discovered" THEN {to} ELSE @ \cup {to}]

(* Mutant: a plugin may be enabled before it was verified. *)
BadTransition(p, to) ==
    /\ TransitionAllowed(state[p], to) \/ (state[p] \in PreRuntime /\ to = "Enabled")
    /\ Enter(p, to)

Transition(p, to) ==
    /\ TransitionAllowed(state[p], to)
    /\ Enter(p, to)

(* The canonical next state, then transition. *)
Advance(p) ==
    \E to \in PluginState : <<state[p], to>> \in HappyStep /\ Transition(p, to)

Fail(p) == Transition(p, "Failed")

(* Mutant: the table is not asked. *)
BadReject(p) == Enter(p, "Rejected")

Reject(p) == Transition(p, "Rejected")

LifecycleNext ==
    \E p \in Plugins :
        \/ \E to \in PluginState : Transition(p, to)
        \/ Advance(p) \/ Fail(p) \/ Reject(p)

LifecycleSpec == LifecycleInit /\ [][LifecycleNext]_lifecycleVars

-------------------------------------------------------------------------------
LifecycleTypeOK ==
    /\ state \in [Plugins -> PluginState]
    /\ seen \in [Plugins -> SUBSET PluginState]

(* Nothing serves traffic on a shortcut: since its last discovery a serving  *)
(* plugin went through every load step, signature verification and           *)
(* compatibility included, and was neither rejected nor failed.              *)
ServesOnlyLoaded ==
    \A p \in Plugins :
        ServesTraffic(state[p]) =>
            /\ {"Installed", "Verified", "Compatible", "Configured", "Enabled",
                "Initialized", "Active"} \subseteq seen[p]
            /\ seen[p] \cap {"Rejected", "Failed"} = {}

(* A terminal state is left only by unloading, and nothing but a fresh       *)
(* discovery follows Unloaded.                                               *)
NoResurrection ==
    [][ \A p \in Plugins :
          state'[p] # state[p] =>
            /\ IsTerminal(state[p]) => state'[p] = "Unloaded"
            /\ state[p] = "Unloaded" => state'[p] = "Discovered" ]_lifecycleVars
================================================================================
