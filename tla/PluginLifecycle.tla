---------------------------- MODULE PluginLifecycle ----------------------------
(***************************************************************************)
(* The plugin states of lifecycle.rs and the table of permitted            *)
(* transitions.  Every module that reads or writes a plugin's state cell   *)
(* EXTENDS this one; module Lifecycle is the state machine of the          *)
(* `Lifecycle' struct built on the table.                                  *)
(***************************************************************************)

CONSTANT Plugins    \* manifest ids

VARIABLE state      \* state[p]: the state of plugin p, in its Lifecycle or in
                    \* the AtomicPluginState of its registration

PluginState ==
    { "Discovered", "Installed", "Verified", "Compatible", "Configured",
      "Enabled", "Initialized", "Active", "Degraded", "Disabled", "Unloaded",
      "Rejected", "Failed", "Draining" }

IsTerminal(s) == s \in {"Rejected", "Failed"}

(* Only Active and Degraded plugins are reached by chain evaluation. *)
ServesTraffic(s) == s \in {"Active", "Degraded"}

(* States from which load-time validation can still refuse the plugin. *)
PreRuntime == {"Installed", "Verified", "Compatible", "Configured"}

(* States a `fail' is accepted from: those that can run plugin code. *)
CanFail == PreRuntime \cup
           {"Enabled", "Initialized", "Active", "Degraded", "Draining"}

(* The canonical next state on the happy path, as pairs. *)
HappyStep ==
    { <<"Discovered", "Installed">>,  <<"Installed", "Verified">>,
      <<"Verified", "Compatible">>,   <<"Compatible", "Configured">>,
      <<"Configured", "Enabled">>,    <<"Enabled", "Initialized">>,
      <<"Initialized", "Active">> }

(* Single source of truth for permitted transitions. *)
TransitionAllowed(from, to) ==
    \/ <<from, to>> \in HappyStep
    \/ from \in {"Active", "Degraded", "Initialized"} /\ to = "Disabled"
    \/ from = "Disabled" /\ to = "Enabled"
    \/ from = "Active" /\ to = "Degraded"
    \/ from = "Degraded" /\ to = "Active"
    \/ ServesTraffic(from) /\ to = "Draining"
    \/ from = "Draining" /\ to \in {"Disabled", "Active"}
    \/ from \in PreRuntime /\ to = "Rejected"
    \/ from \in CanFail /\ to = "Failed"
    \/ from \in PluginState \ {"Discovered", "Unloaded"} /\ to = "Unloaded"
    \/ from = "Unloaded" /\ to = "Discovered"
================================================================================
