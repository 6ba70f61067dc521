--------------------------- MODULE PluginStateProofs ---------------------------
(***************************************************************************)
(* Proofs about a plugin's state, for every set of plugins: the Lifecycle  *)
(* struct that moves it by the table (LifecycleSpec), and the health       *)
(* prober that flags a plugin Degraded in the cell it shares with the      *)
(* operator (Spec).                                                        *)
(***************************************************************************)
EXTENDS Lifecycle, HealthProber, TLAPS

-------------------------------------------------------------------------------
(* The Lifecycle struct.                                                    *)

(* What a plugin must have gone through to be in state s. *)
Required(s) ==
    CASE s = "Installed"   -> {"Installed"}
      [] s = "Verified"    -> {"Installed", "Verified"}
      [] s = "Compatible"  -> {"Installed", "Verified", "Compatible"}
      [] s = "Configured"  -> {"Installed", "Verified", "Compatible", "Configured"}
      [] s = "Enabled"     -> {"Installed", "Verified", "Compatible", "Configured",
                               "Enabled"}
      [] s \in {"Initialized", "Disabled"}
                           -> {"Installed", "Verified", "Compatible", "Configured",
                               "Enabled", "Initialized"}
      [] s \in {"Active", "Degraded", "Draining"}
                           -> {"Installed", "Verified", "Compatible", "Configured",
                               "Enabled", "Initialized", "Active"}
      [] OTHER             -> {}

(* The inductive strengthening of ServesOnlyLoaded: every state, not only    *)
(* the serving ones, implies the steps before it; and a plugin that was      *)
(* rejected or failed is still there or unloaded.                            *)
PathInv ==
    \A p \in Plugins :
        /\ Required(state[p]) \subseteq seen[p]
        /\ seen[p] \cap {"Rejected", "Failed"} # {}
              => state[p] \in {"Rejected", "Failed", "Unloaded"}

(* The table admits a state only after the states it requires. *)
LEMMA TableRespectsPath ==
    ASSUME NEW from \in PluginState, NEW to \in PluginState,
           TransitionAllowed(from, to), to # "Discovered"
    PROVE  Required(to) \subseteq Required(from) \cup {to}
BY DEF TransitionAllowed, PluginState, Required, HappyStep, PreRuntime,
       CanFail, ServesTraffic

(* Out of Rejected, Failed and Unloaded there is no way but re-discovery. *)
LEMMA TableKeepsTerminal ==
    ASSUME NEW from \in PluginState, NEW to \in PluginState,
           TransitionAllowed(from, to)
    PROVE  /\ from \in {"Rejected", "Failed"} => to = "Unloaded"
           /\ from = "Unloaded" => to = "Discovered"
BY DEF TransitionAllowed, PluginState, HappyStep, PreRuntime,
       CanFail, ServesTraffic

(* Every operation of the struct is one transition of the table. *)
LEMMA NextIsTransition ==
    ASSUME LifecycleNext
    PROVE  \E p \in Plugins, to \in PluginState : Transition(p, to)
BY DEF LifecycleNext, Advance, Fail, Reject, PluginState

(* A discovered plugin has entered no other state. *)
LEMMA InitPath == LifecycleInit => LifecycleTypeOK /\ PathInv
BY DEF LifecycleInit, LifecycleTypeOK, PathInv, PluginState, Required

(* Every transition extends the path the table prescribes. *)
LEMMA NextPath == LifecycleTypeOK /\ PathInv /\ [LifecycleNext]_lifecycleVars => (LifecycleTypeOK /\ PathInv)'
<1> SUFFICES ASSUME LifecycleTypeOK, PathInv, [LifecycleNext]_lifecycleVars PROVE LifecycleTypeOK' /\ PathInv'
  OBVIOUS
<1>1. CASE UNCHANGED lifecycleVars
  BY <1>1 DEF lifecycleVars, LifecycleTypeOK, PathInv
<1>2. CASE LifecycleNext
  <2>1. PICK p \in Plugins, to \in PluginState : Transition(p, to)
    BY <1>2, NextIsTransition
  <2>2. /\ TransitionAllowed(state[p], to)
        /\ state' = [state EXCEPT ![p] = to]
        /\ seen' = [seen EXCEPT ![p] = IF to = "Discovered" THEN {to} ELSE @ \cup {to}]
    BY <2>1 DEF Transition, Enter
  <2>3. state[p] \in PluginState /\ seen[p] \in SUBSET PluginState
    BY DEF LifecycleTypeOK
  <2>4. LifecycleTypeOK'
    BY <2>2, <2>3 DEF LifecycleTypeOK
  <2>5. ASSUME NEW q \in Plugins, q # p
        PROVE  state'[q] = state[q] /\ seen'[q] = seen[q]
    BY <2>2, <2>5 DEF LifecycleTypeOK
  <2>6. state'[p] = to
    BY <2>2 DEF LifecycleTypeOK
  <2>7. CASE to = "Discovered"
    <3>1. seen'[p] = {"Discovered"}
      BY <2>2, <2>7 DEF LifecycleTypeOK
    <3>2. Required(to) = {}
      BY <2>7 DEF Required
    <3> QED BY <2>4, <2>5, <2>6, <3>1, <3>2 DEF PathInv
  <2>8. CASE to # "Discovered"
    <3>1. seen'[p] = seen[p] \cup {to}
      BY <2>2, <2>8 DEF LifecycleTypeOK
    <3>2. Required(to) \subseteq seen'[p]
      BY <2>2, <2>3, <2>8, <3>1, TableRespectsPath DEF PathInv
    <3>3. seen'[p] \cap {"Rejected", "Failed"} # {}
             => to \in {"Rejected", "Failed", "Unloaded"}
      BY <2>2, <2>3, <2>8, <3>1, TableKeepsTerminal DEF PathInv
    <3> QED BY <2>4, <2>5, <2>6, <3>2, <3>3 DEF PathInv
  <2> QED BY <2>7, <2>8
<1> QED BY <1>1, <1>2

(* Whatever sequence of transition, advance, fail and reject calls is made,  *)
(* a plugin that serves traffic passed every load step since its last        *)
(* discovery, signature verification included, and never failed.             *)
THEOREM NoShortcut == LifecycleSpec => []ServesOnlyLoaded
<1>1. LifecycleTypeOK /\ PathInv => ServesOnlyLoaded
  <2> SUFFICES ASSUME LifecycleTypeOK, PathInv, NEW p \in Plugins, ServesTraffic(state[p])
               PROVE  /\ Required(state[p]) =
                           {"Installed", "Verified", "Compatible", "Configured",
                            "Enabled", "Initialized", "Active"}
                      /\ seen[p] \cap {"Rejected", "Failed"} = {}
    BY DEF ServesOnlyLoaded, PathInv
  <2>1. state[p] \in {"Active", "Degraded"}
    BY DEF ServesTraffic
  <2>2. seen[p] \cap {"Rejected", "Failed"} = {}
    BY <2>1 DEF PathInv
  <2> QED BY <2>1, <2>2 DEF Required
<1> QED BY <1>1, InitPath, NextPath, PTL DEF LifecycleSpec

(* A rejected or failed plugin comes back only through Unloaded and a fresh  *)
(* discovery.                                                                *)
THEOREM TerminalStaysDead == LifecycleSpec => NoResurrection
<1> DEFINE Step == \A p \in Plugins :
              state'[p] # state[p] =>
                /\ IsTerminal(state[p]) => state'[p] = "Unloaded"
                /\ state[p] = "Unloaded" => state'[p] = "Discovered"
<1>1. ASSUME LifecycleTypeOK, LifecycleNext PROVE Step
  <2>1. PICK p \in Plugins, to \in PluginState : Transition(p, to)
    BY <1>1, NextIsTransition
  <2>2. TransitionAllowed(state[p], to) /\ state[p] \in PluginState
    BY <1>1, <2>1 DEF Transition, LifecycleTypeOK
  <2>3. \A q \in Plugins : state'[q] = IF q = p THEN to ELSE state[q]
    BY <1>1, <2>1 DEF Transition, Enter, LifecycleTypeOK
  <2> QED BY <2>2, <2>3, TableKeepsTerminal DEF IsTerminal
<1>2. LifecycleTypeOK /\ [LifecycleNext]_lifecycleVars => [Step]_lifecycleVars
  BY <1>1
<1> QED BY <1>2, InitPath, NextPath, PTL DEF LifecycleSpec, NoResurrection

-------------------------------------------------------------------------------
(* The health prober.                                                       *)

(* The inductive strengthening of DegradedExplained: a failure that is about *)
(* to be marked has its streak, and the operator stores anything but         *)
(* Degraded.                                                                 *)
MarkInv ==
    /\ ppc \in {"mark", "store"} => result \in {"pass", "fail"}
    /\ ppc \in {"mark", "store"} /\ result = "fail" => streak[Id] >= Threshold
    /\ oto # "Degraded"

(* The inductive strengthening of OneLateProbe: a probe begun after the stop *)
(* flag was the last one, for the flag is read before each.                  *)
LateInv ==
    /\ lateProbes \in {0, 1}
    /\ ~StopFlag => lateProbes = 0
    /\ lateProbes = 1 => ppc # "probe"

(* The inductive invariant of the prober. *)
ProberInv == TypeOK /\ DegradedExplained /\ MarkInv /\ LateInv

(* Where the prober has an id in hand, it is one of the list. *)
LEMMA IdListed ==
    ASSUME TypeOK, i <= Len(Listed)
    PROVE  Id \in Plugins /\ i \in Nat /\ Len(Listed) \in Nat
BY ListedAssumption DEF TypeOK, Id

(* A prober that has just started. *)
LEMMA ProberStarts == Init => TypeOK /\ DegradedExplained /\ MarkInv /\ LateInv
BY ListedAssumption, ThresholdAssumption
   DEF Init, TypeOK, Cells, DegradedExplained, MarkInv, LateInv, StopFlag

(* A step between two probes: the prober has no result in hand. *)
LEMMA Between ==
    ASSUME ProberInv, UNCHANGED <<state, streak, result, sick, handle, opVars, lateProbes>>,
           ppc' \in {"head", "each", "probe", "calling", "select", "parked", "stopped"},
           i' \in 1 .. Len(Listed) + 1,
           ppc' \in {"probe", "calling"} => i' <= Len(Listed),
           ppc' = "probe" => ~StopFlag,
           \A p \in Plugins : state[p] = "Degraded" => streak[p] >= Threshold
    PROVE  ProberInv'
<1>1. TypeOK'
  BY DEF ProberInv, TypeOK, opVars
<1>2. DegradedExplained' /\ MarkInv' /\ LateInv'
  BY DEF ProberInv, DegradedExplained, MarkInv, LateInv, StopFlag, opVars
<1> QED BY <1>1, <1>2 DEF ProberInv

(* The prober's own steps. *)
LEMMA ProberStep == ASSUME ProberInv, Prober PROVE ProberInv'
<1> USE ListedAssumption, ThresholdAssumption
<1>0. /\ i \in Nat /\ i \in 1 .. Len(Listed) + 1 /\ Len(Listed) \in Nat /\ Threshold \in Nat
      /\ ppc \in {"probe", "calling", "mark", "store"} => i <= Len(Listed) /\ Id \in Plugins
  BY IdListed DEF ProberInv, TypeOK
<1>1. ASSUME ppc \notin {"mark", "store"}, NEW p \in Plugins, state[p] = "Degraded"
      PROVE  streak[p] >= Threshold
  BY <1>1 DEF ProberInv, DegradedExplained
<1>2. CASE BeginCycle
  BY <1>0, <1>1, <1>2, Between DEF BeginCycle
<1>3. CASE Each
  <2>1. ppc = "each" /\ ppc' \in {"select", "probe"} /\ i' = i
    BY <1>3 DEF Each
  <2>2. ppc' = "probe" => i <= Len(Listed) /\ ~StopFlag
    BY <1>0, <1>3 DEF Each
  <2> QED BY <1>0, <1>1, <1>3, <2>1, <2>2, Between DEF Each
<1>4. CASE ProbeNothing
  <2>1. ppc = "probe" /\ ppc' = "each" /\ i' = i + 1
    BY <1>4 DEF ProbeNothing, NextId
  <2> QED BY <1>0, <1>1, <1>4, <2>1, Between DEF ProbeNothing
<1>5. CASE ProbeCall
  <2>1. /\ ppc = "probe" /\ ppc' = "calling" /\ i' = i
        /\ lateProbes' = IF StopFlag THEN lateProbes + 1 ELSE lateProbes
        /\ UNCHANGED <<state, streak, i, result, sick, handle, opVars>>
    BY <1>5 DEF ProbeCall
  <2>2. lateProbes = 0
    BY <2>1 DEF ProberInv, LateInv
  <2>3. TypeOK'
    BY <1>0, <2>1, <2>2 DEF ProberInv, TypeOK, opVars
  <2>4. DegradedExplained' /\ MarkInv'
    BY <1>1, <2>1 DEF ProberInv, DegradedExplained, MarkInv, opVars
  <2>5. LateInv'
    BY <2>1, <2>2 DEF LateInv, StopFlag
  <2> QED BY <2>3, <2>4, <2>5 DEF ProberInv
<1>6. CASE ProbeFails
  <2> DEFINE n == streak[Id] + 1
  <2>1. /\ ppc = "calling" /\ result' = "fail"
        /\ UNCHANGED <<state, sick, handle, opVars, lateProbes>>
    BY <1>6 DEF ProbeFails
  <2>2. streak[Id] \in 0 .. Threshold /\ n \in Nat /\ streak \in [Plugins -> 0 .. Threshold]
    BY <1>0, <2>1 DEF ProberInv, TypeOK
  <2>3. CASE n >= Threshold
    <3>1. streak' = [streak EXCEPT ![Id] = Threshold] /\ ppc' = "mark" /\ i' = i
      BY <1>6, <2>3 DEF ProbeFails
    <3>2. \A p \in Plugins : streak'[p] = IF p = Id THEN Threshold ELSE streak[p]
      BY <1>0, <2>1, <2>2, <3>1
    <3>3. TypeOK'
      BY <1>0, <2>1, <2>2, <3>1 DEF ProberInv, TypeOK, opVars
    <3>4. DegradedExplained'
      BY <1>0, <1>1, <2>1, <3>2 DEF DegradedExplained
    <3>5. MarkInv'
      BY <1>0, <2>1, <3>1, <3>2 DEF ProberInv, MarkInv, opVars, Id
    <3>6. LateInv'
      BY <2>1, <3>1 DEF ProberInv, LateInv, StopFlag
    <3> QED BY <3>3, <3>4, <3>5, <3>6 DEF ProberInv
  <2>4. CASE ~(n >= Threshold)
    <3>1. streak' = [streak EXCEPT ![Id] = n] /\ ppc' = "each" /\ i' = i + 1
      BY <1>6, <2>4 DEF ProbeFails, NextId
    <3>2. n \in 0 .. Threshold /\ streak[Id] < Threshold
      BY <1>0, <2>2, <2>4
    <3>3. TypeOK'
      BY <1>0, <2>1, <2>2, <3>1, <3>2 DEF ProberInv, TypeOK, opVars
    <3>4. state[Id] # "Degraded"
      <4>1. ~(streak[Id] >= Threshold)
        BY <1>0, <2>2, <3>2
      <4> QED BY <1>0, <1>1, <2>1, <4>1
    <3>5. DegradedExplained'
      <4> SUFFICES ASSUME NEW p \in Plugins, state[p] = "Degraded"
                   PROVE  streak'[p] >= Threshold
        BY <2>1 DEF DegradedExplained
      <4>1. streak'[p] = streak[p]
        BY <2>2, <3>1, <3>4
      <4> QED BY <1>1, <2>1, <4>1
    <3>6. MarkInv' /\ LateInv'
      BY <2>1, <3>1 DEF ProberInv, MarkInv, LateInv, StopFlag, opVars
    <3> QED BY <3>3, <3>5, <3>6 DEF ProberInv
  <2> QED BY <2>3, <2>4
<1>7. CASE ProbePasses
  <2>1. /\ ppc = "calling" /\ result' = "pass" /\ ppc' = "mark" /\ i' = i
        /\ streak' = [streak EXCEPT ![Id] = 0]
        /\ UNCHANGED <<state, sick, handle, opVars, lateProbes>>
    BY <1>7 DEF ProbePasses
  <2>2. streak \in [Plugins -> 0 .. Threshold] /\ 0 \in 0 .. Threshold
    BY <1>0 DEF ProberInv, TypeOK
  <2>3. TypeOK'
    BY <1>0, <2>1, <2>2 DEF ProberInv, TypeOK, opVars
  <2>4. DegradedExplained'
    <3> SUFFICES ASSUME NEW p \in Plugins, state[p] = "Degraded", p # Id
                 PROVE  streak'[p] >= Threshold
      BY <2>1 DEF DegradedExplained, Id
    <3>1. streak'[p] = streak[p]
      BY <2>1, <2>2
    <3> QED BY <1>1, <2>1, <3>1
  <2>5. MarkInv' /\ LateInv'
    BY <2>1 DEF ProberInv, MarkInv, LateInv, StopFlag, opVars
  <2> QED BY <2>3, <2>4, <2>5 DEF ProberInv
<1>8. CASE MarkLoad
  <2>1. ppc = "mark" /\ UNCHANGED <<state, streak, result, sick, handle, opVars, lateProbes>>
    BY <1>8 DEF MarkLoad
  <2>2. CASE state[Id] = MarkFrom
    <3>1. ppc' = "store" /\ i' = i
      BY <1>8, <2>2 DEF MarkLoad
    <3>2. TypeOK'
      BY <1>0, <2>1, <3>1 DEF ProberInv, TypeOK, opVars
    <3>3. DegradedExplained' /\ MarkInv' /\ LateInv'
      BY <2>1, <3>1 DEF ProberInv, DegradedExplained, MarkInv, LateInv, StopFlag, opVars, Id
    <3> QED BY <3>2, <3>3 DEF ProberInv
  <2>3. CASE state[Id] # MarkFrom
    <3>1. ppc' = "each" /\ i' = i + 1
      BY <1>8, <2>3 DEF MarkLoad, NextId
    <3>2. ASSUME NEW p \in Plugins, state[p] = "Degraded" PROVE streak[p] >= Threshold
      BY <2>1, <2>3, <3>2 DEF ProberInv, DegradedExplained, MarkFrom
    <3> QED BY <1>0, <2>1, <3>1, <3>2, Between
  <2> QED BY <2>2, <2>3
<1>9. CASE MarkStore
  <2>1. /\ ppc = "store" /\ ppc' = "each" /\ i' = i + 1
        /\ state' = [state EXCEPT ![Id] = MarkTo]
        /\ UNCHANGED <<streak, result, sick, handle, opVars, lateProbes>>
    BY <1>9 DEF MarkStore, NextId
  <2>2. /\ state \in [Plugins -> Cells] /\ MarkTo \in Cells
        /\ MarkTo = "Degraded" => streak[Id] >= Threshold
    BY <2>1 DEF ProberInv, TypeOK, MarkInv, MarkTo, Cells
  <2>3. TypeOK'
    BY <1>0, <2>1, <2>2 DEF ProberInv, TypeOK, opVars
  <2>4. DegradedExplained'
    <3> SUFFICES ASSUME NEW p \in Plugins, state'[p] = "Degraded"
                 PROVE  streak[p] >= Threshold
      BY <2>1 DEF DegradedExplained
    <3>1. CASE p = Id
      BY <2>1, <2>2, <3>1
    <3>2. CASE p # Id
      <4>1. state[p] = "Degraded"
        BY <2>1, <2>2, <3>2
      <4> QED BY <3>2, <4>1 DEF ProberInv, DegradedExplained
    <3> QED BY <3>1, <3>2
  <2>5. MarkInv' /\ LateInv'
    BY <2>1 DEF ProberInv, MarkInv, LateInv, StopFlag, opVars
  <2> QED BY <2>3, <2>4, <2>5 DEF ProberInv
<1>10. CASE Park
  <2>1. ppc = "select" /\ ppc' = "parked" /\ i' = i
    BY <1>10 DEF Park
  <2> QED BY <1>0, <1>1, <1>10, <2>1, Between DEF Park
<1>11. CASE SleepElapses
  <2>1. ppc = "parked" /\ ppc' = "head" /\ i' = i
    BY <1>11 DEF SleepElapses
  <2> QED BY <1>0, <1>1, <1>11, <2>1, Between DEF SleepElapses
<1> QED BY <1>2, <1>3, <1>4, <1>5, <1>6, <1>7, <1>8, <1>9, <1>10, <1>11 DEF Prober

(* The holder of the handle: a notification wakes the parked prober only. *)
LEMMA HandleStep == ASSUME ProberInv, Nudge \/ StopStore \/ StopNotify PROVE ProberInv'
<1>1. /\ UNCHANGED <<state, streak, i, result, sick, opVars, lateProbes>>
      /\ handle' \in {"held", "stopping", "stopped"}
      /\ ppc' = ppc \/ (ppc = "parked" /\ ppc' = "head")
      /\ handle' = "held" => handle = "held"
  BY DEF Nudge, StopStore, StopNotify, Notify, proberVars
<1>2. TypeOK'
  BY <1>1 DEF ProberInv, TypeOK, opVars
<1>3. DegradedExplained'
  BY <1>1 DEF ProberInv, DegradedExplained, Id
<1>4. MarkInv' /\ LateInv'
  BY <1>1 DEF ProberInv, MarkInv, LateInv, StopFlag, Id, opVars
<1> QED BY <1>2, <1>3, <1>4 DEF ProberInv

(* A plugin falls ill or recovers. *)
LEMMA HealthStep ==
    ASSUME ProberInv, NEW p \in Plugins, Sicken(p) \/ Heal(p)
    PROVE  ProberInv'
<1>1. UNCHANGED <<state, streak, ppc, i, result, handle, opVars, lateProbes>> /\ sick' \subseteq Plugins
  BY DEF Sicken, Heal, proberVars, ProberInv, TypeOK
<1> QED BY <1>1 DEF ProberInv, TypeOK, DegradedExplained, MarkInv, LateInv, StopFlag, Id, opVars

(* The operator never stores Degraded. *)
LEMMA OperatorStep == ASSUME ProberInv, Operator PROVE ProberInv'
<1>1. CASE \E p \in Plugins : Disable(p) \/ Enable(p) \/ MarkDraining(p)
  <2>1. /\ UNCHANGED <<state, streak, ppc, i, result, sick, handle, lateProbes>>
        /\ opc' = "store" /\ oplugin' \in Plugins
        /\ oto' \in {"Disabled", "Active", "Draining"}
    BY <1>1 DEF Disable, Enable, MarkDraining, WillStore, proberVars
  <2>2. TypeOK'
    BY <2>1 DEF ProberInv, TypeOK, Cells
  <2>3. DegradedExplained' /\ MarkInv' /\ LateInv'
    BY <2>1 DEF ProberInv, DegradedExplained, MarkInv, LateInv, StopFlag, Id
  <2> QED BY <2>2, <2>3 DEF ProberInv
<1>2. CASE StoreState
  <2>1. /\ opc = "store" /\ state' = [state EXCEPT ![oplugin] = oto] /\ opc' = "idle"
        /\ oto' = "none" /\ oplugin' = oplugin
        /\ UNCHANGED <<streak, ppc, i, result, sick, handle, lateProbes>>
    BY <1>2 DEF StoreState, proberVars
  <2>2. state \in [Plugins -> Cells] /\ oplugin \in Plugins /\ oto \in Cells /\ oto # "Degraded"
    BY <2>1 DEF ProberInv, TypeOK, MarkInv
  <2>3. TypeOK'
    BY <2>1, <2>2 DEF ProberInv, TypeOK
  <2>4. \A p \in Plugins : state'[p] = "Degraded" => state[p] = "Degraded"
    BY <2>1, <2>2
  <2>5. DegradedExplained' /\ MarkInv' /\ LateInv'
    BY <2>1, <2>4 DEF ProberInv, DegradedExplained, MarkInv, LateInv, StopFlag, Id
  <2> QED BY <2>3, <2>5 DEF ProberInv
<1> QED BY <1>1, <1>2 DEF Operator

(* Every step keeps the prober's invariant. *)
LEMMA ProberKept == ProberInv /\ [Next]_vars => ProberInv'
<1> SUFFICES ASSUME ProberInv, [Next]_vars PROVE ProberInv'
  OBVIOUS
<1>1. CASE UNCHANGED vars
  BY <1>1 DEF vars, proberVars, opVars, ProberInv, TypeOK, DegradedExplained, MarkInv, LateInv,
              StopFlag, Id
<1>2. CASE Next
  BY <1>2, ProberStep, HandleStep, HealthStep, OperatorStep DEF Next
<1> QED BY <1>1, <1>2

(* A plugin is Degraded on the evidence of Threshold consecutive failures    *)
(* and only until a probe passes, whatever the operator stores in the cell   *)
(* between the prober's load and its store (run_prober, mark_degraded,       *)
(* mark_active).                                                             *)
THEOREM DegradedHasReason == Spec => []DegradedExplained
<1>1. ProberInv => DegradedExplained
  BY DEF ProberInv
<1> QED BY <1>1, ProberStarts, ProberKept, PTL DEF Spec, ProberInv

(* After the stop flag is set at most one more probe begins (run_prober).    *)
THEOREM StopIsHonoured == Spec => []OneLateProbe
<1>1. ProberInv => OneLateProbe
  BY DEF ProberInv, LateInv, OneLateProbe
<1> QED BY <1>1, ProberStarts, ProberKept, PTL DEF Spec, ProberInv

(* The prober's variables keep their types, and its index is in the list     *)
(* whenever an id is in hand (run_prober).                                   *)
THEOREM ProberTypeCorrect == Spec => []TypeOK
<1>1. ProberInv => TypeOK
  BY DEF ProberInv
<1> QED BY <1>1, ProberStarts, ProberKept, PTL DEF Spec, ProberInv
===============================================================================
