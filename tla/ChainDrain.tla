------------------------------ MODULE ChainDrain ------------------------------
(***************************************************************************)
(* Chain evaluation racing the operator's lifecycle calls and a graceful   *)
(* drain (registry.rs).                                                    *)
(*                                                                         *)
(*   - A request walks the chain: it reads a plugin's state cell, takes an *)
(*     InflightGuard, awaits the plugin and drops the guard.  The read and *)
(*     the guard are two steps, and so are the two halves of the guard's   *)
(*     drop (fetch_sub, then notify_waiters).                              *)
(*   - An operator thread calls disable / enable / mark_draining /         *)
(*     mark_disabled_after_drain, the health prober mark_degraded /        *)
(*     mark_active.  Each loads the cell and stores it in a second step;   *)
(*     nothing excludes another caller in between.                         *)
(*   - mark_draining hands back a DrainToken whose `wait' loops: load the  *)
(*     counter, check the budget, park on the notifier.                    *)
(***************************************************************************)
EXTENDS PluginLifecycle, Naturals, Sequences, FiniteSets

CONSTANTS
    Chain,      \* registration order of the chain plugins
    Requests,   \* concurrent chain evaluations
    Admins,     \* operator threads
    Probers     \* health-prober tasks

ASSUME ChainAssumption   == Chain \in Seq(Plugins)
ASSUME RequestAssumption == IsFiniteSet(Requests)
ASSUME CallerAssumption  == Admins \cap Probers = {}

Callers == Admins \cup Probers

VARIABLES
    inflight,   \* inflight[p]: InflightTracker.count
    rpc,        \* rpc[r]: where request r is in the loop body
    pos,        \* pos[r]: its index in the chain, 0 when it is not evaluating
    apc,        \* apc[t]: where caller t is in its registry call
    aplugin,    \* aplugin[t]: the plugin that call names
    ato,        \* ato[t]: the state it is about to store, or "none"
    expired,    \* expired[t]: the drain budget of t has run out
    outcome,    \* outcome[t]: DrainOutcome of t's latest wait
    owed,       \* owed[t]: history, the calls in flight when t's drain began
                \* that have not returned
    busyAtPark  \* busyAtPark[t]: history, a call was in flight when t parked

requestVars == <<rpc, pos>>
drainVars   == <<expired, outcome, owed, busyAtPark>>
callerVars  == <<apc, aplugin, ato>>
vars == <<state, inflight, requestVars, callerVars, drainVars>>

At(r) == Chain[pos[r]]

(* The calls the counter of p counts, and those that owe p's waiters a       *)
(* notification.                                                             *)
Calling(p)   == {r \in Requests : rpc[r] = "calling" /\ At(r) = p}
Notifying(p) == {r \in Requests : rpc[r] = "notify"  /\ At(r) = p}

WaitPC == {"wait", "arm", "parked"}

-------------------------------------------------------------------------------
(* Registration stores Active; nothing is in flight. *)
Init ==
    /\ state      = [p \in Plugins |-> "Active"]
    /\ inflight   = [p \in Plugins |-> 0]
    /\ rpc        = [r \in Requests |-> "idle"]
    /\ pos        = [r \in Requests |-> 0]
    /\ apc        = [t \in Callers |-> "idle"]
    /\ aplugin    \in [Callers -> Plugins]
    /\ ato        = [t \in Callers |-> "none"]
    /\ expired    = [t \in Admins |-> FALSE]
    /\ outcome    = [t \in Admins |-> "none"]
    /\ owed       = [t \in Admins |-> {}]
    /\ busyAtPark = [t \in Admins |-> FALSE]

-------------------------------------------------------------------------------
(* Chain evaluation.                                                        *)

StartRequest(r) ==
    /\ rpc[r] = "idle"
    /\ Chain # << >>
    /\ rpc' = [rpc EXCEPT ![r] = "eval"]
    /\ pos' = [pos EXCEPT ![r] = 1]
    /\ UNCHANGED <<state, inflight, callerVars, drainVars>>

(* `continue': on to the next plugin, or the chain is done. *)
NextPlugin(r) ==
    IF pos[r] < Len(Chain)
    THEN rpc' = [rpc EXCEPT ![r] = "eval"] /\ pos' = [pos EXCEPT ![r] = @ + 1]
    ELSE rpc' = [rpc EXCEPT ![r] = "idle"] /\ pos' = [pos EXCEPT ![r] = 0]

(* `return decision': a Deny, Challenge, PendingApproval or Resolved ends    *)
(* the walk here.                                                            *)
ShortCircuit(r) ==
    rpc' = [rpc EXCEPT ![r] = "idle"] /\ pos' = [pos EXCEPT ![r] = 0]

SkipPlugin(r) ==
    /\ rpc[r] = "eval"
    /\ ~ServesTraffic(state[At(r)])
    /\ NextPlugin(r)
    /\ UNCHANGED <<state, inflight, callerVars, drainVars>>

CheckServes(r) ==
    /\ rpc[r] = "eval"
    /\ ServesTraffic(state[At(r)])
    /\ rpc' = [rpc EXCEPT ![r] = "checked"]
    /\ UNCHANGED <<state, inflight, pos, callerVars, drainVars>>

(* InflightGuard::acquire, then the plugin call is awaited. *)
AcquireGuard(r) ==
    /\ rpc[r] = "checked"
    /\ inflight' = [inflight EXCEPT ![At(r)] = @ + 1]
    /\ rpc' = [rpc EXCEPT ![r] = "calling"]
    /\ UNCHANGED <<state, pos, callerVars, drainVars>>

(* Mutant: no guard but a decrement by hand, forgotten on the early return. *)
BadDropGuard(r) ==
    /\ rpc[r] = "calling"
    /\ owed' = [t \in Admins |-> owed[t] \ {r}]
    /\ \/ inflight' = [inflight EXCEPT ![At(r)] = @ - 1] /\ NextPlugin(r)
       \/ inflight' = inflight /\ ShortCircuit(r)
    /\ UNCHANGED <<state, callerVars, expired, outcome, busyAtPark>>

(* Mutant: the value fetch_sub returned is taken for the new count. *)
QuietDropGuard(r) ==
    /\ rpc[r] = "calling"
    /\ inflight' = [inflight EXCEPT ![At(r)] = @ - 1]
    /\ owed' = [t \in Admins |-> owed[t] \ {r}]
    /\ IF inflight[At(r)] = 0
       THEN rpc' = [rpc EXCEPT ![r] = "notify"] /\ pos' = pos
       ELSE NextPlugin(r) \/ ShortCircuit(r)
    /\ UNCHANGED <<state, callerVars, expired, outcome, busyAtPark>>

(* First half of the guard's drop: the call is over (it returned, panicked   *)
(* or its future was dropped) and fetch_sub ran.                             *)
DropGuard(r) ==
    /\ rpc[r] = "calling"
    /\ inflight' = [inflight EXCEPT ![At(r)] = @ - 1]
    /\ owed' = [t \in Admins |-> owed[t] \ {r}]
    /\ IF inflight[At(r)] = 1
       THEN rpc' = [rpc EXCEPT ![r] = "notify"] /\ pos' = pos
       ELSE NextPlugin(r) \/ ShortCircuit(r)
    /\ UNCHANGED <<state, callerVars, expired, outcome, busyAtPark>>

(* Second half, when the counter fell to zero: notify_waiters wakes exactly  *)
(* the tasks parked now and stores no permit for a later one.                *)
NotifyWaiters(r) ==
    /\ rpc[r] = "notify"
    /\ apc' = [t \in Callers |->
                 IF apc[t] = "parked" /\ aplugin[t] = At(r)
                 THEN "wait" ELSE apc[t]]
    /\ NextPlugin(r) \/ ShortCircuit(r)
    /\ UNCHANGED <<state, inflight, aplugin, ato, drainVars>>

-------------------------------------------------------------------------------
(* Lifecycle calls.  Each of the six actions below is the load half: a       *)
(* refused call returns an error and changes nothing.                        *)

WillStore(t, p, to) ==
    /\ apc' = [apc EXCEPT ![t] = "store"]
    /\ aplugin' = [aplugin EXCEPT ![t] = p]
    /\ ato' = [ato EXCEPT ![t] = to]

Disable(t, p) ==
    /\ t \in Admins /\ apc[t] = "idle"
    /\ TransitionAllowed(state[p], "Disabled")
    /\ WillStore(t, p, "Disabled")
    /\ UNCHANGED <<state, inflight, requestVars, drainVars>>

Enable(t, p) ==
    /\ t \in Admins /\ apc[t] = "idle"
    /\ state[p] = "Disabled"
    /\ WillStore(t, p, "Active")
    /\ outcome' = [outcome EXCEPT ![t] = "none"]
    /\ UNCHANGED <<state, inflight, requestVars, expired, owed, busyAtPark>>

MarkDisabledAfterDrain(t, p) ==
    /\ t \in Admins /\ apc[t] = "idle"
    /\ state[p] = "Draining"
    /\ WillStore(t, p, "Disabled")
    /\ UNCHANGED <<state, inflight, requestVars, drainVars>>

MarkDegraded(t, p) ==
    /\ t \in Probers /\ apc[t] = "idle"
    /\ state[p] = "Active"
    /\ WillStore(t, p, "Degraded")
    /\ UNCHANGED <<state, inflight, requestVars, drainVars>>

MarkActive(t, p) ==
    /\ t \in Probers /\ apc[t] = "idle"
    /\ state[p] = "Degraded"
    /\ WillStore(t, p, "Active")
    /\ UNCHANGED <<state, inflight, requestVars, drainVars>>

(* The caller holds a DrainToken for p and enters `wait'. *)
BeginWait(t, p) ==
    /\ apc' = [apc EXCEPT ![t] = "wait"]
    /\ outcome' = [outcome EXCEPT ![t] = "none"]
    /\ owed' = [owed EXCEPT ![t] = Calling(p)]
    /\ UNCHANGED <<expired, busyAtPark>>

(* Idempotent: a plugin that is Draining already only gets a new token. *)
MarkDraining(t, p) ==
    /\ t \in Admins /\ apc[t] = "idle"
    /\ \/ /\ state[p] \in {"Active", "Degraded"}
          /\ WillStore(t, p, "Draining")
          /\ UNCHANGED drainVars
       \/ /\ state[p] = "Draining"
          /\ BeginWait(t, p)
          /\ aplugin' = [aplugin EXCEPT ![t] = p]
          /\ UNCHANGED ato
    /\ UNCHANGED <<state, inflight, requestVars>>

(* The store half of all six. *)
StoreState(t) ==
    /\ apc[t] = "store"
    /\ state' = [state EXCEPT ![aplugin[t]] = ato[t]]
    /\ ato' = [ato EXCEPT ![t] = "none"]
    /\ IF ato[t] = "Draining"
       THEN BeginWait(t, aplugin[t])
       ELSE apc' = [apc EXCEPT ![t] = "idle"] /\ UNCHANGED drainVars
    /\ UNCHANGED <<inflight, requestVars, aplugin>>

-------------------------------------------------------------------------------
(* DrainToken::wait.                                                        *)

Return(t, result) ==
    /\ apc' = [apc EXCEPT ![t] = "idle"]
    /\ outcome' = [outcome EXCEPT ![t] = result]
    /\ expired' = [expired EXCEPT ![t] = FALSE]

(* Mutant: one call too many is overlooked. *)
BadWaitLoad(t) ==
    /\ t \in Admins /\ apc[t] = "wait"
    /\ IF inflight[aplugin[t]] <= 1
       THEN Return(t, "completed")
       ELSE apc' = [apc EXCEPT ![t] = "arm"] /\ UNCHANGED <<outcome, expired>>
    /\ UNCHANGED <<state, inflight, requestVars, aplugin, ato, owed, busyAtPark>>

(* Loop head: load the counter. *)
WaitLoad(t) ==
    /\ t \in Admins /\ apc[t] = "wait"
    /\ IF inflight[aplugin[t]] = 0
       THEN Return(t, "completed")
       ELSE apc' = [apc EXCEPT ![t] = "arm"] /\ UNCHANGED <<outcome, expired>>
    /\ UNCHANGED <<state, inflight, requestVars, aplugin, ato, owed, busyAtPark>>

(* Out of budget, or create the Notified future and park on it. *)
WaitArm(t) ==
    /\ t \in Admins /\ apc[t] = "arm"
    /\ IF expired[t]
       THEN Return(t, "timedout") /\ UNCHANGED busyAtPark
       ELSE /\ apc' = [apc EXCEPT ![t] = "parked"]
            /\ busyAtPark' = [busyAtPark EXCEPT ![t] = inflight[aplugin[t]] > 0]
            /\ UNCHANGED <<outcome, expired>>
    /\ UNCHANGED <<state, inflight, requestVars, aplugin, ato, owed>>

(* Mutant: the notification is awaited without a timeout. *)
BadWaitTimeout(t) == t \notin Admins

(* tokio::time::timeout fires on a parked waiter. *)
WaitTimeout(t) ==
    /\ t \in Admins /\ apc[t] = "parked"
    /\ expired[t]
    /\ Return(t, "timedout")
    /\ UNCHANGED <<state, inflight, requestVars, aplugin, ato, owed, busyAtPark>>

(* The clock passes the caller's deadline. *)
BudgetExpires(t) ==
    /\ t \in Admins /\ apc[t] \in WaitPC
    /\ ~expired[t]
    /\ expired' = [expired EXCEPT ![t] = TRUE]
    /\ UNCHANGED <<state, inflight, requestVars, callerVars, outcome, owed,
                   busyAtPark>>

-------------------------------------------------------------------------------
RequestStep(r) ==
    \/ StartRequest(r) \/ SkipPlugin(r) \/ CheckServes(r)
    \/ AcquireGuard(r) \/ DropGuard(r) \/ NotifyWaiters(r)

CallerStep(t) ==
    \/ \E p \in Plugins :
          \/ Disable(t, p) \/ Enable(t, p) \/ MarkDraining(t, p)
          \/ MarkDisabledAfterDrain(t, p) \/ MarkDegraded(t, p)
          \/ MarkActive(t, p)
    \/ StoreState(t)

WaitStep(t) == WaitLoad(t) \/ WaitArm(t) \/ WaitTimeout(t)

Next ==
    \/ \E r \in Requests : RequestStep(r)
    \/ \E t \in Callers : CallerStep(t)
    \/ \E t \in Admins : WaitStep(t) \/ BudgetExpires(t)

Spec == Init /\ [][Next]_vars

(* The runtime keeps running synchronous code and ready tasks, and time      *)
(* passes.  No fairness on DropGuard (a plugin call may hang), on            *)
(* StartRequest or on the operators' and the prober's calls.                 *)
Fairness ==
    \A t \in Admins : WF_vars(WaitStep(t)) /\ WF_vars(BudgetExpires(t))

FairSpec == Spec /\ Fairness

-------------------------------------------------------------------------------
TypeOK ==
    /\ state \in [Plugins -> {"Active", "Degraded", "Disabled", "Draining"}]
    /\ inflight \in [Plugins -> Nat]
    /\ rpc \in [Requests -> {"idle", "eval", "checked", "calling", "notify"}]
    /\ pos \in [Requests -> Nat]
    /\ \A r \in Requests : rpc[r] # "idle" => pos[r] \in 1 .. Len(Chain)
    /\ apc \in [Callers -> {"idle", "store", "wait", "arm", "parked"}]
    /\ aplugin \in [Callers -> Plugins]
    /\ ato \in [Callers -> {"none", "Active", "Degraded", "Disabled", "Draining"}]
    /\ \A t \in Callers : apc[t] = "store" => ato[t] # "none"
    /\ expired \in [Admins -> BOOLEAN]
    /\ outcome \in [Admins -> {"none", "completed", "timedout"}]
    /\ owed \in [Admins -> SUBSET Requests]
    /\ busyAtPark \in [Admins -> BOOLEAN]

(* The counter a drain trusts is exact: it is the number of requests between *)
(* acquire and drop, on every path out of the loop body, so it neither leaks *)
(* nor falls below the calls that are running.                               *)
InflightExact ==
    \A p \in Plugins : inflight[p] = Cardinality(Calling(p))

(* Completed is sound for the calls the drain was started for: every call    *)
(* that was in flight when mark_draining returned its token has returned     *)
(* once wait answers Completed.                                              *)
CompletedDrainsOwed ==
    \A t \in Admins : outcome[t] = "completed" => owed[t] = {}

(* A waiter that parked while a call was running is not left behind: if the  *)
(* counter is zero, the request that took it there has yet to notify.        *)
WakeupDelivered ==
    \A t \in Admins :
        apc[t] = "parked" /\ busyAtPark[t] /\ inflight[aplugin[t]] = 0
            => Notifying(aplugin[t]) # {}

(* The counter, the notifier and the wait loop implement the contract of     *)
(* module DrainContract: Completed only when the calls the drain was begun   *)
(* for have returned, and an answer in any case.                             *)
Contract == INSTANCE DrainContract
    WITH calls   <- [p \in Plugins |-> Calling(p)],
         waiting <- [t \in Admins |-> apc[t] \in WaitPC]

ImplementsContract == Contract!FairSpec

-------------------------------------------------------------------------------
(* What the sources say and the interleavings refute.                       *)

(* A drain that Completed leaves the plugin without running calls until its  *)
(* operator enables it or drains it again.                                   *)
CompletedDrainIsQuiet ==
    \A t \in Admins : outcome[t] = "completed" => Calling(aplugin[t]) = {}

(* The prober does not bring a Disabled plugin back. *)
ProberNeverResurrects ==
    [][ \A t \in Probers :
          StoreState(t) => state[aplugin[t]] # "Disabled" ]_vars
================================================================================
