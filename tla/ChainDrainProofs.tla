--------------------------- MODULE ChainDrainProofs ---------------------------
(***************************************************************************)
(* Proofs about ChainDrain, for every chain and every finite set of        *)
(* requests, operators and probers.                                        *)
(***************************************************************************)
EXTENDS ChainDrain, FiniteSetTheorems, TLAPS

-------------------------------------------------------------------------------
(* Helpers. *)

(* A request that is evaluating stands at a plugin of the chain. *)
LEMMA AtPlugin ==
    ASSUME TypeOK, NEW r \in Requests, rpc[r] # "idle"
    PROVE  At(r) \in Plugins
BY ChainAssumption DEF TypeOK, At

(* Where the loop goes after a plugin: the request no longer stands at it as *)
(* a checked, calling or notifying one, and every other request is left alone. *)
LEMMA LeaveFacts ==
    ASSUME TypeOK, NEW r \in Requests, rpc[r] # "idle",
           NextPlugin(r) \/ ShortCircuit(r)
    PROVE  /\ rpc' \in [Requests -> {"idle", "eval", "checked", "calling", "notify"}]
           /\ pos' \in [Requests -> Nat]
           /\ rpc'[r] \in {"idle", "eval"}
           /\ rpc'[r] # "idle" => pos'[r] \in 1 .. Len(Chain)
           /\ \A q \in Requests \ {r} : rpc'[q] = rpc[q] /\ pos'[q] = pos[q]
<1>0. Len(Chain) \in Nat
  BY ChainAssumption
<1>1. CASE NextPlugin(r)
  <2>1. pos[r] \in Nat /\ pos[r] >= 1
    BY <1>0 DEF TypeOK
  <2>2. CASE pos[r] < Len(Chain)
    <3>1. /\ rpc' = [rpc EXCEPT ![r] = "eval"]
          /\ pos' = [pos EXCEPT ![r] = @ + 1]
      BY <1>1, <2>2 DEF NextPlugin
    <3>2. pos[r] + 1 \in 1 .. Len(Chain)
      BY <1>0, <2>1, <2>2
    <3> QED BY <2>1, <3>1, <3>2 DEF TypeOK
  <2>3. CASE ~(pos[r] < Len(Chain))
    <3>1. ShortCircuit(r)
      BY <1>1, <2>3 DEF NextPlugin, ShortCircuit
    <3> QED BY <3>1 DEF TypeOK, ShortCircuit
  <2> QED BY <2>2, <2>3
<1>2. CASE ShortCircuit(r)
  BY <1>2 DEF TypeOK, ShortCircuit
<1> QED BY <1>1, <1>2

(* The calls of a plugin are a finite set, so the counter is a number and is *)
(* positive while a call runs.                                               *)
LEMMA CallingFinite ==
    ASSUME NEW p PROVE IsFiniteSet(Calling(p))
BY RequestAssumption, FS_Subset DEF Calling

(* The counter of a plugin is positive while a call runs in it. *)
LEMMA CallingCounted ==
    ASSUME TypeOK, InflightExact, NEW r \in Requests, rpc[r] = "calling"
    PROVE  At(r) \in Plugins /\ inflight[At(r)] \in Nat /\ inflight[At(r)] >= 1
<1>1. At(r) \in Plugins
  BY AtPlugin
<1>2. r \in Calling(At(r)) /\ IsFiniteSet(Calling(At(r)))
  BY CallingFinite DEF Calling
<1>3. Cardinality(Calling(At(r))) \in Nat /\ Cardinality(Calling(At(r))) # 0
  BY <1>2, FS_EmptySet, FS_CardinalityType
<1> QED BY <1>1, <1>3 DEF InflightExact

(* With a zero counter, no call runs. *)
LEMMA ZeroIsQuiet ==
    ASSUME InflightExact, NEW p \in Plugins, inflight[p] = 0
    PROVE  Calling(p) = {}
BY CallingFinite, FS_EmptySet DEF InflightExact

-------------------------------------------------------------------------------
(* Type correctness.  The counter stays a natural number because it is       *)
(* exact.                                                                    *)

(* Registration leaves every variable in its type. *)
LEMMA InitType == Init => TypeOK
BY DEF Init, TypeOK, Callers

(* Every step keeps the type; the counter, being exact, stays a natural. *)
LEMMA NextType == TypeOK /\ InflightExact /\ [Next]_vars => TypeOK'
<1> SUFFICES ASSUME TypeOK, InflightExact, [Next]_vars PROVE TypeOK'
  OBVIOUS
<1> USE DEF TypeOK, requestVars, drainVars, callerVars
<1>0. Len(Chain) \in Nat
  BY ChainAssumption
<1>1. ASSUME NEW r \in Requests, StartRequest(r) PROVE TypeOK'
  <2>1. Len(Chain) >= 1
    BY <1>1, ChainAssumption DEF StartRequest
  <2> QED BY <1>0, <1>1, <2>1 DEF StartRequest
<1>2. ASSUME NEW r \in Requests, SkipPlugin(r) PROVE TypeOK'
  BY <1>2, LeaveFacts DEF SkipPlugin
<1>3. ASSUME NEW r \in Requests, CheckServes(r) PROVE TypeOK'
  BY <1>3 DEF CheckServes
<1>4. ASSUME NEW r \in Requests, AcquireGuard(r) PROVE TypeOK'
  BY <1>4, AtPlugin DEF AcquireGuard
<1>5. ASSUME NEW r \in Requests, DropGuard(r) PROVE TypeOK'
  <2>1. At(r) \in Plugins /\ inflight[At(r)] - 1 \in Nat
    BY <1>5, CallingCounted DEF DropGuard
  <2>2. inflight' \in [Plugins -> Nat]
    BY <1>5, <2>1 DEF DropGuard
  <2>3. owed' \in [Admins -> SUBSET Requests]
    BY <1>5 DEF DropGuard
  <2>4. CASE inflight[At(r)] = 1
    BY <1>5, <2>2, <2>3, <2>4 DEF DropGuard
  <2>5. CASE inflight[At(r)] # 1
    <3>1. NextPlugin(r) \/ ShortCircuit(r)
      BY <1>5, <2>5 DEF DropGuard
    <3> QED BY <1>5, <2>2, <2>3, <3>1, LeaveFacts DEF DropGuard
  <2> QED BY <2>4, <2>5
<1>6. ASSUME NEW r \in Requests, NotifyWaiters(r) PROVE TypeOK'
  BY <1>6, LeaveFacts DEF NotifyWaiters
<1>7. ASSUME NEW t \in Callers, NEW p \in Plugins, Disable(t, p) PROVE TypeOK'
  BY <1>7 DEF Disable, WillStore
<1>8. ASSUME NEW t \in Callers, NEW p \in Plugins, Enable(t, p) PROVE TypeOK'
  BY <1>8 DEF Enable, WillStore
<1>9. ASSUME NEW t \in Callers, NEW p \in Plugins, MarkDraining(t, p)
      PROVE  TypeOK'
  <2>1. CASE state[p] \in {"Active", "Degraded"} /\ WillStore(t, p, "Draining")
             /\ UNCHANGED drainVars
    BY <1>9, <2>1 DEF MarkDraining, WillStore
  <2>2. CASE BeginWait(t, p) /\ aplugin' = [aplugin EXCEPT ![t] = p]
             /\ UNCHANGED ato
    BY <1>9, <2>2 DEF MarkDraining, BeginWait, Calling
  <2> QED BY <1>9, <2>1, <2>2 DEF MarkDraining
<1>10. ASSUME NEW t \in Callers, NEW p \in Plugins, MarkDisabledAfterDrain(t, p)
       PROVE  TypeOK'
  BY <1>10 DEF MarkDisabledAfterDrain, WillStore
<1>11. ASSUME NEW t \in Callers, NEW p \in Plugins, MarkDegraded(t, p)
       PROVE  TypeOK'
  BY <1>11 DEF MarkDegraded, WillStore
<1>12. ASSUME NEW t \in Callers, NEW p \in Plugins, MarkActive(t, p)
       PROVE  TypeOK'
  BY <1>12 DEF MarkActive, WillStore
<1>13. ASSUME NEW t \in Callers, StoreState(t) PROVE TypeOK'
  <2>1. state' \in [Plugins -> {"Active", "Degraded", "Disabled", "Draining"}]
    BY <1>13 DEF StoreState
  <2>2. CASE ato[t] = "Draining"
    <3>1. BeginWait(t, aplugin[t])
      BY <1>13, <2>2 DEF StoreState
    <3>2. Calling(aplugin[t]) \in SUBSET Requests
      BY DEF Calling
    <3> QED BY <1>13, <2>1, <3>1, <3>2 DEF StoreState, BeginWait
  <2>3. CASE ato[t] # "Draining"
    <3>1. apc' = [apc EXCEPT ![t] = "idle"] /\ UNCHANGED drainVars
      BY <1>13, <2>3 DEF StoreState
    <3> QED BY <1>13, <2>1, <3>1 DEF StoreState
  <2> QED BY <2>2, <2>3
<1>14. ASSUME NEW t \in Admins, WaitLoad(t) PROVE TypeOK'
  <2>1. CASE Return(t, "completed")
    BY <1>14, <2>1 DEF WaitLoad, Return, Callers
  <2>2. CASE apc' = [apc EXCEPT ![t] = "arm"] /\ UNCHANGED <<outcome, expired>>
    BY <1>14, <2>2 DEF WaitLoad, Callers
  <2> QED BY <1>14, <2>1, <2>2 DEF WaitLoad
<1>15. ASSUME NEW t \in Admins, WaitArm(t) PROVE TypeOK'
  <2>1. CASE expired[t]
    <3>1. Return(t, "timedout") /\ UNCHANGED busyAtPark
      BY <1>15, <2>1 DEF WaitArm
    <3> QED BY <1>15, <3>1 DEF WaitArm, Return, Callers
  <2>2. CASE ~expired[t]
    <3>1. /\ apc' = [apc EXCEPT ![t] = "parked"]
          /\ busyAtPark' = [busyAtPark EXCEPT ![t] = inflight[aplugin[t]] > 0]
          /\ UNCHANGED <<outcome, expired>>
      BY <1>15, <2>2 DEF WaitArm
    <3>2. busyAtPark' \in [Admins -> BOOLEAN]
      BY <3>1
    <3> QED BY <1>15, <3>1, <3>2 DEF WaitArm, Callers
  <2> QED BY <2>1, <2>2
<1>16. ASSUME NEW t \in Admins, WaitTimeout(t) PROVE TypeOK'
  BY <1>16 DEF WaitTimeout, Return, Callers
<1>17. ASSUME NEW t \in Admins, BudgetExpires(t) PROVE TypeOK'
  BY <1>17 DEF BudgetExpires
<1>18. CASE UNCHANGED vars
  BY <1>18 DEF vars
<1> QED
  BY <1>1, <1>2, <1>3, <1>4, <1>5, <1>6, <1>7, <1>8, <1>9, <1>10, <1>11, <1>12,
     <1>13, <1>14, <1>15, <1>16, <1>17, <1>18
  DEF Next, RequestStep, CallerStep, WaitStep

-------------------------------------------------------------------------------
(* How a step moves the requests between Calling and Notifying.             *)

(* A step of r moves no other request. *)
LEMMA OthersStay ==
    ASSUME NEW r \in Requests, NEW p,
           \A q \in Requests \ {r} : rpc'[q] = rpc[q] /\ pos'[q] = pos[q]
    PROVE  /\ Calling(p)' \ {r} = Calling(p) \ {r}
           /\ Notifying(p)' \ {r} = Notifying(p) \ {r}
BY DEF Calling, Notifying, At

(* A step before the guard is taken changes nobody's call: the request       *)
(* starts, skips a plugin that does not serve, or passes the check.          *)
LEMMA BeforeGuard ==
    ASSUME TypeOK, NEW r \in Requests,
           StartRequest(r) \/ SkipPlugin(r) \/ CheckServes(r), NEW p
    PROVE  Calling(p)' = Calling(p) /\ Notifying(p)' = Notifying(p)
<1>1. /\ rpc[r] \in {"idle", "eval"}
      /\ rpc'[r] \in {"idle", "eval", "checked"}
      /\ \A q \in Requests \ {r} : rpc'[q] = rpc[q] /\ pos'[q] = pos[q]
  <2>1. CASE StartRequest(r)
    BY <2>1 DEF StartRequest, TypeOK
  <2>2. CASE SkipPlugin(r)
    BY <2>2, LeaveFacts DEF SkipPlugin
  <2>3. CASE CheckServes(r)
    BY <2>3 DEF CheckServes, TypeOK
  <2> QED BY <2>1, <2>2, <2>3
<1>2. /\ r \notin Calling(p) /\ r \notin Calling(p)'
      /\ r \notin Notifying(p) /\ r \notin Notifying(p)'
  BY <1>1 DEF Calling, Notifying
<1> QED BY <1>1, <1>2, OthersStay

(* acquire puts the request among the calls of its plugin. *)
LEMMA AcquireMoves ==
    ASSUME TypeOK, NEW r \in Requests, AcquireGuard(r), NEW p
    PROVE  /\ r \notin Calling(p)
           /\ Calling(p)' = IF p = At(r) THEN Calling(p) \cup {r} ELSE Calling(p)
           /\ Notifying(p)' = Notifying(p)
<1>1. /\ rpc[r] = "checked" /\ rpc'[r] = "calling" /\ At(r)' = At(r)
      /\ \A q \in Requests \ {r} : rpc'[q] = rpc[q] /\ pos'[q] = pos[q]
  BY DEF AcquireGuard, TypeOK, At
<1>2. /\ r \notin Calling(p)
      /\ r \in Calling(p)' <=> p = At(r)
      /\ r \notin Notifying(p) /\ r \notin Notifying(p)'
  BY <1>1 DEF Calling, Notifying
<1> QED BY <1>1, <1>2, OthersStay

(* The drop takes it out again, on every path out of the loop body, and the  *)
(* request that takes the counter to zero owes a notification.               *)
LEMMA DropMoves ==
    ASSUME TypeOK, NEW r \in Requests, DropGuard(r), NEW p
    PROVE  /\ r \in Calling(p) <=> p = At(r)
           /\ Calling(p)' = IF p = At(r) THEN Calling(p) \ {r} ELSE Calling(p)
           /\ Notifying(p) \subseteq Notifying(p)'
           /\ p = At(r) /\ inflight[p] = 1 => r \in Notifying(p)'
<1>1. /\ rpc[r] = "calling" /\ rpc'[r] \in {"idle", "eval", "notify"}
      /\ \A q \in Requests \ {r} : rpc'[q] = rpc[q] /\ pos'[q] = pos[q]
      /\ inflight[At(r)] = 1 => rpc'[r] = "notify" /\ At(r)' = At(r)
  <2>1. CASE inflight[At(r)] = 1
    <3>1. rpc[r] = "calling" /\ rpc' = [rpc EXCEPT ![r] = "notify"] /\ pos' = pos
      BY <2>1 DEF DropGuard
    <3> QED BY <3>1 DEF TypeOK, At
  <2>2. CASE inflight[At(r)] # 1
    <3>1. rpc[r] = "calling" /\ (NextPlugin(r) \/ ShortCircuit(r))
      BY <2>2 DEF DropGuard
    <3> QED BY <2>2, <3>1, LeaveFacts
  <2> QED BY <2>1, <2>2
<1>2. /\ r \in Calling(p) <=> p = At(r)
      /\ r \notin Calling(p)'
      /\ r \notin Notifying(p)
      /\ p = At(r) /\ inflight[p] = 1 => r \in Notifying(p)'
  BY <1>1 DEF Calling, Notifying
<1> QED BY <1>1, <1>2, OthersStay

(* Only the plugin that was notified loses a notifier. *)
LEMMA NotifyMoves ==
    ASSUME TypeOK, NEW r \in Requests, NotifyWaiters(r), NEW p
    PROVE  /\ Calling(p)' = Calling(p)
           /\ p # At(r) => Notifying(p)' = Notifying(p)
<1>1. /\ rpc[r] = "notify" /\ rpc'[r] \in {"idle", "eval"}
      /\ \A q \in Requests \ {r} : rpc'[q] = rpc[q] /\ pos'[q] = pos[q]
  BY LeaveFacts DEF NotifyWaiters
<1>2. /\ r \notin Calling(p) /\ r \notin Calling(p)'
      /\ r \notin Notifying(p)'
      /\ p # At(r) => r \notin Notifying(p)
  BY <1>1 DEF Calling, Notifying
<1> QED BY <1>1, <1>2, OthersStay

(* Registry calls and waits move no request. *)
LEMMA RequestsStay ==
    ASSUME UNCHANGED requestVars, NEW p
    PROVE  /\ Calling(p)' = Calling(p)
           /\ Notifying(p)' = Notifying(p)
BY DEF requestVars, Calling, Notifying, At

-------------------------------------------------------------------------------
(* The counter is exact.                                                    *)

(* Nothing is in flight at the start. *)
LEMMA InitExact == Init => InflightExact
<1> SUFFICES ASSUME Init, NEW p \in Plugins
             PROVE  inflight[p] = Cardinality(Calling(p))
  BY DEF InflightExact
<1>1. Calling(p) = {}
  BY DEF Init, Calling
<1> QED BY <1>1, FS_EmptySet DEF Init

(* acquire and drop keep the counter and the set of calls in step. *)
LEMMA NextExact == TypeOK /\ InflightExact /\ [Next]_vars => InflightExact'
<1> SUFFICES ASSUME TypeOK, InflightExact, [Next]_vars, NEW p \in Plugins
             PROVE  inflight'[p] = Cardinality(Calling(p)')
  BY DEF InflightExact
<1>0. /\ inflight[p] = Cardinality(Calling(p))
      /\ IsFiniteSet(Calling(p)) /\ inflight \in [Plugins -> Nat]
  BY CallingFinite DEF InflightExact, TypeOK
<1>1. ASSUME NEW r \in Requests,
             StartRequest(r) \/ SkipPlugin(r) \/ CheckServes(r)
      PROVE  inflight'[p] = Cardinality(Calling(p)')
  <2>1. inflight' = inflight
    BY <1>1 DEF StartRequest, SkipPlugin, CheckServes
  <2> QED BY <1>0, <1>1, <2>1, BeforeGuard
<1>2. ASSUME NEW r \in Requests, AcquireGuard(r)
      PROVE  inflight'[p] = Cardinality(Calling(p)')
  <2>1. CASE p = At(r)
    <3>1. Calling(p)' = Calling(p) \cup {r} /\ r \notin Calling(p)
      BY <1>2, <2>1, AcquireMoves
    <3>2. Cardinality(Calling(p) \cup {r}) = Cardinality(Calling(p)) + 1
      BY <1>0, <3>1, FS_AddElement
    <3> QED BY <1>0, <1>2, <2>1, <3>1, <3>2 DEF AcquireGuard
  <2>2. CASE p # At(r)
    <3>1. Calling(p)' = Calling(p)
      BY <1>2, <2>2, AcquireMoves
    <3> QED BY <1>0, <1>2, <2>2, <3>1 DEF AcquireGuard
  <2> QED BY <2>1, <2>2
<1>3. ASSUME NEW r \in Requests, DropGuard(r)
      PROVE  inflight'[p] = Cardinality(Calling(p)')
  <2>1. CASE p = At(r)
    <3>1. Calling(p)' = Calling(p) \ {r} /\ r \in Calling(p)
      BY <1>3, <2>1, DropMoves
    <3>2. Cardinality(Calling(p) \ {r}) = Cardinality(Calling(p)) - 1
      BY <1>0, <3>1, FS_RemoveElement
    <3> QED BY <1>0, <1>3, <2>1, <3>1, <3>2 DEF DropGuard
  <2>2. CASE p # At(r)
    <3>1. Calling(p)' = Calling(p)
      BY <1>3, <2>2, DropMoves
    <3> QED BY <1>0, <1>3, <2>2, <3>1 DEF DropGuard
  <2> QED BY <2>1, <2>2
<1>4. ASSUME NEW r \in Requests, NotifyWaiters(r)
      PROVE  inflight'[p] = Cardinality(Calling(p)')
  BY <1>0, <1>4, NotifyMoves DEF NotifyWaiters
<1>5. CASE UNCHANGED <<inflight, requestVars>>
  BY <1>0, <1>5, RequestsStay
<1>6. ASSUME NEW t \in Callers, CallerStep(t)
      PROVE  UNCHANGED <<inflight, requestVars>>
  BY <1>6 DEF CallerStep, Disable, Enable, MarkDraining, MarkDisabledAfterDrain,
              MarkDegraded, MarkActive, StoreState
<1>7. ASSUME NEW t \in Admins, WaitStep(t) \/ BudgetExpires(t)
      PROVE  UNCHANGED <<inflight, requestVars>>
  BY <1>7 DEF WaitStep, WaitLoad, WaitArm, WaitTimeout, BudgetExpires
<1>8. CASE UNCHANGED vars
  BY <1>5, <1>8 DEF vars
<1> QED
  BY <1>1, <1>2, <1>3, <1>4, <1>5, <1>6, <1>7, <1>8 DEF Next, RequestStep

(* Every state of every behaviour is well typed; the cell only ever holds    *)
(* the four runtime states.                                                  *)
THEOREM TypeCorrect == Spec => []TypeOK
<1>1. Init => TypeOK /\ InflightExact
  BY InitType, InitExact
<1>2. TypeOK /\ InflightExact /\ [Next]_vars => (TypeOK /\ InflightExact)'
  BY NextType, NextExact
<1> QED BY <1>1, <1>2, PTL DEF Spec

(* The in-flight counter a drain trusts equals the number of running calls   *)
(* (InflightGuard::acquire and its Drop), whatever the chain, the number of  *)
(* requests and the interleaving.                                            *)
THEOREM CounterExact == Spec => []InflightExact
<1>1. Init => TypeOK /\ InflightExact
  BY InitType, InitExact
<1>2. TypeOK /\ InflightExact /\ [Next]_vars => (TypeOK /\ InflightExact)'
  BY NextType, NextExact
<1> QED BY <1>1, <1>2, PTL DEF Spec

-------------------------------------------------------------------------------
(* The drain invariants.  CompletedDrainsOwed is not inductive: it needs     *)
(* that a waiter's owed calls are among those its counter counts.            *)

OwedCounted ==
    \A t \in Admins : apc[t] \in WaitPC => owed[t] \subseteq Calling(aplugin[t])

(* The inductive invariant. *)
IInv ==
    /\ TypeOK
    /\ InflightExact
    /\ OwedCounted
    /\ CompletedDrainsOwed
    /\ WakeupDelivered

(* No drain has begun and nobody is parked at the start. *)
LEMMA InitIInv == Init => IInv
<1> SUFFICES ASSUME Init PROVE IInv
  OBVIOUS
<1>1. \A t \in Admins : apc[t] = "idle" /\ outcome[t] = "none"
  BY DEF Init, Callers
<1> QED BY <1>1, InitType, InitExact
        DEF IInv, OwedCounted, CompletedDrainsOwed, WakeupDelivered, WaitPC

(* A step of a request. *)
LEMMA RequestIInv ==
    ASSUME IInv, NEW r \in Requests, RequestStep(r)
    PROVE  (OwedCounted /\ CompletedDrainsOwed /\ WakeupDelivered)'
<1> USE DEF IInv
<1>1. CASE StartRequest(r) \/ SkipPlugin(r) \/ CheckServes(r)
  <2>1. UNCHANGED <<inflight, callerVars, drainVars>>
    BY <1>1 DEF StartRequest, SkipPlugin, CheckServes
  <2>2. \A p : Calling(p)' = Calling(p) /\ Notifying(p)' = Notifying(p)
    BY <1>1, BeforeGuard
  <2> QED BY <2>1, <2>2
          DEF OwedCounted, CompletedDrainsOwed, WakeupDelivered, callerVars, drainVars
<1>2. CASE AcquireGuard(r)
  <2>1. UNCHANGED <<callerVars, drainVars>>
    BY <1>2 DEF AcquireGuard
  <2>2. \A p : Calling(p) \subseteq Calling(p)' /\ Notifying(p)' = Notifying(p)
    BY <1>2, AcquireMoves
  <2>3. \A p \in Plugins : inflight'[p] = 0 => inflight[p] = 0
    BY <1>2 DEF AcquireGuard, TypeOK
  <2>4. \A t \in Admins : aplugin[t] \in Plugins
    BY DEF TypeOK, Callers
  <2> QED BY <2>1, <2>2, <2>3, <2>4
          DEF OwedCounted, CompletedDrainsOwed, WakeupDelivered, callerVars, drainVars
<1>3. CASE DropGuard(r)
  <2>1. UNCHANGED <<callerVars, outcome, busyAtPark>>
    BY <1>3 DEF DropGuard
  <2>2. \A t \in Admins : owed'[t] = owed[t] \ {r}
    BY <1>3 DEF DropGuard
  <2>3. \A p : /\ Calling(p) \ {r} \subseteq Calling(p)'
               /\ Notifying(p) \subseteq Notifying(p)'
    BY <1>3, DropMoves
  <2>4. OwedCounted' /\ CompletedDrainsOwed'
    BY <2>1, <2>2, <2>3 DEF OwedCounted, CompletedDrainsOwed, callerVars
  <2>5. ASSUME NEW p \in Plugins, inflight'[p] = 0
        PROVE  inflight[p] = 0 \/ Notifying(p)' # {}
    <3>1. CASE p = At(r)
      <4>1. inflight[p] = 1
        BY <1>3, <2>5, <3>1 DEF DropGuard, TypeOK
      <4> QED BY <1>3, <3>1, <4>1, DropMoves
    <3>2. CASE p # At(r)
      BY <1>3, <2>5, <3>2 DEF DropGuard, TypeOK
    <3> QED BY <3>1, <3>2
  <2>6. \A t \in Admins : aplugin[t] \in Plugins
    BY DEF TypeOK, Callers
  <2>7. WakeupDelivered'
    BY <2>1, <2>3, <2>5, <2>6 DEF WakeupDelivered, callerVars
  <2> QED BY <2>4, <2>7
<1>4. CASE NotifyWaiters(r)
  <2>1. UNCHANGED <<inflight, aplugin, drainVars>>
    BY <1>4 DEF NotifyWaiters
  <2>2. \A t \in Admins :
           /\ apc'[t] \in WaitPC => apc[t] \in WaitPC
           /\ apc'[t] = "parked" => apc[t] = "parked" /\ aplugin[t] # At(r)
    BY <1>4 DEF NotifyWaiters, WaitPC, Callers
  <2>3. \A p : /\ Calling(p)' = Calling(p)
               /\ p # At(r) => Notifying(p)' = Notifying(p)
    BY <1>4, NotifyMoves
  <2> QED BY <2>1, <2>2, <2>3
          DEF OwedCounted, CompletedDrainsOwed, WakeupDelivered, drainVars
<1> QED BY <1>1, <1>2, <1>3, <1>4 DEF RequestStep

(* A lifecycle call: the load half starts no wait or starts one owed the     *)
(* calls of now, and so does the store half of mark_draining.                *)
LEMMA BeginWaitIInv ==
    ASSUME IInv, NEW t \in Callers, NEW p \in Plugins, BeginWait(t, p),
           aplugin' = [aplugin EXCEPT ![t] = p] \/ (aplugin' = aplugin /\ p = aplugin[t]),
           UNCHANGED <<inflight, requestVars>>
    PROVE  (OwedCounted /\ CompletedDrainsOwed /\ WakeupDelivered)'
<1> USE DEF IInv
<1>1. \A q : Calling(q)' = Calling(q) /\ Notifying(q)' = Notifying(q)
  BY RequestsStay
<1>2. ASSUME NEW u \in Admins, u # t
      PROVE  /\ apc'[u] = apc[u] /\ aplugin'[u] = aplugin[u]
             /\ outcome'[u] = outcome[u] /\ owed'[u] = owed[u]
             /\ busyAtPark'[u] = busyAtPark[u]
  BY <1>2 DEF BeginWait, TypeOK, Callers
<1>3. t \in Admins => /\ apc'[t] = "wait" /\ aplugin'[t] = p
                      /\ outcome'[t] = "none" /\ owed'[t] = Calling(p)
  BY DEF BeginWait, TypeOK, Callers
<1>4. OwedCounted'
  BY <1>1, <1>2, <1>3 DEF OwedCounted
<1>5. CompletedDrainsOwed'
  BY <1>2, <1>3 DEF CompletedDrainsOwed
<1>6. WakeupDelivered'
  BY <1>1, <1>2, <1>3 DEF WakeupDelivered
<1> QED BY <1>4, <1>5, <1>6

(* A registry call, load half or store half, keeps the invariant. *)
LEMMA CallerIInv ==
    ASSUME IInv, NEW t \in Callers, CallerStep(t)
    PROVE  (OwedCounted /\ CompletedDrainsOwed /\ WakeupDelivered)'
<1> USE DEF IInv
<1>0. UNCHANGED <<inflight, requestVars>>
  BY DEF CallerStep, Disable, Enable, MarkDraining, MarkDisabledAfterDrain,
         MarkDegraded, MarkActive, StoreState
<1>1. \A q : Calling(q)' = Calling(q) /\ Notifying(q)' = Notifying(q)
  BY <1>0, RequestsStay
<1>2. ASSUME \A u \in Admins :
                /\ owed'[u] = owed[u] /\ busyAtPark'[u] = busyAtPark[u]
                /\ outcome'[u] \in {outcome[u], "none"}
                /\ \/ apc'[u] = apc[u] /\ aplugin'[u] = aplugin[u]
                   \/ apc'[u] \in {"store", "idle"}
      PROVE  (OwedCounted /\ CompletedDrainsOwed /\ WakeupDelivered)'
  BY <1>0, <1>1, <1>2
     DEF OwedCounted, CompletedDrainsOwed, WakeupDelivered, WaitPC
<1>3. ASSUME NEW p \in Plugins, NEW s, WillStore(t, p, s), UNCHANGED drainVars
      PROVE  (OwedCounted /\ CompletedDrainsOwed /\ WakeupDelivered)'
  BY <1>2, <1>3 DEF WillStore, drainVars, TypeOK, Callers
<1>4. ASSUME NEW p \in Plugins, Enable(t, p)
      PROVE  (OwedCounted /\ CompletedDrainsOwed /\ WakeupDelivered)'
  BY <1>2, <1>4 DEF Enable, WillStore, TypeOK, Callers
<1>5. ASSUME NEW p \in Plugins, MarkDraining(t, p)
      PROVE  (OwedCounted /\ CompletedDrainsOwed /\ WakeupDelivered)'
  <2>1. CASE WillStore(t, p, "Draining") /\ UNCHANGED drainVars
    BY <1>3, <2>1
  <2>2. CASE BeginWait(t, p) /\ aplugin' = [aplugin EXCEPT ![t] = p]
    BY <1>0, <2>2, BeginWaitIInv
  <2> QED BY <1>5, <2>1, <2>2 DEF MarkDraining
<1>6. CASE StoreState(t)
  <2>1. aplugin[t] \in Plugins /\ aplugin' = aplugin
    BY <1>6 DEF StoreState, TypeOK
  <2>2. CASE BeginWait(t, aplugin[t])
    BY <1>0, <2>1, <2>2, BeginWaitIInv
  <2>3. CASE apc' = [apc EXCEPT ![t] = "idle"] /\ UNCHANGED drainVars
    BY <1>2, <2>1, <2>3 DEF drainVars, TypeOK, Callers
  <2> QED BY <1>6, <2>2, <2>3 DEF StoreState
<1>7. ASSUME NEW p \in Plugins,
             \/ Disable(t, p) \/ MarkDisabledAfterDrain(t, p)
             \/ MarkDegraded(t, p) \/ MarkActive(t, p)
      PROVE  (OwedCounted /\ CompletedDrainsOwed /\ WakeupDelivered)'
  <2>1. UNCHANGED drainVars
    BY <1>7 DEF Disable, MarkDisabledAfterDrain, MarkDegraded, MarkActive
  <2>2. \E s : WillStore(t, p, s)
    BY <1>7 DEF Disable, MarkDisabledAfterDrain, MarkDegraded, MarkActive
  <2> QED BY <1>3, <2>1, <2>2
<1> QED BY <1>4, <1>5, <1>6, <1>7 DEF CallerStep

(* A step of a wait.  Completed is answered on a zero counter, when no call  *)
(* runs; parking records whether one does.                                   *)
LEMMA WaitIInv ==
    ASSUME IInv, NEW t \in Admins, WaitStep(t) \/ BudgetExpires(t)
    PROVE  (OwedCounted /\ CompletedDrainsOwed /\ WakeupDelivered)'
<1> USE DEF IInv
<1>0. /\ UNCHANGED <<inflight, requestVars, aplugin, owed>>
      /\ apc[t] \in WaitPC /\ t \in Callers /\ aplugin[t] \in Plugins
  BY DEF WaitStep, WaitLoad, WaitArm, WaitTimeout, BudgetExpires, callerVars,
         WaitPC, TypeOK, Callers
<1>1. \A q : Calling(q)' = Calling(q) /\ Notifying(q)' = Notifying(q)
  BY <1>0, RequestsStay
<1>2. ASSUME \A u \in Admins \ {t} :
                /\ apc'[u] = apc[u] /\ outcome'[u] = outcome[u]
                /\ busyAtPark'[u] = busyAtPark[u],
             outcome'[t] = "completed" => owed[t] = {},
             apc'[t] = "parked" /\ busyAtPark'[t] /\ inflight[aplugin[t]] = 0
                => Notifying(aplugin[t]) # {}
      PROVE  (OwedCounted /\ CompletedDrainsOwed /\ WakeupDelivered)'
  BY <1>0, <1>1, <1>2 DEF OwedCounted, CompletedDrainsOwed, WakeupDelivered
<1>3. outcome[t] = "completed" => owed[t] = {}
  BY DEF CompletedDrainsOwed
<1>4. CASE WaitLoad(t)
  <2>1. CASE inflight[aplugin[t]] = 0
    <3>1. owed[t] = {}
      BY <1>0, <2>1, ZeroIsQuiet DEF OwedCounted
    <3>2. Return(t, "completed") /\ busyAtPark' = busyAtPark
      BY <1>4, <2>1 DEF WaitLoad
    <3> QED BY <1>0, <1>2, <3>1, <3>2 DEF Return, TypeOK, Callers
  <2>2. CASE inflight[aplugin[t]] # 0
    <3>1. apc' = [apc EXCEPT ![t] = "arm"] /\ UNCHANGED <<outcome, busyAtPark>>
      BY <1>4, <2>2 DEF WaitLoad
    <3> QED BY <1>0, <1>2, <1>3, <3>1 DEF TypeOK, Callers
  <2> QED BY <2>1, <2>2
<1>5. CASE WaitArm(t)
  <2>1. CASE expired[t]
    <3>1. Return(t, "timedout") /\ busyAtPark' = busyAtPark
      BY <1>5, <2>1 DEF WaitArm
    <3> QED BY <1>0, <1>2, <3>1 DEF Return, TypeOK, Callers
  <2>2. CASE ~expired[t]
    <3>1. /\ apc' = [apc EXCEPT ![t] = "parked"]
          /\ busyAtPark' = [busyAtPark EXCEPT ![t] = inflight[aplugin[t]] > 0]
          /\ outcome' = outcome
      BY <1>5, <2>2 DEF WaitArm
    <3>2. busyAtPark'[t] => inflight[aplugin[t]] # 0
      <4>1. busyAtPark'[t] = (inflight[aplugin[t]] > 0)
        BY <3>1, Zenon DEF TypeOK
      <4>2. inflight[aplugin[t]] > 0 => inflight[aplugin[t]] # 0
        BY <1>0 DEF TypeOK
      <4> QED BY <4>1, <4>2, Zenon
    <3>3. \A u \in Admins \ {t} : /\ apc'[u] = apc[u] /\ outcome'[u] = outcome[u]
                                  /\ busyAtPark'[u] = busyAtPark[u]
      BY <3>1 DEF TypeOK, Callers
    <3> QED BY <1>2, <1>3, <3>1, <3>2, <3>3
  <2> QED BY <2>1, <2>2
<1>6. CASE WaitTimeout(t)
  BY <1>0, <1>2, <1>6 DEF WaitTimeout, Return, TypeOK, Callers
<1>7. CASE BudgetExpires(t)
  BY <1>0, <1>1, <1>7
     DEF BudgetExpires, OwedCounted, CompletedDrainsOwed, WakeupDelivered, callerVars
<1> QED BY <1>4, <1>5, <1>6, <1>7 DEF WaitStep

(* Every step keeps the inductive invariant. *)
LEMMA NextIInv == IInv /\ [Next]_vars => IInv'
<1> SUFFICES ASSUME IInv, [Next]_vars PROVE IInv'
  OBVIOUS
<1>1. TypeOK' /\ InflightExact'
  BY NextType, NextExact DEF IInv
<1>2. (OwedCounted /\ CompletedDrainsOwed /\ WakeupDelivered)'
  <2>1. CASE UNCHANGED vars
    <3>1. \A q : Calling(q)' = Calling(q) /\ Notifying(q)' = Notifying(q)
      BY <2>1, RequestsStay DEF vars
    <3> QED BY <2>1, <3>1 DEF vars, callerVars, drainVars, IInv, OwedCounted,
                              CompletedDrainsOwed, WakeupDelivered
  <2> QED BY <2>1, RequestIInv, CallerIInv, WaitIInv DEF Next
<1> QED BY <1>1, <1>2 DEF IInv

(* DrainToken::wait answers Completed only when every call that was running  *)
(* when mark_draining returned the token has returned.                       *)
THEOREM DrainSound == Spec => []CompletedDrainsOwed
<1>1. IInv => CompletedDrainsOwed
  BY DEF IInv
<1> QED BY <1>1, InitIInv, NextIInv, PTL DEF Spec

(* A waiter that parked while a call was running is still going to be        *)
(* notified when the counter is found at zero: the fetch_sub and the         *)
(* notify_waiters of InflightGuard::drop lose no waiter between them.        *)
THEOREM WakeupSound == Spec => []WakeupDelivered
<1>1. IInv => WakeupDelivered
  BY DEF IInv
<1> QED BY <1>1, InitIInv, NextIInv, PTL DEF Spec

-------------------------------------------------------------------------------
(* Refinement.  The abstract calls are the counted ones, an operator waits   *)
(* while it is inside DrainToken::wait.                                      *)

calls   == [p \in Plugins |-> Calling(p)]
waiting == [t \in Admins |-> apc[t] \in WaitPC]

(* A step that moves no call and starts or ends no wait is a stutter.        *)
LEMMA StutterStep ==
    ASSUME \A p \in Plugins : Calling(p)' = Calling(p),
           \A t \in Admins : (apc'[t] \in WaitPC) = (apc[t] \in WaitPC),
           UNCHANGED <<owed, outcome>>
    PROVE  UNCHANGED Contract!vars
<1>1. calls' = calls
  BY DEF calls
<1>2. waiting' = waiting
  BY Zenon DEF waiting
<1> QED BY <1>1, <1>2 DEF Contract!vars, calls, waiting

(* Entering `wait' is the beginning of a drain owed the calls of now.        *)
LEMMA BeginStep ==
    ASSUME IInv, NEW t \in Callers, NEW p \in Plugins,
           apc[t] \in {"idle", "store"}, BeginWait(t, p), UNCHANGED requestVars
    PROVE  Contract!Next \/ UNCHANGED Contract!vars
<1> USE DEF IInv
<1>1. \A q : Calling(q)' = Calling(q)
  BY RequestsStay
<1>2. calls' = calls
  BY <1>1 DEF calls
<1>3. CASE t \in Admins
  <2>1. ~waiting[t]
    BY <1>3 DEF waiting, WaitPC
  <2>2. waiting' = [waiting EXCEPT ![t] = TRUE]
    <3>1. \A u \in Admins : apc'[u] = IF u = t THEN "wait" ELSE apc[u]
      BY DEF BeginWait, TypeOK, Callers
    <3>2. "wait" \in WaitPC
      BY DEF WaitPC
    <3>3. \A u \in Admins : waiting'[u] = [waiting EXCEPT ![t] = TRUE][u]
      BY <3>1, <3>2 DEF waiting
    <3> QED BY <3>3 DEF waiting
  <2>3. /\ owed' = [owed EXCEPT ![t] = calls[p]]
        /\ outcome' = [outcome EXCEPT ![t] = "none"]
    BY DEF BeginWait, calls
  <2>4. Contract!BeginDrain(t, p)
    BY <1>2, <2>1, <2>2, <2>3 DEF Contract!BeginDrain, calls, waiting
  <2> QED BY <1>3, <2>4 DEF Contract!Next
<1>4. CASE t \notin Admins
  <2>1. UNCHANGED <<owed, outcome>>
    BY <1>4 DEF BeginWait, TypeOK
  <2>2. \A u \in Admins : apc'[u] = apc[u]
    BY <1>4 DEF BeginWait, TypeOK, Callers
  <2> QED BY <1>1, <2>1, <2>2, StutterStep
<1> QED BY <1>3, <1>4

(* Leaving `wait' is the answer. *)
LEMMA ReturnStep ==
    ASSUME IInv, NEW t \in Admins, apc[t] \in WaitPC,
           NEW result, Return(t, result), UNCHANGED <<requestVars, owed>>
    PROVE  Contract!Answer(t, result)
<1> USE DEF IInv
<1>1. \A q : Calling(q)' = Calling(q)
  BY RequestsStay
<1>2. calls' = calls
  BY <1>1 DEF calls
<1>3. waiting[t]
  BY DEF waiting
<1>4. waiting' = [waiting EXCEPT ![t] = FALSE]
  <2>1. \A u \in Admins : apc'[u] = IF u = t THEN "idle" ELSE apc[u]
    BY DEF Return, TypeOK, Callers
  <2>2. ASSUME NEW u \in Admins
        PROVE  (apc'[u] \in WaitPC) = [waiting EXCEPT ![t] = FALSE][u]
    <3>1. CASE u = t
      <4>1. [waiting EXCEPT ![t] = FALSE][u] = FALSE
        BY <3>1 DEF waiting
      <4>2. (apc'[u] \in WaitPC) = FALSE
        BY <2>1, <3>1 DEF WaitPC
      <4> QED BY <4>1, <4>2
    <3>2. CASE u # t
      BY <2>1, <3>2 DEF waiting
    <3> QED BY <3>1, <3>2
  <2> QED BY <2>2 DEF waiting
<1> QED BY <1>2, <1>3, <1>4 DEF Contract!Answer, Return, calls, waiting

(* A step of a request starts a call, ends one, or is a stutter. *)
LEMMA RequestRefines ==
    ASSUME IInv, NEW r \in Requests, RequestStep(r)
    PROVE  Contract!Next \/ UNCHANGED Contract!vars
<1> USE DEF IInv
<1>1. CASE StartRequest(r) \/ SkipPlugin(r) \/ CheckServes(r)
  <2>1. UNCHANGED <<callerVars, drainVars>>
    BY <1>1 DEF StartRequest, SkipPlugin, CheckServes
  <2>2. \A p : Calling(p)' = Calling(p)
    BY <1>1, BeforeGuard
  <2> QED BY <2>1, <2>2, StutterStep DEF callerVars, drainVars
<1>2. CASE AcquireGuard(r)
  <2>1. At(r) \in Plugins
    BY <1>2, AtPlugin DEF AcquireGuard
  <2>2. \A p : /\ r \notin Calling(p)
               /\ Calling(p)' = IF p = At(r) THEN Calling(p) \cup {r} ELSE Calling(p)
    BY <1>2, AcquireMoves
  <2>3. calls' = [calls EXCEPT ![At(r)] = @ \cup {r}]
    BY <2>1, <2>2 DEF calls
  <2>4. \A p \in Plugins : r \notin calls[p]
    BY <2>2 DEF calls
  <2>5. waiting' = waiting /\ UNCHANGED <<owed, outcome>>
    BY <1>2 DEF AcquireGuard, callerVars, drainVars, waiting
  <2>6. Contract!StartCall(r, At(r))
    BY <2>3, <2>4, <2>5 DEF Contract!StartCall, calls, waiting
  <2> QED BY <2>1, <2>6 DEF Contract!Next
<1>3. CASE DropGuard(r)
  <2>1. At(r) \in Plugins
    BY <1>3, AtPlugin DEF DropGuard
  <2>2. \A p : /\ r \in Calling(p) <=> p = At(r)
               /\ Calling(p)' = IF p = At(r) THEN Calling(p) \ {r} ELSE Calling(p)
    BY <1>3, DropMoves
  <2>3. calls' = [calls EXCEPT ![At(r)] = @ \ {r}]
    BY <2>1, <2>2 DEF calls
  <2>4. r \in calls[At(r)]
    BY <2>1, <2>2 DEF calls
  <2>5. /\ waiting' = waiting /\ UNCHANGED outcome
        /\ owed' = [t \in Admins |-> owed[t] \ {r}]
    BY <1>3 DEF DropGuard, callerVars, waiting
  <2>6. Contract!EndCall(r, At(r))
    BY <2>3, <2>4, <2>5 DEF Contract!EndCall, calls, waiting
  <2> QED BY <2>1, <2>6 DEF Contract!Next
<1>4. CASE NotifyWaiters(r)
  <2>1. UNCHANGED <<owed, outcome>>
    BY <1>4 DEF NotifyWaiters, drainVars
  <2>2. \A t \in Admins : (apc'[t] \in WaitPC) = (apc[t] \in WaitPC)
    BY <1>4 DEF NotifyWaiters, WaitPC, Callers
  <2>3. \A p : Calling(p)' = Calling(p)
    BY <1>4, NotifyMoves
  <2> QED BY <2>1, <2>2, <2>3, StutterStep
<1> QED BY <1>1, <1>2, <1>3, <1>4 DEF RequestStep

(* A registry call begins a drain, forgets an answer, or is a stutter. *)
LEMMA CallerRefines ==
    ASSUME IInv, NEW t \in Callers, CallerStep(t)
    PROVE  Contract!Next \/ UNCHANGED Contract!vars
<1> USE DEF IInv
<1>0. UNCHANGED requestVars
  BY DEF CallerStep, Disable, Enable, MarkDraining, MarkDisabledAfterDrain,
         MarkDegraded, MarkActive, StoreState
<1>1. \A q : Calling(q)' = Calling(q)
  BY <1>0, RequestsStay
<1>2. ASSUME NEW p \in Plugins, NEW s, apc[t] = "idle", WillStore(t, p, s)
      PROVE  \A u \in Admins : (apc'[u] \in WaitPC) = (apc[u] \in WaitPC)
  BY <1>2 DEF WillStore, WaitPC, TypeOK, Callers
<1>3. ASSUME NEW p \in Plugins, NEW s, apc[t] = "idle", WillStore(t, p, s),
             UNCHANGED drainVars
      PROVE  UNCHANGED Contract!vars
  BY <1>1, <1>2, <1>3, StutterStep DEF drainVars
<1>4. ASSUME NEW p \in Plugins, Enable(t, p) PROVE Contract!Next
  <2>1. /\ t \in Admins /\ apc[t] = "idle" /\ owed' = owed
        /\ outcome' = [outcome EXCEPT ![t] = "none"]
        /\ WillStore(t, p, "Active")
    BY <1>4 DEF Enable
  <2>2. \A u \in Admins : (apc'[u] \in WaitPC) = (apc[u] \in WaitPC)
    BY <1>2, <2>1
  <2>3. waiting' = waiting /\ ~waiting[t]
    BY <2>1, <2>2 DEF waiting, WaitPC
  <2>4. calls' = calls
    BY <1>1 DEF calls
  <2>5. Contract!Forget(t)
    BY <2>1, <2>3, <2>4 DEF Contract!Forget, calls, waiting
  <2> QED BY <2>1, <2>5 DEF Contract!Next
<1>5. ASSUME NEW p \in Plugins, MarkDraining(t, p)
      PROVE  Contract!Next \/ UNCHANGED Contract!vars
  <2>1. CASE WillStore(t, p, "Draining") /\ UNCHANGED drainVars
    BY <1>3, <1>5, <2>1 DEF MarkDraining
  <2>2. CASE BeginWait(t, p)
    BY <1>0, <1>5, <2>2, BeginStep DEF MarkDraining
  <2> QED BY <1>5, <2>1, <2>2 DEF MarkDraining
<1>6. CASE StoreState(t)
  <2>1. aplugin[t] \in Plugins /\ apc[t] = "store"
    BY <1>6 DEF StoreState, TypeOK
  <2>2. CASE BeginWait(t, aplugin[t])
    BY <1>0, <2>1, <2>2, BeginStep
  <2>3. CASE apc' = [apc EXCEPT ![t] = "idle"] /\ UNCHANGED drainVars
    <3>1. \A u \in Admins : (apc'[u] \in WaitPC) = (apc[u] \in WaitPC)
      BY <2>1, <2>3 DEF WaitPC, TypeOK, Callers
    <3> QED BY <1>1, <2>3, <3>1, StutterStep DEF drainVars
  <2> QED BY <1>6, <2>2, <2>3 DEF StoreState
<1>7. ASSUME NEW p \in Plugins,
             \/ Disable(t, p) \/ MarkDisabledAfterDrain(t, p)
             \/ MarkDegraded(t, p) \/ MarkActive(t, p)
      PROVE  UNCHANGED Contract!vars
  <2>1. UNCHANGED drainVars /\ apc[t] = "idle"
    BY <1>7 DEF Disable, MarkDisabledAfterDrain, MarkDegraded, MarkActive
  <2>2. \E s : WillStore(t, p, s)
    BY <1>7 DEF Disable, MarkDisabledAfterDrain, MarkDegraded, MarkActive
  <2> QED BY <1>3, <2>1, <2>2
<1> QED BY <1>4, <1>5, <1>6, <1>7 DEF CallerStep

(* A step of `wait' answers the drain or is a stutter. *)
LEMMA WaitRefines ==
    ASSUME IInv, NEW t \in Admins, WaitStep(t) \/ BudgetExpires(t)
    PROVE  Contract!Next \/ UNCHANGED Contract!vars
<1> USE DEF IInv
<1>0. /\ UNCHANGED <<requestVars, owed>>
      /\ apc[t] \in WaitPC /\ t \in Callers /\ aplugin[t] \in Plugins
  BY DEF WaitStep, WaitLoad, WaitArm, WaitTimeout, BudgetExpires, callerVars,
         WaitPC, TypeOK, Callers
<1>1. \A q : Calling(q)' = Calling(q)
  BY <1>0, RequestsStay
<1>2. ASSUME Return(t, "timedout") PROVE Contract!Next
  BY <1>0, <1>2, ReturnStep DEF Contract!Next, Contract!TimeOut
<1>3. ASSUME NEW pc \in WaitPC, apc' = [apc EXCEPT ![t] = pc], UNCHANGED outcome
      PROVE  UNCHANGED Contract!vars
  <2>1. \A u \in Admins : (apc'[u] \in WaitPC) = (apc[u] \in WaitPC)
    BY <1>0, <1>3 DEF TypeOK, Callers
  <2> QED BY <1>0, <1>1, <1>3, <2>1, StutterStep
<1>4. CASE WaitLoad(t)
  <2>1. CASE inflight[aplugin[t]] = 0
    <3>1. owed[t] = {}
      BY <1>0, <2>1, ZeroIsQuiet DEF OwedCounted
    <3>2. Return(t, "completed")
      BY <1>4, <2>1 DEF WaitLoad
    <3> QED BY <1>0, <3>1, <3>2, ReturnStep DEF Contract!Next, Contract!Complete
  <2>2. CASE inflight[aplugin[t]] # 0
    BY <1>3, <1>4, <2>2 DEF WaitLoad, WaitPC
  <2> QED BY <2>1, <2>2
<1>5. CASE WaitArm(t)
  <2>1. CASE expired[t]
    BY <1>2, <1>5, <2>1 DEF WaitArm
  <2>2. CASE ~expired[t]
    BY <1>3, <1>5, <2>2 DEF WaitArm, WaitPC
  <2> QED BY <2>1, <2>2
<1>6. CASE WaitTimeout(t)
  BY <1>2, <1>6 DEF WaitTimeout
<1>7. CASE BudgetExpires(t)
  BY <1>0, <1>1, <1>7, StutterStep DEF BudgetExpires, callerVars
<1> QED BY <1>4, <1>5, <1>6, <1>7 DEF WaitStep

(* The counter, the split guard drop and the wait loop of registry.rs        *)
(* implement the safety part of the drain contract: an operator is answered  *)
(* Completed only when the calls its drain was begun for have returned.      *)
THEOREM DrainRefinement == Spec => Contract!Spec
<1>1. Init => Contract!Init
  <2> SUFFICES ASSUME Init PROVE Contract!Init
    OBVIOUS
  <2>1. \A p \in Plugins : Calling(p) = {}
    BY DEF Init, Calling
  <2>2. calls = [p \in Plugins |-> {}]
    BY <2>1 DEF calls
  <2>3. \A t \in Admins : (apc[t] \in WaitPC) = FALSE
    BY DEF Init, WaitPC, Callers
  <2>4. waiting = [t \in Admins |-> FALSE]
    BY <2>3 DEF waiting
  <2> QED BY <2>2, <2>4 DEF Init, Contract!Init, calls, waiting
<1>2. IInv /\ [Next]_vars => [Contract!Next]_(Contract!vars)
  <2> SUFFICES ASSUME IInv, [Next]_vars
               PROVE  Contract!Next \/ UNCHANGED Contract!vars
    OBVIOUS
  <2>1. CASE UNCHANGED vars
    <3>1. \A q : Calling(q)' = Calling(q)
      BY <2>1, RequestsStay DEF vars
    <3> QED BY <2>1, <3>1, StutterStep DEF vars, callerVars, drainVars
  <2> QED BY <2>1, RequestRefines, CallerRefines, WaitRefines DEF Next
<1> QED BY <1>1, <1>2, InitIInv, NextIInv, PTL DEF Spec, Contract!Spec
================================================================================
