---------------------------- MODULE DrainContract ----------------------------
(***************************************************************************)
(* What a graceful drain promises its operator, without the counter, the   *)
(* notifier and the state cell: the host knows the set of calls running    *)
(* inside each plugin; a drain is owed the calls running when it begins;   *)
(* it may answer Completed only when all of them have returned, and it     *)
(* answers eventually.  ChainDrain implements this contract.               *)
(***************************************************************************)
CONSTANTS Plugins, Requests, Admins

VARIABLES
    calls,      \* calls[p]: the requests running inside plugin p
    waiting,    \* waiting[t]: operator t waits for a drain
    owed,       \* owed[t]: the calls t's drain was begun for, still running
    outcome     \* outcome[t]: what t's latest wait answered

vars == <<calls, waiting, owed, outcome>>

Init ==
    /\ calls   = [p \in Plugins |-> {}]
    /\ waiting = [t \in Admins |-> FALSE]
    /\ owed    = [t \in Admins |-> {}]
    /\ outcome = [t \in Admins |-> "none"]

StartCall(r, p) ==
    /\ \A q \in Plugins : r \notin calls[q]
    /\ calls' = [calls EXCEPT ![p] = @ \cup {r}]
    /\ UNCHANGED <<waiting, owed, outcome>>

EndCall(r, p) ==
    /\ r \in calls[p]
    /\ calls' = [calls EXCEPT ![p] = @ \ {r}]
    /\ owed' = [t \in Admins |-> owed[t] \ {r}]
    /\ UNCHANGED <<waiting, outcome>>

BeginDrain(t, p) ==
    /\ ~waiting[t]
    /\ waiting' = [waiting EXCEPT ![t] = TRUE]
    /\ owed' = [owed EXCEPT ![t] = calls[p]]
    /\ outcome' = [outcome EXCEPT ![t] = "none"]
    /\ UNCHANGED calls

Answer(t, result) ==
    /\ waiting[t]
    /\ waiting' = [waiting EXCEPT ![t] = FALSE]
    /\ outcome' = [outcome EXCEPT ![t] = result]
    /\ UNCHANGED <<calls, owed>>

Complete(t) == owed[t] = {} /\ Answer(t, "completed")
TimeOut(t)  == Answer(t, "timedout")

(* The operator enables the plugin again: its answer is history. *)
Forget(t) ==
    /\ ~waiting[t]
    /\ outcome' = [outcome EXCEPT ![t] = "none"]
    /\ UNCHANGED <<calls, waiting, owed>>

Next ==
    \/ \E r \in Requests, p \in Plugins : StartCall(r, p) \/ EndCall(r, p)
    \/ \E t \in Admins, p \in Plugins : BeginDrain(t, p)
    \/ \E t \in Admins : Complete(t) \/ TimeOut(t) \/ Forget(t)

Spec == Init /\ [][Next]_vars

FairSpec == Spec /\ \A t \in Admins : WF_vars(Complete(t) \/ TimeOut(t))
================================================================================
