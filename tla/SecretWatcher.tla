---------------------------- MODULE SecretWatcher ----------------------------
(***************************************************************************)
(* The secret-rotation watch loops (secret_watcher.rs): one task per       *)
(* secret_ref that debounces the provider's rotation events and fans the   *)
(* latest version out, and SecretWatcherSet::cancel, which stops the tasks *)
(* and joins them.                                                         *)
(*                                                                         *)
(* The biased select polls cancel, then the timer, then the stream; each   *)
(* poll is a step, so a cancel or a deadline may fall between two of them. *)
(***************************************************************************)
EXTENDS Naturals, Sequences

CONSTANTS
    Refs,           \* watched secret_refs
    Reported,       \* versions a provider may report
    Numeric,        \* those that parse as a u64; any other is read as 0
    None,           \* Option::None
    Callers,        \* tasks that call cancel()
    Droppable,      \* callers whose future may be dropped while it waits
    MaxQueue        \* bound: events a provider stream buffers

ASSUME VersionAssumption == Reported \subseteq Nat \ {0} /\ Numeric \subseteq Reported
ASSUME NoneAssumption    == None \notin Nat
ASSUME CallerAssumption  == Droppable \subseteq Callers
ASSUME QueueAssumption   == MaxQueue \in Nat \ {0}

ParseVersion(v) == IF v \in Numeric THEN v ELSE 0

VARIABLES
    queue,      \* queue[u]: events on the provider's stream
    ended,      \* ended[u]: the provider closed the stream
    tpc,        \* tpc[u]: where the watch task is
    latest,     \* latest[u]: version seen but not fanned out
    timer,      \* timer[u]: next_fire, "off", "armed" or "due"
    calling,    \* calling[u]: version the running callback was given
    cancelled,  \* the CancellationToken
    handles,    \* join handles still in the Mutex<Vec<JoinHandle>>
    lock,       \* the caller that holds that mutex
    cpc,        \* cpc[c]: where caller c is in cancel()
    received,   \* history: the last version the task took off its stream
    delivered   \* history: the last version fanned out

streamVars == <<queue, ended>>
taskVars   == <<tpc, latest, timer, calling, received, delivered>>
cancelVars == <<cancelled, handles, lock, cpc>>
vars == <<streamVars, taskVars, cancelVars>>

NoCaller == "free"

Init ==
    /\ queue     = [u \in Refs |-> << >>]
    /\ ended     = [u \in Refs |-> FALSE]
    /\ tpc       = [u \in Refs |-> "cancel"]
    /\ latest    = [u \in Refs |-> None]
    /\ timer     = [u \in Refs |-> "off"]
    /\ calling   = [u \in Refs |-> None]
    /\ cancelled = FALSE
    /\ handles   = Refs
    /\ lock      = NoCaller
    /\ cpc       = [c \in Callers |-> "idle"]
    /\ received  = [u \in Refs |-> None]
    /\ delivered = [u \in Refs |-> None]

-------------------------------------------------------------------------------
(* The provider and the clock.                                              *)

Rotate(u, v) ==
    /\ ~ended[u]
    /\ Len(queue[u]) < MaxQueue
    /\ queue' = [queue EXCEPT ![u] = Append(@, v)]
    /\ UNCHANGED <<ended, taskVars, cancelVars>>

CloseStream(u) ==
    /\ ~ended[u]
    /\ ended' = [ended EXCEPT ![u] = TRUE]
    /\ UNCHANGED <<queue, taskVars, cancelVars>>

DebounceElapses(u) ==
    /\ timer[u] = "armed"
    /\ timer' = [timer EXCEPT ![u] = "due"]
    /\ UNCHANGED <<streamVars, tpc, latest, calling, received, delivered, cancelVars>>

-------------------------------------------------------------------------------
(* run_watch_loop.                                                          *)

Goto(u, pc) == tpc' = [tpc EXCEPT ![u] = pc]

(* Mutant: the token is not polled. *)
BadPollCancel(u) ==
    /\ tpc[u] = "cancel"
    /\ Goto(u, "timer")
    /\ UNCHANGED <<streamVars, latest, timer, calling, received, delivered, cancelVars>>

PollCancel(u) ==
    /\ tpc[u] = "cancel"
    /\ Goto(u, IF cancelled THEN "done" ELSE "timer")
    /\ UNCHANGED <<streamVars, latest, timer, calling, received, delivered, cancelVars>>

(* `latest.take()' and the call of fan_out begins, or the timer is pending. *)
PollTimer(u) ==
    /\ tpc[u] = "timer"
    /\ IF timer[u] = "due"
       THEN /\ Goto(u, IF latest[u] = None THEN "cancel" ELSE "fanout")
            /\ calling' = [calling EXCEPT ![u] = latest[u]]
            /\ latest' = [latest EXCEPT ![u] = None]
            /\ timer' = [timer EXCEPT ![u] = "off"]
       ELSE /\ Goto(u, "stream")
            /\ UNCHANGED <<calling, latest, timer>>
    /\ UNCHANGED <<streamVars, received, delivered, cancelVars>>

(* Mutant: the first version of a burst wins. *)
FirstWins(u) ==
    /\ tpc[u] = "stream"
    /\ queue[u] # << >>
    /\ LET v == ParseVersion(Head(queue[u])) IN
       /\ latest' = [latest EXCEPT ![u] = IF @ = None THEN v ELSE @]
       /\ received' = [received EXCEPT ![u] = v]
    /\ timer' = [timer EXCEPT ![u] = IF @ = "off" THEN "armed" ELSE @]
    /\ queue' = [queue EXCEPT ![u] = Tail(@)]
    /\ Goto(u, "cancel")
    /\ UNCHANGED <<ended, calling, delivered, cancelVars>>

(* Mutant: every event pushes the deadline. *)
SlidingDeadline(u) ==
    /\ tpc[u] = "stream"
    /\ queue[u] # << >>
    /\ LET v == ParseVersion(Head(queue[u])) IN
       /\ latest' = [latest EXCEPT ![u] = v]
       /\ received' = [received EXCEPT ![u] = v]
    /\ timer' = [timer EXCEPT ![u] = "armed"]
    /\ queue' = [queue EXCEPT ![u] = Tail(@)]
    /\ Goto(u, "cancel")
    /\ UNCHANGED <<ended, calling, delivered, cancelVars>>

(* An event: overwrite latest, arm the timer unless it runs already. *)
Receive(u) ==
    /\ tpc[u] = "stream"
    /\ queue[u] # << >>
    /\ LET v == ParseVersion(Head(queue[u])) IN
       /\ latest' = [latest EXCEPT ![u] = v]
       /\ received' = [received EXCEPT ![u] = v]
    /\ timer' = [timer EXCEPT ![u] = IF @ = "off" THEN "armed" ELSE @]
    /\ queue' = [queue EXCEPT ![u] = Tail(@)]
    /\ Goto(u, "cancel")
    /\ UNCHANGED <<ended, calling, delivered, cancelVars>>

(* The stream is over: fan out what is pending, then leave. *)
StreamOver(u) ==
    /\ tpc[u] = "stream"
    /\ queue[u] = << >> /\ ended[u]
    /\ IF latest[u] # None
       THEN /\ Goto(u, "lastfanout")
            /\ calling' = [calling EXCEPT ![u] = latest[u]]
            /\ latest' = [latest EXCEPT ![u] = None]
       ELSE Goto(u, "done") /\ UNCHANGED <<calling, latest>>
    /\ UNCHANGED <<streamVars, timer, received, delivered, cancelVars>>

(* Nothing is ready: the task sleeps until something is. *)
Park(u) ==
    /\ tpc[u] = "stream"
    /\ queue[u] = << >> /\ ~ended[u]
    /\ Goto(u, "parked")
    /\ UNCHANGED <<streamVars, latest, timer, calling, received, delivered, cancelVars>>

Wake(u) ==
    /\ tpc[u] = "parked"
    /\ cancelled \/ timer[u] = "due" \/ queue[u] # << >> \/ ended[u]
    /\ Goto(u, "cancel")
    /\ UNCHANGED <<streamVars, latest, timer, calling, received, delivered, cancelVars>>

(* fan_out returns. *)
FanOutReturns(u) ==
    /\ tpc[u] \in {"fanout", "lastfanout"}
    /\ Goto(u, IF tpc[u] = "fanout" THEN "cancel" ELSE "done")
    /\ delivered' = [delivered EXCEPT ![u] = calling[u]]
    /\ calling' = [calling EXCEPT ![u] = None]
    /\ UNCHANGED <<streamVars, latest, timer, received, cancelVars>>

-------------------------------------------------------------------------------
(* SecretWatcherSet::cancel.                                                *)

CancelToken(c) ==
    /\ cpc[c] = "idle"
    /\ cancelled' = TRUE
    /\ cpc' = [cpc EXCEPT ![c] = "lock"]
    /\ UNCHANGED <<streamVars, taskVars, handles, lock>>

LockHandles(c) ==
    /\ cpc[c] = "lock" /\ lock = NoCaller
    /\ lock' = c
    /\ cpc' = [cpc EXCEPT ![c] = "join"]
    /\ UNCHANGED <<streamVars, taskVars, cancelled, handles>>

(* Mutant: the handles are dropped, not awaited. *)
BadJoinTask(c, u) ==
    /\ cpc[c] = "join" /\ u \in handles
    /\ handles' = handles \ {u}
    /\ UNCHANGED <<streamVars, taskVars, cancelled, lock, cpc>>

(* `h.await' on one drained handle is over. *)
JoinTask(c, u) ==
    /\ cpc[c] = "join" /\ u \in handles
    /\ tpc[u] = "done"
    /\ handles' = handles \ {u}
    /\ UNCHANGED <<streamVars, taskVars, cancelled, lock, cpc>>

CancelReturns(c) ==
    /\ cpc[c] = "join" /\ handles = {}
    /\ lock' = NoCaller
    /\ cpc' = [cpc EXCEPT ![c] = "returned"]
    /\ UNCHANGED <<streamVars, taskVars, cancelled, handles>>

(* The caller's future is dropped while it waits: the Drain drops the        *)
(* handles it has not joined, and the guard releases the mutex.              *)
DropCancel(c) ==
    /\ c \in Droppable
    /\ cpc[c] \in {"lock", "join"}
    /\ IF cpc[c] = "join"
       THEN /\ cpc' = [cpc EXCEPT ![c] = "abandoned"]
            /\ lock' = NoCaller /\ handles' = {}
       ELSE /\ cpc' = [cpc EXCEPT ![c] = "dropped"]
            /\ UNCHANGED <<lock, handles>>
    /\ UNCHANGED <<streamVars, taskVars, cancelled>>

-------------------------------------------------------------------------------
Task(u) ==
    \/ PollCancel(u) \/ PollTimer(u) \/ Receive(u) \/ StreamOver(u)
    \/ Park(u) \/ Wake(u) \/ FanOutReturns(u)

Canceller(c) ==
    \/ LockHandles(c) \/ CancelReturns(c)
    \/ \E u \in Refs : JoinTask(c, u)

Next ==
    \/ \E u \in Refs : \/ Task(u) \/ CloseStream(u) \/ DebounceElapses(u)
                       \/ \E v \in Reported : Rotate(u, v)
    \/ \E c \in Callers : CancelToken(c) \/ Canceller(c) \/ DropCancel(c)

Spec == Init /\ [][Next]_vars

(* The runtime polls tasks that are ready, callbacks return, time passes.    *)
(* Nothing obliges the provider to rotate or close, or anybody to cancel.    *)
Fairness ==
    /\ \A u \in Refs : WF_vars(Task(u)) /\ WF_vars(DebounceElapses(u))
    /\ \A c \in Callers : WF_vars(Canceller(c))

FairSpec == Spec /\ Fairness

-------------------------------------------------------------------------------
Parsed == {ParseVersion(v) : v \in Reported}

TypeOK ==
    /\ queue \in [Refs -> Seq(Reported)]
    /\ \A u \in Refs : Len(queue[u]) <= MaxQueue
    /\ ended \in [Refs -> BOOLEAN]
    /\ tpc \in [Refs -> {"cancel", "timer", "stream", "parked", "fanout",
                         "lastfanout", "done"}]
    /\ latest \in [Refs -> Parsed \cup {None}]
    /\ timer \in [Refs -> {"off", "armed", "due"}]
    /\ calling \in [Refs -> Parsed \cup {None}]
    /\ cancelled \in BOOLEAN
    /\ handles \subseteq Refs
    /\ lock \in Callers \cup {NoCaller}
    /\ cpc \in [Callers -> {"idle", "lock", "join", "returned", "dropped",
                           "abandoned"}]
    /\ received \in [Refs -> Parsed \cup {None}]
    /\ delivered \in [Refs -> Parsed \cup {None}]
    /\ \A u \in Refs : tpc[u] \in {"fanout", "lastfanout"} <=> calling[u] # None

(* Debouncing forgets no rotation: a task with nothing pending and no        *)
(* callback running has fanned out the last version it received, unless a    *)
(* cancel made it leave with the event still pending.                        *)
LastVersionFannedOut ==
    \A u \in Refs :
        latest[u] = None /\ calling[u] = None
            => delivered[u] = received[u]

(* No callback runs after cancel() has returned, to any of its callers.  The *)
(* exception: a caller whose future was dropped while it joined the tasks    *)
(* took the handles with it, and the others return without waiting.          *)
NoCallbackAfterCancel ==
    (\E c \in Callers : cpc[c] = "returned") /\ (\A c \in Callers : cpc[c] # "abandoned")
        => \A u \in Refs : tpc[u] \notin {"fanout", "lastfanout"}

(* A version that is pending is fanned out although the stream never runs    *)
(* dry: later events overwrite the version but do not push the deadline.     *)
PendingIsFannedOut ==
    \A u \in Refs : latest[u] # None ~> (latest[u] = None \/ cancelled)

(* cancel() returns to a caller that waits for it. *)
CancelEnds ==
    \A c \in Callers : cpc[c] = "lock" ~> cpc[c] \in {"returned", "dropped", "abandoned"}
================================================================================
