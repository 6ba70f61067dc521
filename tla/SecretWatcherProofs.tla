------------------------- MODULE SecretWatcherProofs -------------------------
(***************************************************************************)
(* Proofs about SecretWatcher, for every set of secret_refs, of callers of *)
(* cancel() and of versions, and every length of the provider's queue.     *)
(***************************************************************************)
EXTENDS SecretWatcher, TLAPS

-------------------------------------------------------------------------------
(* The inductive invariant.                                                 *)

(* At most one of `latest' and the running callback holds a version, and it  *)
(* is the last one the task took off its stream.                             *)
PendingIsLast ==
    \A u \in Refs :
        /\ latest[u] # None => latest[u] = received[u] /\ calling[u] = None
        /\ calling[u] # None => calling[u] = received[u]

(* While no join was abandoned, a handle leaves the vector only when its     *)
(* task is over, and cancel() has returned only from an empty vector.        *)
GoneIsDone ==
    (\A c \in Callers : cpc[c] # "abandoned") =>
        /\ \A u \in Refs \ handles : tpc[u] = "done"
        /\ (\E c \in Callers : cpc[c] = "returned") => handles = {}

-------------------------------------------------------------------------------
(* Type correctness.                                                        *)

(* A version is read as a number, so it is never mistaken for None. *)
LEMMA ParsedType == None \notin Parsed /\ \A v \in Reported : ParseVersion(v) \in Parsed
BY VersionAssumption, NoneAssumption DEF Parsed, ParseVersion

(* The debounce deadline is due: what is pending moves to the callback. *)
Fires(u, pc) ==
    /\ tpc[u] = "timer"
    /\ tpc' = [tpc EXCEPT ![u] = pc]
    /\ calling' = [calling EXCEPT ![u] = latest[u]]
    /\ latest' = [latest EXCEPT ![u] = None]
    /\ timer' = [timer EXCEPT ![u] = "off"]
    /\ UNCHANGED <<queue, ended, received, delivered, cancelled, handles, lock, cpc>>

(* The watchers start well typed. *)
LEMMA InitType == Init => TypeOK
<1> SUFFICES ASSUME Init PROVE TypeOK
  OBVIOUS
<1>1. << >> \in Seq(Reported) /\ Len(<< >>) <= MaxQueue
  BY QueueAssumption
<1>2. /\ queue \in [Refs -> Seq(Reported)]
      /\ \A u \in Refs : Len(queue[u]) <= MaxQueue
  BY <1>1 DEF Init
<1> QED BY <1>2 DEF Init, TypeOK, NoCaller

(* Every step of a stream, a task or a caller keeps the types. *)
LEMMA NextType == TypeOK /\ [Next]_vars => TypeOK'
<1> SUFFICES ASSUME TypeOK, [Next]_vars PROVE TypeOK'
  OBVIOUS
<1> USE DEF TypeOK, Goto, streamVars, taskVars, cancelVars
<1>1. ASSUME NEW u \in Refs, NEW v \in Reported, Rotate(u, v) PROVE TypeOK'
  <2>1. /\ Append(queue[u], v) \in Seq(Reported)
        /\ Len(Append(queue[u], v)) <= MaxQueue
    BY <1>1, QueueAssumption DEF Rotate
  <2> QED BY <1>1, <2>1 DEF Rotate
<1>2. ASSUME NEW u \in Refs, CloseStream(u) PROVE TypeOK'
  BY <1>2 DEF CloseStream
<1>3. ASSUME NEW u \in Refs, DebounceElapses(u) PROVE TypeOK'
  BY <1>3 DEF DebounceElapses
<1>4. ASSUME NEW u \in Refs, PollCancel(u) PROVE TypeOK'
  BY <1>4 DEF PollCancel
<1>5. ASSUME NEW u \in Refs, PollTimer(u) PROVE TypeOK'
  <2>1. CASE timer[u] = "due" /\ latest[u] = None
    <3>1. Fires(u, "cancel")
      BY <1>5, <2>1 DEF PollTimer, Fires
    <3> QED BY <1>5, <2>1, <3>1 DEF Fires
  <2>2. CASE timer[u] = "due" /\ latest[u] # None
    <3>1. Fires(u, "fanout")
      BY <1>5, <2>2 DEF PollTimer, Fires
    <3> QED BY <1>5, <2>2, <3>1 DEF Fires
  <2>3. CASE timer[u] # "due"
    BY <1>5, <2>3 DEF PollTimer
  <2> QED BY <2>1, <2>2, <2>3
<1>6. ASSUME NEW u \in Refs, Receive(u) PROVE TypeOK'
  <2>1. /\ Head(queue[u]) \in Reported
        /\ Tail(queue[u]) \in Seq(Reported)
        /\ Len(Tail(queue[u])) <= MaxQueue
    BY <1>6, QueueAssumption DEF Receive
  <2>2. ParseVersion(Head(queue[u])) \in Parsed
    BY <2>1, ParsedType
  <2> QED BY <1>6, <2>1, <2>2 DEF Receive
<1>7. ASSUME NEW u \in Refs, StreamOver(u) PROVE TypeOK'
  <2>1. CASE latest[u] = None
    BY <1>7, <2>1, ZenonT(40) DEF StreamOver
  <2>2. CASE latest[u] # None
    <3>1. /\ tpc' = [tpc EXCEPT ![u] = "lastfanout"]
          /\ calling' = [calling EXCEPT ![u] = latest[u]]
      BY <1>7, <2>2 DEF StreamOver
    <3>2. \A w \in Refs : tpc'[w] \in {"fanout", "lastfanout"} <=> calling'[w] # None
      BY <2>2, <3>1
    <3> QED BY <1>7, <2>2, <3>1, <3>2, ZenonT(40) DEF StreamOver
  <2> QED BY <2>1, <2>2
<1>8. ASSUME NEW u \in Refs, Park(u) PROVE TypeOK'
  BY <1>8 DEF Park
<1>9. ASSUME NEW u \in Refs, Wake(u) PROVE TypeOK'
  BY <1>9 DEF Wake
<1>10. ASSUME NEW u \in Refs, FanOutReturns(u) PROVE TypeOK'
  BY <1>10 DEF FanOutReturns
<1>11. ASSUME NEW c \in Callers, CancelToken(c) PROVE TypeOK'
  BY <1>11 DEF CancelToken
<1>12. ASSUME NEW c \in Callers, LockHandles(c) PROVE TypeOK'
  BY <1>12 DEF LockHandles
<1>13. ASSUME NEW c \in Callers, NEW u \in Refs, JoinTask(c, u) PROVE TypeOK'
  BY <1>13 DEF JoinTask
<1>14. ASSUME NEW c \in Callers, CancelReturns(c) PROVE TypeOK'
  BY <1>14 DEF CancelReturns
<1>15. ASSUME NEW c \in Callers, DropCancel(c) PROVE TypeOK'
  BY <1>15 DEF DropCancel
<1>16. CASE UNCHANGED vars
  BY <1>16 DEF vars
<1> QED BY <1>1, <1>2, <1>3, <1>4, <1>5, <1>6, <1>7, <1>8, <1>9, <1>10, <1>11,
           <1>12, <1>13, <1>14, <1>15, <1>16 DEF Next, Task, Canceller

(* Every reachable state is well typed. *)
THEOREM WatcherTypeCorrect == Spec => []TypeOK
BY InitType, NextType, PTL DEF Spec

-------------------------------------------------------------------------------
(* The debounce.                                                            *)

(* What a task holds is the last version it received, and what it holds no   *)
(* longer has been fanned out.                                               *)
LEMMA NextPending ==
    TypeOK /\ PendingIsLast /\ LastVersionFannedOut /\ [Next]_vars
        => PendingIsLast' /\ LastVersionFannedOut'
<1> SUFFICES ASSUME TypeOK, PendingIsLast, LastVersionFannedOut, [Next]_vars
             PROVE  PendingIsLast' /\ LastVersionFannedOut'
  OBVIOUS
<1> USE DEF PendingIsLast, LastVersionFannedOut, Goto, streamVars, taskVars, cancelVars
<1>1. ASSUME NEW u \in Refs, PollTimer(u)
      PROVE  PendingIsLast' /\ LastVersionFannedOut'
  <2>1. calling[u] = None
    BY <1>1 DEF PollTimer, TypeOK
  <2>2. CASE timer[u] = "due"
    <3>1. \E pc \in {"cancel", "fanout"} : Fires(u, pc)
      BY <1>1, <2>2 DEF PollTimer, Fires
    <3> QED BY <2>1, <3>1 DEF Fires, TypeOK
  <2>3. CASE timer[u] # "due"
    BY <1>1, <2>3 DEF PollTimer
  <2> QED BY <2>2, <2>3
<1>2. ASSUME NEW u \in Refs, Receive(u)
      PROVE  PendingIsLast' /\ LastVersionFannedOut'
  <2>1. calling[u] = None
    BY <1>2 DEF Receive, TypeOK
  <2>2. Head(queue[u]) \in Reported
    BY <1>2 DEF Receive, TypeOK
  <2>3. ParseVersion(Head(queue[u])) # None
    BY <2>2, ParsedType
  <2> QED BY <1>2, <2>1, <2>3 DEF Receive, TypeOK
<1>3. ASSUME NEW u \in Refs, StreamOver(u)
      PROVE  PendingIsLast' /\ LastVersionFannedOut'
  <2>1. calling[u] = None
    BY <1>3 DEF StreamOver, TypeOK
  <2>2. CASE latest[u] = None
    BY <1>3, <2>2 DEF StreamOver
  <2>3. CASE latest[u] # None
    <3>1. /\ calling' = [calling EXCEPT ![u] = latest[u]]
          /\ latest' = [latest EXCEPT ![u] = None]
          /\ UNCHANGED <<received, delivered>>
      BY <1>3, <2>3 DEF StreamOver
    <3> QED BY <2>1, <2>3, <3>1 DEF TypeOK
  <2> QED BY <2>2, <2>3
<1>4. ASSUME NEW u \in Refs, FanOutReturns(u)
      PROVE  PendingIsLast' /\ LastVersionFannedOut'
  <2>1. calling[u] # None
    BY <1>4 DEF FanOutReturns, TypeOK
  <2> QED BY <1>4, <2>1 DEF FanOutReturns, TypeOK
<1>5. CASE UNCHANGED <<latest, calling, received, delivered>>
  BY <1>5
<1> QED BY <1>1, <1>2, <1>3, <1>4, <1>5
        DEF Next, Task, Canceller, vars, Rotate, CloseStream, DebounceElapses, PollCancel,
            Park, Wake, CancelToken, LockHandles, JoinTask, CancelReturns, DropCancel

(* run_watch_loop forgets no rotation, however events, deadlines and         *)
(* callbacks interleave: with nothing pending and no callback running, the   *)
(* last version received has been fanned out.                                *)
THEOREM DebounceLosesNothing == Spec => []LastVersionFannedOut
<1>1. Init => PendingIsLast /\ LastVersionFannedOut
  BY DEF Init, PendingIsLast, LastVersionFannedOut
<1> QED BY <1>1, NextPending, WatcherTypeCorrect, PTL DEF Spec

-------------------------------------------------------------------------------
(* cancel().                                                                *)

(* A task that is over stays over, and a handle is given up only for such a  *)
(* task or by a caller that abandons its join.                               *)
LEMMA NextGone == TypeOK /\ GoneIsDone /\ [Next]_vars => GoneIsDone'
<1> SUFFICES ASSUME TypeOK, GoneIsDone, [Next]_vars,
                    \A c \in Callers : cpc'[c] # "abandoned"
             PROVE  /\ \A u \in Refs \ handles' : tpc'[u] = "done"
                    /\ (\E c \in Callers : cpc'[c] = "returned") => handles' = {}
  BY DEF GoneIsDone
<1> USE DEF TypeOK, GoneIsDone, Goto, streamVars, taskVars, cancelVars
<1>1. ASSUME NEW u \in Refs,
             Task(u) \/ CloseStream(u) \/ DebounceElapses(u)
                 \/ \E v \in Reported : Rotate(u, v)
      PROVE  /\ UNCHANGED <<cpc, handles>>
             /\ \A w \in Refs : tpc[w] = "done" => tpc'[w] = "done"
  BY <1>1 DEF Task, PollCancel, PollTimer, Receive, StreamOver, Park, Wake,
              FanOutReturns, CloseStream, DebounceElapses, Rotate
<1>2. ASSUME NEW c \in Callers, CancelToken(c) \/ LockHandles(c)
      PROVE  /\ UNCHANGED <<handles, tpc>>
             /\ \A d \in Callers : cpc'[d] = "returned" => cpc[d] = "returned"
             /\ \A d \in Callers : cpc[d] = "abandoned" => cpc'[d] = "abandoned"
  BY <1>2 DEF CancelToken, LockHandles
<1>3. ASSUME NEW c \in Callers, NEW u \in Refs, JoinTask(c, u)
      PROVE  /\ \A w \in Refs \ handles' : tpc'[w] = "done"
             /\ (\E d \in Callers : cpc'[d] = "returned") => handles' = {}
  BY <1>3 DEF JoinTask
<1>4. ASSUME NEW c \in Callers, CancelReturns(c)
      PROVE  /\ \A w \in Refs \ handles' : tpc'[w] = "done"
             /\ (\E d \in Callers : cpc'[d] = "returned") => handles' = {}
  BY <1>4 DEF CancelReturns
<1>5. ASSUME NEW c \in Callers, DropCancel(c)
      PROVE  /\ \A w \in Refs \ handles' : tpc'[w] = "done"
             /\ (\E d \in Callers : cpc'[d] = "returned") => handles' = {}
  BY <1>5 DEF DropCancel
<1>6. CASE UNCHANGED vars
  BY <1>6 DEF vars
<1> QED BY <1>1, <1>2, <1>3, <1>4, <1>5, <1>6 DEF Next, Canceller

(* SecretWatcherSet::cancel is a barrier: once it has returned, to whichever *)
(* of its callers, no callback runs and none will, unless a caller's future  *)
(* was dropped while it joined the tasks.                                    *)
THEOREM CancelIsBarrier == Spec => []NoCallbackAfterCancel
<1>1. Init => GoneIsDone
  BY DEF Init, GoneIsDone
<1>2. TypeOK /\ GoneIsDone => NoCallbackAfterCancel
  BY DEF TypeOK, GoneIsDone, NoCallbackAfterCancel
<1> QED BY <1>1, <1>2, NextGone, WatcherTypeCorrect, PTL DEF Spec
===============================================================================
