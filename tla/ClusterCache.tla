----------------------------- MODULE ClusterCache -----------------------------
(***************************************************************************)
(* The cluster-aware credential cache (credential_cache_clustered.rs): the *)
(* entry of one (identity, plugin, target) key at every gateway instance,  *)
(* kept alike by Issued and Revoked events on a shared topic.              *)
(*                                                                         *)
(* The topic is a log each subscriber reads in order.  A durable backend   *)
(* may make it read again from an earlier point (stream replay), a         *)
(* best-effort one may skip events.  What a node does locally and what it  *)
(* publishes are two steps, and so are the lookup, the issuer's answer and *)
(* the insert.  An event is stamped with the clock of its publisher, and a *)
(* subscriber refuses one whose stamp is too far from its own clock.       *)
(* Clocks run at one pace, each with an offset of its own.                 *)
(*                                                                         *)
(* The entry does not expire and is not evicted here (module               *)
(* CredentialCache).  Replays are told by event id; module ReplayGuard     *)
(* shows that the bounded set behind this does what the set of log         *)
(* positions does here.  Every instance runs this version (its events      *)
(* carry a stamp and an id), is on the allowlist of the others and has the *)
(* same cipher.                                                            *)
(***************************************************************************)
EXTENDS Naturals, Sequences, FiniteSets

CONSTANTS
    Nodes,          \* gateway instances
    Tasks,          \* tasks that serve requests
    NodeOf,         \* NodeOf[t]: the instance task t runs on
    Offsets,        \* how far a clock may be ahead of the slowest one
    MaxAge,         \* MAX_EVENT_AGE_MS
    MaxIssued,      \* bound: credentials issued
    MaxLog,         \* bound: events published
    MaxTime         \* bound: ticks of the clocks

Operations == {"get", "resolve", "invalidate", "invalidate_plugin"}

ASSUME TaskAssumption == NodeOf \in [Tasks -> Nodes]
ASSUME ClockAssumption == Offsets \subseteq Nat /\ MaxAge \in Nat
ASSUME BoundAssumption == MaxIssued \in Nat /\ MaxLog \in Nat /\ MaxTime \in Nat

VARIABLES
    cache,      \* cache[n]: the credential node n holds, 0 for none
    issued,     \* credentials the issuer has handed out, numbered from 1
    tpc,        \* tpc[t]: where task t is
    op,         \* op[t]: its operation
    cred,       \* cred[t]: the credential it issued
    stamp,      \* stamp[t]: the time on the event it is publishing
    log,        \* the topic
    cursor,     \* cursor[n]: events subscriber n has been given
    seen,       \* seen[n]: log positions n has applied (SeenEvents)
    durable,    \* the backend takes and delivers every event; fixed at start
    now,        \* the time of a clock without offset
    offset,     \* offset[n]: how far the clock of n is ahead; fixed at start
    actors,     \* history: the tasks that began an operation
    used        \* history: the operations begun

taskVars == <<tpc, op, cred, stamp>>
clockVars == <<now, offset>>
history == <<actors, used>>
vars == <<cache, issued, taskVars, log, cursor, seen, durable, clockVars, history>>

None == 0
Here(t) == NodeOf[t]
Clock(n) == now + offset[n]     \* now_unix_millis() at n
Issued(n, c, at) == [kind |-> "issued", by |-> n, cred |-> c, at |-> at]
Revoked(n, at)   == [kind |-> "revoked", by |-> n, cred |-> None, at |-> at]

Init ==
    /\ cache  = [n \in Nodes |-> None]
    /\ issued = 0
    /\ tpc    = [t \in Tasks |-> "idle"]
    /\ op     = [t \in Tasks |-> "none"]
    /\ cred   = [t \in Tasks |-> None]
    /\ stamp  = [t \in Tasks |-> 0]
    /\ log    = << >>
    /\ cursor = [n \in Nodes |-> 0]
    /\ seen   = [n \in Nodes |-> {}]
    /\ durable \in BOOLEAN
    /\ now    = 0
    /\ offset \in [Nodes -> Offsets]
    /\ actors = {} /\ used = {}

-------------------------------------------------------------------------------
(* get_or_issue, of the wrapper ("get") or of the local cache beneath it     *)
(* ("resolve").                                                              *)

(* Tasks under way, each with one credential and one event to come: an       *)
(* operation begins only when the bounds leave room for its end.             *)
Busy == Cardinality({t \in Tasks : tpc[t] # "idle"})

Goto(t, pc) == tpc' = [tpc EXCEPT ![t] = pc]

Return(t) ==
    /\ Goto(t, "idle")
    /\ op' = [op EXCEPT ![t] = "none"]
    /\ cred' = [cred EXCEPT ![t] = None]
    /\ stamp' = [stamp EXCEPT ![t] = 0]

Begin(t, o) == actors' = actors \cup {t} /\ used' = used \cup {o}

(* The event is made, and stamped, before its publication is awaited. *)
BeginPublish(t) ==
    /\ Goto(t, "publish")
    /\ stamp' = [stamp EXCEPT ![t] = Clock(Here(t))]

(* Local-first lookup; a hit changes nothing. *)
Miss(t, o) ==
    /\ tpc[t] = "idle"
    /\ cache[Here(t)] = None
    /\ issued + Busy < MaxIssued /\ Len(log) + Busy < MaxLog
    /\ Goto(t, "issuing")
    /\ op' = [op EXCEPT ![t] = o]
    /\ Begin(t, o)
    /\ UNCHANGED <<cache, issued, cred, stamp, log, cursor, seen, durable, clockVars>>

IssueReturns(t) ==
    /\ tpc[t] = "issuing"
    /\ issued' = issued + 1
    /\ cred' = [cred EXCEPT ![t] = issued + 1]
    /\ Goto(t, "insert")
    /\ UNCHANGED <<cache, op, stamp, log, cursor, seen, durable, clockVars, history>>

IssueFails(t) ==
    /\ tpc[t] = "issuing"
    /\ Return(t)
    /\ UNCHANGED <<cache, issued, log, cursor, seen, durable, clockVars, history>>

(* Mutant: published but not inserted. *)
BadInsert(t) ==
    /\ tpc[t] = "insert"
    /\ cache' = cache
    /\ IF op[t] = "get" THEN BeginPublish(t) /\ UNCHANGED <<op, cred>> ELSE Return(t)
    /\ UNCHANGED <<issued, log, cursor, seen, durable, clockVars, history>>

(* Only the wrapper goes on to publish. *)
Insert(t) ==
    /\ tpc[t] = "insert"
    /\ cache' = [cache EXCEPT ![Here(t)] = cred[t]]
    /\ IF op[t] = "get" THEN BeginPublish(t) /\ UNCHANGED <<op, cred>> ELSE Return(t)
    /\ UNCHANGED <<issued, log, cursor, seen, durable, clockVars, history>>

-------------------------------------------------------------------------------
(* Invalidation: locally at once, then by an event.                         *)

(* Mutant: no event is published. *)
BadInvalidate(t) ==
    /\ tpc[t] = "idle"
    /\ cache' = [cache EXCEPT ![Here(t)] = None]
    /\ Begin(t, "invalidate")
    /\ UNCHANGED <<issued, taskVars, log, cursor, seen, durable, clockVars>>

Invalidate(t) ==
    /\ tpc[t] = "idle"
    /\ Len(log) + Busy < MaxLog
    /\ cache' = [cache EXCEPT ![Here(t)] = None]
    /\ op' = [op EXCEPT ![t] = "invalidate"]
    /\ BeginPublish(t)
    /\ Begin(t, "invalidate")
    /\ UNCHANGED <<issued, cred, log, cursor, seen, durable, clockVars>>

(* invalidate_plugin publishes nothing. *)
InvalidatePlugin(t) ==
    /\ tpc[t] = "idle"
    /\ cache' = [cache EXCEPT ![Here(t)] = None]
    /\ Begin(t, "invalidate_plugin")
    /\ UNCHANGED <<issued, taskVars, log, cursor, seen, durable, clockVars>>

Event(t) ==
    IF op[t] = "get" THEN Issued(Here(t), cred[t], stamp[t]) ELSE Revoked(Here(t), stamp[t])

Publish(t) ==
    /\ tpc[t] = "publish"
    /\ log' = Append(log, Event(t))
    /\ Return(t)
    /\ UNCHANGED <<cache, issued, cursor, seen, durable, clockVars, history>>

(* coordinator.publish failed: logged, not retried. *)
PublishFails(t) ==
    /\ tpc[t] = "publish"
    /\ ~durable
    /\ Return(t)
    /\ UNCHANGED <<cache, issued, log, cursor, seen, durable, clockVars, history>>

-------------------------------------------------------------------------------
(* subscriber_task and apply_event.                                         *)

(* The clock of n and the stamp are at most MAX_EVENT_AGE_MS apart. *)
Fresh(n, e) == Clock(n) <= e.at + MaxAge /\ e.at <= Clock(n) + MaxAge

(* Mutant: no replay guard. *)
BadApplies(n, i) == Fresh(n, log[i]) /\ log[i].by # n

(* Events outside the freshness window, own events and events seen before    *)
(* are dropped.                                                              *)
Applies(n, i) == Fresh(n, log[i]) /\ log[i].by # n /\ i \notin seen[n]

(* insert_by_hash overwrites; invalidate_by_hash removes. *)
Effect(n, e) == IF e.kind = "issued" THEN e.cred ELSE None

Receive(n) ==
    /\ cursor[n] < Len(log)
    /\ cursor' = [cursor EXCEPT ![n] = @ + 1]
    /\ LET i == cursor[n] + 1 IN
       IF Applies(n, i)
       THEN /\ cache' = [cache EXCEPT ![n] = Effect(n, log[i])]
            /\ seen' = [seen EXCEPT ![n] = @ \cup {i}]
       ELSE UNCHANGED <<cache, seen>>
    /\ UNCHANGED <<issued, taskVars, log, durable, clockVars, history>>

(* The backend replays the stream from an earlier point. *)
Replay(n) ==
    /\ durable /\ cursor[n] > 0
    /\ \E i \in 0 .. cursor[n] - 1 : cursor' = [cursor EXCEPT ![n] = i]
    /\ UNCHANGED <<cache, issued, taskVars, log, seen, durable, clockVars, history>>

(* A best-effort backend loses an event for n. *)
Lose(n) ==
    /\ ~durable
    /\ cursor[n] < Len(log)
    /\ cursor' = [cursor EXCEPT ![n] = @ + 1]
    /\ UNCHANGED <<cache, issued, taskVars, log, seen, durable, clockVars, history>>

Tick ==
    /\ now < MaxTime
    /\ now' = now + 1
    /\ UNCHANGED <<cache, issued, taskVars, log, cursor, seen, durable, offset, history>>

-------------------------------------------------------------------------------
Task(t) ==
    \/ \E o \in {"get", "resolve"} : Miss(t, o)
    \/ IssueReturns(t) \/ IssueFails(t) \/ Insert(t)
    \/ Invalidate(t) \/ InvalidatePlugin(t) \/ Publish(t) \/ PublishFails(t)

Next ==
    \/ \E t \in Tasks : Task(t)
    \/ \E n \in Nodes : Receive(n) \/ Replay(n) \/ Lose(n)
    \/ Tick

Spec == Init /\ [][Next]_vars

-------------------------------------------------------------------------------
TypeOK ==
    /\ cache \in [Nodes -> 0 .. MaxIssued]
    /\ issued \in 0 .. MaxIssued
    /\ tpc \in [Tasks -> {"idle", "issuing", "insert", "publish"}]
    /\ op \in [Tasks -> Operations \cup {"none"}]
    /\ cred \in [Tasks -> 0 .. MaxIssued]
    /\ \A t \in Tasks : tpc[t] = "insert" => cred[t] \in 1 .. issued
    /\ Len(log) <= MaxLog
    /\ \A i \in 1 .. Len(log) :
           /\ log[i].by \in Nodes /\ log[i].cred \in 0 .. MaxIssued
           /\ log[i].at <= Clock(log[i].by)
    /\ cursor \in [Nodes -> 0 .. MaxLog]
    /\ seen \in [Nodes -> SUBSET (1 .. MaxLog)]
    /\ durable \in BOOLEAN
    /\ now \in 0 .. MaxTime
    /\ offset \in [Nodes -> Offsets]
    /\ \A t \in Tasks : stamp[t] <= Clock(Here(t))
    /\ actors \subseteq Tasks /\ used \subseteq Operations

(* No task is under way and every subscriber has read the topic to its end. *)
Quiet ==
    /\ \A t \in Tasks : tpc[t] = "idle"
    /\ \A n \in Nodes : cursor[n] = Len(log)

(* The operations begun are all of these kinds, or all of one task. *)
Only(ops) == used \subseteq ops
OneTask   == \A t, u \in actors : t = u

(* No clock is so far ahead of another that its events come too early there. *)
InStep == \A n, m \in Nodes : offset[n] <= offset[m] + MaxAge

(* The events n published or applied, and those now too old for it. *)
Taken(n)   == {i \in 1 .. Len(log) : log[i].by = n \/ i \in seen[n]}
Late(n, i) == Clock(n) > log[i].at + MaxAge

(* When one task at a time works on a key, with the operations that publish, *)
(* every instance of a quiet cluster holds what the last event it took says, *)
(* or nothing if it took none, however the backend replays the topic, and it *)
(* failed to take only events that reached it too late.  So the instances    *)
(* the last event reached in time hold the same credential, or none.  It     *)
(* takes clocks in step: an event that is early at its first delivery is     *)
(* applied out of order by a replay.                                         *)
Converged ==
    Quiet /\ durable /\ InStep /\ Only({"get", "invalidate"}) /\ OneTask =>
        \A n \in Nodes :
            /\ Taken(n) = {} => cache[n] = None
            /\ \A i \in Taken(n) :
                   (\A j \in Taken(n) : j <= i) => cache[n] = Effect(n, log[i])
            /\ \A i \in 1 .. Len(log) : i \in Taken(n) \/ Late(n, i)

(* When tasks on several instances race to issue, a quiet cluster may hold   *)
(* different credentials, but an instance without one, next to one that has  *)
(* one, was reached by every event too late: no other instance has to issue  *)
(* again what another holds.                                                 *)
PresenceAgrees ==
    Quiet /\ durable /\ InStep /\ Only({"get"}) =>
        \A n, m \in Nodes :
            cache[n] = None /\ cache[m] # None
                => log # << >> /\ \A i \in 1 .. Len(log) : Late(n, i)

(* A Revoked event is final for what was published before it: an instance    *)
(* that applied it never again holds such a credential, its own included,    *)
(* whatever the backend loses and whatever the instance does, and whatever   *)
(* the backend replays if the clocks are in step.  If they are not, an       *)
(* Issued event refused as early can be replayed and applied after the       *)
(* Revoked event that was to end it.                                         *)
RevokedStaysGone ==
    InStep \/ ~durable =>
        \A n \in Nodes : \A i \in seen[n] : \A j \in 1 .. i - 1 :
            log[i].kind = "revoked" /\ log[j].kind = "issued"
                => cache[n] # log[j].cred

-------------------------------------------------------------------------------
(* What the sources say and the interleavings refute.                       *)

(* Once a cluster with a durable backend is quiet, no instance, the one that *)
(* invalidated included, holds a credential published before a Revoked       *)
(* event.                                                                    *)
RevokedEverywhere ==
    Quiet /\ durable =>
        \A i \in 1 .. Len(log) : \A j \in 1 .. i - 1 : \A n \in Nodes :
            log[i].kind = "revoked" /\ log[j].kind = "issued"
                => cache[n] # log[j].cred
================================================================================
