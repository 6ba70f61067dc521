-------------------------- MODULE ClusterCacheProofs --------------------------
(***************************************************************************)
(* Proofs about ClusterCache, for every set of instances and tasks, both   *)
(* kinds of backend and a topic of any length.                             *)
(***************************************************************************)
EXTENDS ClusterCache, SequenceTheorems, TLAPS

-------------------------------------------------------------------------------
(* Types without the bounds.                                                *)

Events == [kind : {"issued", "revoked"}, by : Nodes, cred : Nat, at : Nat]

(* Of the tasks, of what instances hold, of the topic and its readers, and  *)
(* of the clocks.                                                           *)
TaskType ==
    /\ tpc \in [Tasks -> {"idle", "issuing", "insert", "publish"}]
    /\ op \in [Tasks -> {"get", "resolve", "invalidate", "none"}]
    /\ cred \in [Tasks -> Nat]
    /\ stamp \in [Tasks -> Nat]
    /\ actors \subseteq Tasks /\ used \subseteq Operations

HoldType == cache \in [Nodes -> Nat] /\ issued \in Nat /\ durable \in BOOLEAN

ReadType ==
    /\ log \in Seq(Events)
    /\ cursor \in [Nodes -> Nat]
    /\ \A n \in Nodes : cursor[n] <= Len(log)
    /\ seen \in [Nodes -> SUBSET Nat]
    /\ \A n \in Nodes : seen[n] \subseteq 1 .. Len(log)

ClockType == now \in Nat /\ offset \in [Nodes -> Nat]

TopicType == TaskType /\ HoldType /\ ReadType /\ ClockType

(* No stamp is ahead of the clock it was read from. *)
StampsPast ==
    /\ \A i \in 1 .. Len(log) : log[i].at <= Clock(log[i].by)
    /\ \A t \in Tasks : stamp[t] <= Clock(Here(t))

(* A task that has a credential and may still publish it. *)
Carries(t) == tpc[t] = "insert" \/ (tpc[t] = "publish" /\ op[t] = "get")

(* A credential is carried by one task, or it is in one Issued event. *)
CredentialsUnique ==
    /\ \A t \in Tasks : Carries(t) => cred[t] \in 1 .. issued
    /\ \A t, u \in Tasks : Carries(t) /\ Carries(u) /\ cred[t] = cred[u] => t = u
    /\ \A i \in 1 .. Len(log) : log[i].kind = "issued" =>
           /\ log[i].cred \in 1 .. issued
           /\ \A t \in Tasks : Carries(t) => cred[t] # log[i].cred
           /\ \A j \in 1 .. Len(log) :
                  log[j].kind = "issued" /\ log[j].cred = log[i].cred => i = j

(* What a subscriber has passed it has applied, or will never apply, when    *)
(* nothing is lost and clocks are in step; when something may be lost,       *)
(* nothing comes twice.                                                      *)
Settled(n, j) == log[j].by = n \/ j \in seen[n] \/ Late(n, j)

SeenInOrder ==
    \A n \in Nodes :
        /\ durable /\ InStep =>
               /\ \A j \in 1 .. cursor[n] : Settled(n, j)
               /\ \A i \in seen[n] : \A j \in 1 .. i : Settled(n, j)
        /\ ~durable => \A i \in seen[n] : i <= cursor[n]

(* What the topic says after its first k events. *)
Told(n, k) == IF k = 0 THEN None ELSE Effect(n, log[k])

(* Nothing was begun yet. *)
Untouched == actors = {} => log = << >> /\ \A n \in Nodes : cache[n] = None /\ seen[n] = {}

(* Every operation is accounted for, and stands where it may stand. *)
BusyBegun ==
    \A t \in Tasks :
        /\ tpc[t] # "idle" => t \in actors /\ op[t] \in used
        /\ tpc[t] \in {"issuing", "insert"} => op[t] \in {"get", "resolve"}
        /\ tpc[t] = "publish" => op[t] \in {"get", "invalidate"}

(* One task works alone, with the operations that publish, over a backend    *)
(* that delivers and with clocks in step.                                    *)
Alone(t) == durable /\ InStep /\ Only({"get", "invalidate"}) /\ actors \subseteq {t}

(* Then its own instance holds what it published last or is about to         *)
(* publish, and every other one what the last event it applied says.         *)
HoldsLast(m) ==
    /\ seen[m] = {} => cache[m] = None
    /\ \A k \in seen[m] : (\A j \in seen[m] : j <= k) => cache[m] = Effect(m, log[k])

Follows(t) ==
    LET h == Here(t) IN
    /\ \A i \in 1 .. Len(log) : log[i].by = h
    /\ cache[h] = IF tpc[t] = "publish" THEN Effect(h, Event(t)) ELSE Told(h, Len(log))
    /\ \A m \in Nodes \ {h} : HoldsLast(m)

(* The invariant of a single writer. *)
AloneFollowed == \A t \in Tasks : Alone(t) => Follows(t)

(* When every operation is a get, an instance that has published, or has     *)
(* applied an event, or is about to publish, holds a credential, and one     *)
(* that holds a credential has a published or a coming event to thank.       *)
GetsSpread ==
    durable /\ Only({"get"}) =>
        /\ \A i \in 1 .. Len(log) : log[i].kind = "issued" /\ cache[log[i].by] # None
        /\ \A n \in Nodes : seen[n] # {} => cache[n] # None
        /\ \A t \in Tasks : tpc[t] = "publish" => cache[Here(t)] # None
        /\ (\E n \in Nodes : cache[n] # None) =>
               log # << >> \/ \E t \in Tasks : tpc[t] = "publish"

-------------------------------------------------------------------------------
(* Types.                                                                   *)

(* What a task publishes is an event. *)
LEMMA EventType ==
    ASSUME TopicType, NEW t \in Tasks
    PROVE  /\ Event(t) \in Events /\ Event(t).by = Here(t)
           /\ Event(t).kind = IF op[t] = "get" THEN "issued" ELSE "revoked"
           /\ op[t] = "get" => Event(t).cred = cred[t]
           /\ Event(t).at = stamp[t]
BY TaskAssumption DEF TopicType, TaskType, Event, Events, Issued, Revoked, Here, None

(* A published event goes to the end of the topic and moves no other. *)
LEMMA LogGrows ==
    ASSUME TopicType, NEW t \in Tasks, log' = Append(log, Event(t))
    PROVE  /\ log' \in Seq(Events)
           /\ Len(log') = Len(log) + 1 /\ Len(log) \in Nat
           /\ \A i \in 1 .. Len(log) : log'[i] = log[i]
           /\ log'[Len(log) + 1] = Event(t)
BY EventType DEF TopicType, ReadType

(* An event that comes up is an event. *)
LEMMA Received ==
    ASSUME TopicType, NEW n \in Nodes, Receive(n)
    PROVE  /\ cursor[n] + 1 \in 1 .. Len(log) /\ Len(log) \in Nat
           /\ log[cursor[n] + 1] \in Events
           /\ Effect(n, log[cursor[n] + 1]) \in Nat
<1>1. cursor[n] + 1 \in 1 .. Len(log) /\ Len(log) \in Nat
  BY DEF Receive, TopicType, ReadType
<1>2. log[cursor[n] + 1] \in Events
  BY <1>1 DEF TopicType, ReadType
<1> QED BY <1>1, <1>2 DEF Effect, Events, None

(* A clock shows a number. *)
LEMMA ClockNat == ASSUME TopicType, NEW n \in Nodes PROVE Clock(n) \in Nat
BY DEF TopicType, ClockType, Clock

(* What a task does to the types of its own variables. *)
LEMMA NextTaskType == TopicType /\ [Next]_vars => TaskType'
<1> SUFFICES ASSUME TopicType, [Next]_vars PROVE TaskType'
  OBVIOUS
<1> USE DEF TopicType, TaskType, HoldType, Goto, Return, taskVars, history, Begin, None
<1>1. ASSUME NEW t \in Tasks, NEW o \in {"get", "resolve"}, Miss(t, o) PROVE TaskType'
  BY <1>1 DEF Miss, Operations
<1>2. ASSUME NEW t \in Tasks, IssueReturns(t) PROVE TaskType'
  BY <1>2 DEF IssueReturns
<1>3. ASSUME NEW t \in Tasks, Return(t), UNCHANGED history PROVE TaskType'
  BY <1>3
<1>0. ASSUME NEW t \in Tasks PROVE Clock(Here(t)) \in Nat
  BY ClockNat, TaskAssumption DEF Here
<1>4. ASSUME NEW t \in Tasks, Insert(t) PROVE TaskType'
  <2>1. CASE op[t] = "get"
    BY <1>0, <1>4, <2>1 DEF Insert, BeginPublish
  <2>2. CASE op[t] # "get"
    BY <1>3, <1>4, <2>2 DEF Insert
  <2> QED BY <2>1, <2>2
<1>5. ASSUME NEW t \in Tasks, Invalidate(t) \/ InvalidatePlugin(t) PROVE TaskType'
  <2>1. CASE Invalidate(t)
    BY <1>0, <2>1 DEF Invalidate, BeginPublish, Operations
  <2>2. CASE InvalidatePlugin(t)
    BY <2>2 DEF InvalidatePlugin, Operations
  <2> QED BY <1>5, <2>1, <2>2
<1>6. CASE UNCHANGED <<taskVars, history>>
  BY <1>6
<1> QED BY <1>1, <1>2, <1>3, <1>4, <1>5, <1>6
        DEF Next, Task, vars, IssueFails, PublishFails, Publish, Receive, Replay, Lose, Tick

(* What an instance holds stays a credential or none. *)
LEMMA NextHoldType == TopicType /\ [Next]_vars => HoldType'
<1> SUFFICES ASSUME TopicType, [Next]_vars PROVE HoldType'
  OBVIOUS
<1> USE DEF TopicType, HoldType, None
<1>1. ASSUME NEW t \in Tasks, Insert(t) PROVE HoldType'
  BY <1>1, TaskAssumption DEF Insert, Here, TaskType
<1>2. ASSUME NEW t \in Tasks, Invalidate(t) \/ InvalidatePlugin(t) PROVE HoldType'
  BY <1>2, TaskAssumption DEF Invalidate, InvalidatePlugin, Here
<1>3. ASSUME NEW t \in Tasks, IssueReturns(t) PROVE HoldType'
  BY <1>3 DEF IssueReturns
<1>4. ASSUME NEW n \in Nodes, Receive(n) PROVE HoldType'
  <2>1. CASE Applies(n, cursor[n] + 1)
    BY <1>4, <2>1, Received DEF Receive
  <2>2. CASE ~Applies(n, cursor[n] + 1)
    BY <1>4, <2>2 DEF Receive
  <2> QED BY <2>1, <2>2
<1>5. CASE UNCHANGED <<cache, issued, durable>>
  BY <1>5
<1> QED BY <1>1, <1>2, <1>3, <1>4, <1>5
        DEF Next, Task, vars, Miss, IssueFails, PublishFails, Publish, Replay, Lose, Tick

(* The topic holds events, and readers stay inside it. *)
LEMMA NextReadType == TopicType /\ [Next]_vars => ReadType'
<1> SUFFICES ASSUME TopicType, [Next]_vars PROVE ReadType'
  OBVIOUS
<1> USE DEF TopicType, ReadType
<1>1. ASSUME NEW t \in Tasks, Publish(t) PROVE ReadType'
  <2>1. /\ log' \in Seq(Events)
        /\ Len(log') = Len(log) + 1 /\ Len(log) \in Nat
    BY <1>1, LogGrows DEF Publish
  <2> QED BY <1>1, <2>1 DEF Publish
<1>2. ASSUME NEW n \in Nodes, Receive(n) PROVE ReadType'
  <2>1. cursor[n] + 1 \in 1 .. Len(log) /\ Len(log) \in Nat
    BY <1>2, Received
  <2>2. CASE Applies(n, cursor[n] + 1)
    <3>1. /\ UNCHANGED log
          /\ cursor' = [cursor EXCEPT ![n] = cursor[n] + 1]
          /\ seen' = [seen EXCEPT ![n] = seen[n] \cup {cursor[n] + 1}]
      BY <1>2, <2>2 DEF Receive
    <3>2. seen[n] \cup {cursor[n] + 1} \subseteq 1 .. Len(log)
      BY <2>1
    <3>3. seen' \in [Nodes -> SUBSET Nat] /\ \A m \in Nodes : seen'[m] \subseteq 1 .. Len(log')
      BY <3>1, <3>2
    <3>4. cursor' \in [Nodes -> Nat] /\ \A m \in Nodes : cursor'[m] <= Len(log')
      BY <2>1, <3>1
    <3> QED BY <3>1, <3>3, <3>4
  <2>3. CASE ~Applies(n, cursor[n] + 1)
    BY <1>2, <2>1, <2>3 DEF Receive
  <2> QED BY <2>2, <2>3
<1>3. ASSUME NEW n \in Nodes, Replay(n) PROVE ReadType'
  <2>1. PICK i \in 0 .. cursor[n] - 1 : cursor' = [cursor EXCEPT ![n] = i]
    BY <1>3 DEF Replay
  <2>2. i \in Nat /\ i <= Len(log)
    BY <2>1
  <2> QED BY <1>3, <2>1, <2>2 DEF Replay
<1>4. ASSUME NEW n \in Nodes, Lose(n) PROVE ReadType'
  BY <1>4 DEF Lose
<1>5. CASE UNCHANGED <<log, cursor, seen>>
  BY <1>5
<1> QED BY <1>1, <1>2, <1>3, <1>4, <1>5
        DEF Next, Task, vars, Miss, IssueReturns, IssueFails, PublishFails, Insert,
            Invalidate, InvalidatePlugin, Tick

(* Clocks go forward, at the pace of all; histories only grow; the backend  *)
(* stays what it is.                                                        *)
LEMMA Onward ==
    ASSUME TopicType, [Next]_vars
    PROVE  /\ now' \in Nat /\ now <= now' /\ offset' = offset /\ durable' = durable
           /\ actors \subseteq actors' /\ used \subseteq used'
<1> USE DEF TopicType, ClockType, HoldType
<1>1. CASE Tick
  BY <1>1 DEF Tick, history
<1>2. ASSUME NEW t \in Tasks, Task(t)
      PROVE  UNCHANGED <<now, offset, durable>> /\ actors \subseteq actors' /\ used \subseteq used'
  BY <1>2 DEF Task, Miss, IssueReturns, IssueFails, Insert, Invalidate, InvalidatePlugin,
              Publish, PublishFails, clockVars, history, Begin
<1>3. ASSUME NEW n \in Nodes, Receive(n) \/ Replay(n) \/ Lose(n)
      PROVE  UNCHANGED <<now, offset, durable, actors, used>>
  BY <1>3 DEF Receive, Replay, Lose, clockVars, history
<1>4. CASE UNCHANGED vars
  BY <1>4 DEF vars, clockVars, history
<1> QED BY <1>1, <1>2, <1>3, <1>4 DEF Next

(* Every step keeps the types. *)
LEMMA NextType == TopicType /\ [Next]_vars => TopicType'
<1>1. TopicType /\ [Next]_vars => ClockType'
  BY Onward DEF TopicType, ClockType
<1> QED BY <1>1, NextTaskType, NextHoldType, NextReadType DEF TopicType

(* The cluster starts well typed. *)
LEMMA InitType == Init => TopicType
<1>1. Init => TaskType
  BY DEF Init, TaskType, None
<1>2. Init => HoldType /\ ReadType
  BY DEF Init, HoldType, ReadType, None
<1>3. Init => ClockType
  <2>1. ASSUME Init, NEW n \in Nodes PROVE offset[n] \in Nat
    BY <2>1, ClockAssumption DEF Init
  <2>2. Init => now = 0 /\ offset = [n \in Nodes |-> offset[n]]
    BY DEF Init
  <2> QED BY <2>1, <2>2 DEF ClockType
<1> QED BY <1>1, <1>2, <1>3 DEF TopicType

-------------------------------------------------------------------------------
(* Each credential is in one place.                                         *)

(* Every step keeps each credential in one place. *)
LEMMA NextUnique == TopicType /\ CredentialsUnique /\ [Next]_vars => CredentialsUnique'
<1> SUFFICES ASSUME TopicType, CredentialsUnique, [Next]_vars PROVE CredentialsUnique'
  OBVIOUS
<1> USE DEF TopicType, TaskType, HoldType, ReadType
<1>1. ASSUME UNCHANGED <<issued, log>>,
             \A t \in Tasks : Carries(t)' => Carries(t) /\ cred'[t] = cred[t]
      PROVE  CredentialsUnique'
  BY <1>1 DEF CredentialsUnique
<1>2. ASSUME NEW t \in Tasks,
             \/ \E o \in {"get", "resolve"} : Miss(t, o)
             \/ IssueFails(t) \/ Insert(t) \/ Invalidate(t) \/ InvalidatePlugin(t)
             \/ PublishFails(t)
      PROVE  CredentialsUnique'
  <2>1. UNCHANGED <<issued, log>>
    BY <1>2 DEF Miss, IssueFails, Insert, Invalidate, InvalidatePlugin, PublishFails
  <2>2. ASSUME NEW u \in Tasks, Carries(u)' PROVE Carries(u) /\ cred'[u] = cred[u]
    BY <1>2, <2>2 DEF Carries, Miss, IssueFails, Insert, Invalidate, InvalidatePlugin,
                      PublishFails, BeginPublish, Goto, Return, taskVars
  <2> QED BY <1>1, <2>1, <2>2
<1>3. ASSUME NEW t \in Tasks, IssueReturns(t) PROVE CredentialsUnique'
  <2>1. /\ issued' = issued + 1 /\ UNCHANGED log
        /\ cred'[t] = issued + 1 /\ Carries(t)'
        /\ \A u \in Tasks \ {t} : cred'[u] = cred[u] /\ (Carries(u)' <=> Carries(u))
    BY <1>3 DEF IssueReturns, Goto, Carries
  <2>2. \A u \in Tasks \ {t} : Carries(u)' => cred'[u] \in 1 .. issued
    BY <2>1 DEF CredentialsUnique
  <2>3. \A i \in 1 .. Len(log) : log[i].kind = "issued" => log[i].cred \in 1 .. issued
    BY DEF CredentialsUnique
  <2>4. \A u \in Tasks : Carries(u)' => cred'[u] \in 1 .. issued'
    BY <2>1, <2>2
  <2>5. \A u, v \in Tasks : Carries(u)' /\ Carries(v)' /\ cred'[u] = cred'[v] => u = v
    <3>1. \A u, v \in Tasks \ {t} :
              Carries(u)' /\ Carries(v)' /\ cred'[u] = cred'[v] => u = v
      BY <2>1 DEF CredentialsUnique
    <3>2. \A u \in Tasks \ {t} : Carries(u)' => cred'[u] # cred'[t]
      BY <2>1, <2>2
    <3> QED BY <3>1, <3>2
  <2>6. \A i \in 1 .. Len(log) : log[i].kind = "issued" =>
            \A u \in Tasks : Carries(u)' => cred'[u] # log[i].cred
    <3>1. \A i \in 1 .. Len(log) : log[i].kind = "issued" =>
              \A u \in Tasks \ {t} : Carries(u)' => cred'[u] # log[i].cred
      BY <2>1 DEF CredentialsUnique
    <3>2. \A i \in 1 .. Len(log) : log[i].kind = "issued" => cred'[t] # log[i].cred
      <4>1. issued \in Nat /\ cred'[t] = issued + 1
        BY <2>1
      <4>2. \A c \in 1 .. issued : c # cred'[t]
        BY <4>1
      <4> QED BY <2>3, <4>2
    <3> QED BY <3>1, <3>2
  <2>7. \A i \in 1 .. Len(log) : log[i].kind = "issued" => log[i].cred \in 1 .. issued'
    BY <2>1, <2>3
  <2> QED BY <2>1, <2>4, <2>5, <2>6, <2>7 DEF CredentialsUnique
<1>4. ASSUME NEW t \in Tasks, Publish(t) PROVE CredentialsUnique'
  <2>1. /\ UNCHANGED issued /\ ~Carries(t)'
        /\ \A u \in Tasks \ {t} : cred'[u] = cred[u] /\ (Carries(u)' <=> Carries(u))
    BY <1>4 DEF Publish, Return, Goto, Carries
  <2>2. /\ Len(log') = Len(log) + 1 /\ Len(log) \in Nat
        /\ \A i \in 1 .. Len(log) : log'[i] = log[i]
        /\ log'[Len(log) + 1] = Event(t)
    BY <1>4, LogGrows DEF Publish
  <2>3. Event(t).kind = "issued" => Carries(t) /\ Event(t).cred = cred[t]
    BY <1>4, EventType DEF Publish, Carries
  <2>4. \A i \in 1 .. Len(log') : i \in 1 .. Len(log) \/ i = Len(log) + 1
    BY <2>2
  <2>5. \A u \in Tasks : Carries(u)' => u # t /\ Carries(u) /\ cred'[u] = cred[u]
    BY <2>1
  <2> DEFINE new == Len(log) + 1
  <2>6. ASSUME NEW i \in 1 .. Len(log'), log'[i].kind = "issued"
        PROVE  /\ log'[i].cred \in 1 .. issued
               /\ \A u \in Tasks : Carries(u)' => cred'[u] # log'[i].cred
    <3>1. CASE i \in 1 .. Len(log)
      BY <2>2, <2>5, <2>6, <3>1 DEF CredentialsUnique
    <3>2. CASE i = new
      BY <2>2, <2>3, <2>5, <2>6, <3>2 DEF CredentialsUnique
    <3> QED BY <2>4, <3>1, <3>2
  <2>7. ASSUME NEW i \in 1 .. Len(log'), NEW j \in 1 .. Len(log'),
               log'[i].kind = "issued", log'[j].kind = "issued",
               log'[i].cred = log'[j].cred
        PROVE  i = j
    <3>1. CASE i \in 1 .. Len(log) /\ j \in 1 .. Len(log)
      BY <2>2, <2>7, <3>1 DEF CredentialsUnique
    <3>0. ASSUME NEW k \in 1 .. Len(log), log[k].kind = "issued", Event(t).kind = "issued"
          PROVE  log[k].cred # Event(t).cred
      BY <2>3, <3>0 DEF CredentialsUnique
    <3>2. CASE i \in 1 .. Len(log) /\ j = new
      BY <2>2, <2>7, <3>0, <3>2
    <3>3. CASE i = new /\ j \in 1 .. Len(log)
      BY <2>2, <2>7, <3>0, <3>3
    <3> QED BY <2>4, <3>1, <3>2, <3>3
  <2>8. /\ \A u \in Tasks : Carries(u)' => cred'[u] \in 1 .. issued'
        /\ \A u, v \in Tasks : Carries(u)' /\ Carries(v)' /\ cred'[u] = cred'[v] => u = v
    BY <2>1, <2>5 DEF CredentialsUnique
  <2> QED BY <2>1, <2>6, <2>7, <2>8 DEF CredentialsUnique
<1>5. ASSUME NEW n \in Nodes, Receive(n) \/ Replay(n) \/ Lose(n) PROVE CredentialsUnique'
  BY <1>1, <1>5 DEF Receive, Replay, Lose, Carries, taskVars
<1>6. CASE Tick \/ UNCHANGED vars
  BY <1>1, <1>6 DEF Tick, vars, Carries, taskVars
<1> QED BY <1>2, <1>3, <1>4, <1>5, <1>6 DEF Next, Task

-------------------------------------------------------------------------------
(* Stamps and clocks.                                                       *)

(* Every step keeps the stamps in the past. *)
LEMMA NextStamps == TopicType /\ StampsPast /\ [Next]_vars => StampsPast'
<1> SUFFICES ASSUME TopicType, StampsPast, [Next]_vars PROVE StampsPast'
  OBVIOUS
<1> USE DEF TopicType, TaskType, ReadType, ClockType
<1>1. \A n \in Nodes : Clock(n) \in Nat /\ Clock(n)' \in Nat /\ Clock(n) <= Clock(n)'
  BY Onward DEF Clock
<1>2. \A t \in Tasks : Here(t) \in Nodes
  BY TaskAssumption DEF Here
<1>3. \A i \in 1 .. Len(log) : log[i] \in Events
  OBVIOUS
<1>4. (\A t \in Tasks : stamp[t] <= Clock(Here(t)))'
  <2> SUFFICES ASSUME NEW u \in Tasks PROVE stamp'[u] <= Clock(Here(u))'
    BY DEF Here
  <2>1. \/ stamp'[u] = stamp[u] \/ stamp'[u] = 0
        \/ stamp'[u] = Clock(Here(u))
    BY DEF Next, Task, vars, taskVars, Miss, IssueReturns, IssueFails, PublishFails, Insert,
           Invalidate, InvalidatePlugin, BeginPublish, Publish, Return, Receive, Replay,
           Lose, Tick
  <2> QED BY <1>1, <1>2, <2>1 DEF StampsPast, Here
<1>5. (\A i \in 1 .. Len(log) : log[i].at <= Clock(log[i].by))'
  <2>1. ASSUME NEW i \in 1 .. Len(log) PROVE log[i].at <= now' + offset'[log[i].by]
    <3>1. log[i].at \in Nat /\ log[i].by \in Nodes /\ log[i].at <= Clock(log[i].by)
      BY <1>3 DEF Events, StampsPast
    <3>2. Clock(log[i].by) <= now' + offset'[log[i].by]
      BY <3>1, Onward DEF Clock
    <3>3. now' + offset'[log[i].by] \in Nat /\ Clock(log[i].by) \in Nat
      BY <3>1, Onward, SMTT(20) DEF Clock
    <3> QED BY <3>1, <3>2, <3>3
  <2>2. CASE UNCHANGED log
    BY <2>1, <2>2 DEF Clock
  <2>3. ASSUME NEW t \in Tasks, Publish(t)
        PROVE  (\A i \in 1 .. Len(log) : log[i].at <= Clock(log[i].by))'
    <3>1. /\ Len(log') = Len(log) + 1 /\ Len(log) \in Nat
          /\ \A i \in 1 .. Len(log) : log'[i] = log[i]
          /\ log'[Len(log) + 1] = Event(t)
      BY <2>3, LogGrows DEF Publish
    <3>2. Event(t).by = Here(t) /\ Event(t).at = stamp[t]
      BY EventType
    <3>3. UNCHANGED clockVars
      BY <2>3 DEF Publish
    <3>4. stamp[t] <= now' + offset'[Here(t)]
      BY <1>2, <3>3 DEF StampsPast, Clock, clockVars
    <3> SUFFICES ASSUME NEW i \in 1 .. Len(log') PROVE log'[i].at <= now' + offset'[log'[i].by]
      BY DEF Clock
    <3>5. CASE i \in 1 .. Len(log)
      BY <2>1, <3>1, <3>5 DEF Clock
    <3>6. CASE i = Len(log) + 1
      BY <3>1, <3>2, <3>4, <3>6
    <3> QED BY <3>1, <3>5, <3>6
  <2> QED BY <2>2, <2>3 DEF Next, Task, vars, Miss, IssueReturns, IssueFails, PublishFails,
            Insert, Invalidate, InvalidatePlugin, Receive, Replay, Lose, Tick
<1> QED BY <1>4, <1>5 DEF StampsPast

(* At the start nothing is stamped. *)
LEMMA InitStamps == Init => StampsPast
<1> SUFFICES ASSUME Init PROVE StampsPast
  OBVIOUS
<1>1. TopicType /\ log = << >> /\ \A t \in Tasks : stamp[t] = 0
  BY InitType DEF Init
<1>2. \A t \in Tasks : Clock(Here(t)) \in Nat
  BY <1>1, ClockNat, TaskAssumption DEF Here
<1> QED BY <1>1, <1>2 DEF StampsPast

(* With clocks in step, an event refused for its stamp came late. *)
LEMMA RefusedIsLate ==
    ASSUME TopicType, StampsPast, InStep, NEW n \in Nodes, NEW i \in 1 .. Len(log),
           ~Fresh(n, log[i])
    PROVE  Late(n, i)
<1> DEFINE m == log[i].by
<1>1. log[i] \in Events
  BY DEF TopicType, ReadType
<1>2. m \in Nodes /\ log[i].at \in Nat
  BY <1>1 DEF Events
<1>3. now \in Nat /\ offset[m] \in Nat /\ offset[n] \in Nat /\ MaxAge \in Nat
  BY <1>2, ClockAssumption DEF TopicType, ClockType
<1>4. log[i].at <= now + offset[m] /\ offset[m] <= offset[n] + MaxAge
  BY <1>2 DEF StampsPast, InStep, Clock
<1> QED BY <1>2, <1>3, <1>4, SMTT(20) DEF Fresh, Late, Clock

(* Late once, late for good. *)
LEMMA LateForGood ==
    ASSUME TopicType, [Next]_vars, NEW n \in Nodes, NEW i \in 1 .. Len(log),
           log'[i] = log[i], Late(n, i)
    PROVE  Late(n, i)'
<1>1. log[i] \in Events
  BY DEF TopicType, ReadType
<1>2. log[i].at \in Nat /\ MaxAge \in Nat /\ now \in Nat /\ offset[n] \in Nat
  BY <1>1, ClockAssumption DEF Events, TopicType, ClockType
<1>3. now' \in Nat /\ now <= now' /\ offset'[n] = offset[n]
  BY Onward
<1>4. now + offset[n] > log[i].at + MaxAge
  BY DEF Late, Clock
<1>5. now' + offset'[n] > log'[i].at + MaxAge
  BY <1>2, <1>3, <1>4
<1> QED BY <1>5 DEF Late, Clock

-------------------------------------------------------------------------------
(* Subscribers read in order.                                               *)

(* What is settled for a subscriber stays settled. *)
LEMMA SettledForGood ==
    ASSUME TopicType, [Next]_vars, NEW n \in Nodes, NEW j \in 1 .. Len(log),
           log'[j] = log[j], seen[n] \subseteq seen'[n], Settled(n, j)
    PROVE  Settled(n, j)'
BY LateForGood DEF Settled

(* Every step keeps what a subscriber has seen closed downwards. *)
LEMMA NextOrder == TopicType /\ StampsPast /\ SeenInOrder /\ [Next]_vars => SeenInOrder'
<1> SUFFICES ASSUME TopicType, StampsPast, SeenInOrder, [Next]_vars PROVE SeenInOrder'
  OBVIOUS
<1> USE DEF TopicType, ReadType
<1>1. durable' = durable /\ (InStep' <=> InStep)
  BY Onward DEF InStep
<1>2. ASSUME \A i \in 1 .. Len(log) : log'[i] = log[i], UNCHANGED <<cursor, seen>>
      PROVE  SeenInOrder'
  <2> SUFFICES ASSUME NEW n \in Nodes
               PROVE  /\ durable /\ InStep =>
                             /\ \A j \in 1 .. cursor[n] : Settled(n, j)'
                             /\ \A i \in seen[n] : \A j \in 1 .. i : Settled(n, j)'
                      /\ ~durable => \A i \in seen[n] : i <= cursor[n]
    BY <1>1, <1>2 DEF SeenInOrder
  <2>1. ASSUME NEW j \in 1 .. Len(log), Settled(n, j) PROVE Settled(n, j)'
    BY <1>2, <2>1, SettledForGood
  <2>2. ASSUME durable, InStep, NEW j \in 1 .. cursor[n] PROVE Settled(n, j)'
    <3>1. j \in 1 .. Len(log) /\ Settled(n, j)
      BY <2>2 DEF SeenInOrder
    <3> QED BY <2>1, <3>1
  <2>3. ASSUME durable, InStep, NEW i \in seen[n], NEW j \in 1 .. i PROVE Settled(n, j)'
    <3>1. j \in 1 .. Len(log) /\ Settled(n, j)
      BY <2>3 DEF SeenInOrder
    <3> QED BY <2>1, <3>1
  <2> QED BY <2>2, <2>3 DEF SeenInOrder
<1>3. ASSUME NEW t \in Tasks, Publish(t) PROVE SeenInOrder'
  <2>1. UNCHANGED <<cursor, seen>> /\ \A i \in 1 .. Len(log) : log'[i] = log[i]
    BY <1>3, LogGrows DEF Publish
  <2> QED BY <1>2, <2>1
<1>4. ASSUME NEW n \in Nodes, Receive(n) PROVE SeenInOrder'
  <2> DEFINE i == cursor[n] + 1
  <2>1. /\ i \in 1 .. Len(log) /\ UNCHANGED <<log, now, offset>>
        /\ cursor' = [cursor EXCEPT ![n] = i]
    BY <1>4 DEF Receive, clockVars
  <2>2. \A m \in Nodes \ {n} : cursor'[m] = cursor[m] /\ seen'[m] = seen[m]
    BY <1>4 DEF Receive
  <2>3. \A m \in Nodes, j \in Nat : Late(m, j)' <=> Late(m, j)
    BY <2>1 DEF Late, Clock
  <2>4. /\ seen[n] \subseteq seen'[n] /\ seen'[n] \subseteq seen[n] \cup {i}
        /\ Applies(n, i) => i \in seen'[n]
    <3>1. CASE Applies(n, i)
      BY <1>4, <3>1 DEF Receive
    <3>2. CASE ~Applies(n, i)
      BY <1>4, <3>2 DEF Receive
    <3> QED BY <3>1, <3>2
  <2>5. durable /\ InStep => \A j \in 1 .. i : Settled(n, j)'
    <3> SUFFICES ASSUME durable, InStep, NEW j \in 1 .. i PROVE Settled(n, j)'
      OBVIOUS
    <3>1. CASE j = i
      <4>1. CASE Applies(n, i)
        BY <2>4, <3>1, <4>1 DEF Settled
      <4>2. CASE log[i].by = n \/ i \in seen[n]
        BY <2>1, <2>4, <3>1, <4>2 DEF Settled
      <4>3. CASE ~Fresh(n, log[i])
        <5>1. Late(n, i)
          BY <2>1, <4>3, RefusedIsLate
        <5> QED BY <2>1, <2>3, <3>1, <5>1 DEF Settled
      <4> QED BY <4>1, <4>2, <4>3 DEF Applies
    <3>2. CASE j \in 1 .. cursor[n]
      <4>1. Settled(n, j)
        BY <3>2 DEF SeenInOrder
      <4> QED BY <2>1, <2>3, <2>4, <3>2, <4>1 DEF Settled
    <3> QED BY <2>1, <3>1, <3>2
  <2>6. durable /\ InStep => \A k \in seen'[n] : \A j \in 1 .. k : Settled(n, j)'
    <3> SUFFICES ASSUME durable, InStep, NEW k \in seen'[n], NEW j \in 1 .. k
                 PROVE  Settled(n, j)'
      OBVIOUS
    <3>1. CASE k = i
      BY <2>5, <3>1
    <3>2. CASE k \in seen[n]
      <4>1. Settled(n, j) /\ j \in Nat
        BY <3>2 DEF SeenInOrder
      <4> QED BY <2>1, <2>3, <2>4, <4>1 DEF Settled
    <3> QED BY <2>4, <3>1, <3>2
  <2>7. ~durable => \A k \in seen'[n] : k <= i
    <3> SUFFICES ASSUME ~durable, NEW k \in seen'[n] PROVE k <= i
      OBVIOUS
    <3>1. CASE k = i
      BY <2>1, <3>1
    <3>2. CASE k \in seen[n]
      <4>1. k \in Nat /\ k <= cursor[n]
        BY <3>2 DEF SeenInOrder
      <4> QED BY <2>1, <4>1
    <3> QED BY <2>4, <3>1, <3>2
  <2>8. ASSUME NEW m \in Nodes \ {n}, NEW j \in Nat, Settled(m, j) PROVE Settled(m, j)'
    BY <2>1, <2>2, <2>3, <2>8 DEF Settled
  <2>9. ASSUME NEW m \in Nodes \ {n}
        PROVE  /\ durable /\ InStep =>
                      /\ \A j \in 1 .. cursor'[m] : Settled(m, j)'
                      /\ \A k \in seen'[m] : \A j \in 1 .. k : Settled(m, j)'
               /\ ~durable => \A k \in seen'[m] : k <= cursor'[m]
    BY <2>2, <2>8 DEF SeenInOrder
  <2>10. cursor'[n] = i
    BY <2>1
  <2> QED BY <1>1, <2>5, <2>6, <2>7, <2>9, <2>10 DEF SeenInOrder
<1>5. ASSUME NEW n \in Nodes, Replay(n) PROVE SeenInOrder'
  <2>1. PICK i \in 0 .. cursor[n] - 1 : cursor' = [cursor EXCEPT ![n] = i]
    BY <1>5 DEF Replay
  <2>2. durable /\ UNCHANGED <<log, seen, now, offset>>
    BY <1>5 DEF Replay, clockVars
  <2>3. \A m \in Nodes : \A j \in 1 .. cursor'[m] : j \in 1 .. cursor[m]
    BY <2>1
  <2>4. \A m \in Nodes, j \in Nat : Settled(m, j)' <=> Settled(m, j)
    BY <2>2 DEF Settled, Late, Clock
  <2> QED BY <1>1, <2>2, <2>3, <2>4 DEF SeenInOrder
<1>6. ASSUME NEW n \in Nodes, Lose(n) PROVE SeenInOrder'
  <2>1. /\ ~durable /\ UNCHANGED seen
        /\ \A m \in Nodes : cursor'[m] \in Nat /\ cursor[m] <= cursor'[m]
    BY <1>6 DEF Lose
  <2>2. ASSUME NEW m \in Nodes, NEW k \in seen[m] PROVE k <= cursor'[m]
    <3>1. k \in Nat /\ k <= cursor[m]
      BY <2>1 DEF SeenInOrder
    <3> QED BY <2>1, <3>1
  <2> QED BY <1>1, <2>1, <2>2 DEF SeenInOrder
<1> QED BY <1>2, <1>3, <1>4, <1>5, <1>6
        DEF Next, Task, vars, Miss, IssueReturns, IssueFails, Insert, Invalidate,
            InvalidatePlugin, PublishFails, Tick

(* An event that is applied comes after every event applied before. *)
LEMMA AppliedInOrder ==
    ASSUME TopicType, SeenInOrder, InStep \/ ~durable, NEW n \in Nodes, Receive(n),
           Applies(n, cursor[n] + 1), NEW i \in seen[n]
    PROVE  i \in Nat /\ i < cursor[n] + 1
<1> DEFINE new == cursor[n] + 1
<1>1. i \in Nat /\ new \in 1 .. Len(log) /\ i # new
  BY Received DEF TopicType, ReadType, Applies
<1>2. CASE durable
  <2>1. ~Settled(n, new)
    <3>1. log[new] \in Events
      BY <1>1 DEF TopicType, ReadType
    <3>2. log[new].at \in Nat /\ Clock(n) \in Nat /\ MaxAge \in Nat
      BY <3>1, ClockNat, ClockAssumption DEF Events
    <3> QED BY <3>2 DEF Applies, Fresh, Settled, Late
  <2>2. \A j \in 1 .. i : Settled(n, j)
    BY <1>2 DEF SeenInOrder
  <2> QED BY <1>1, <2>1, <2>2
<1>3. CASE ~durable
  BY <1>1, <1>3 DEF SeenInOrder, TopicType, ReadType
<1> QED BY <1>2, <1>3

-------------------------------------------------------------------------------
(* Revocation.                                                              *)

(* Steps that apply no event: a cache entry stays, goes, or becomes a        *)
(* credential that nobody published yet.                                     *)
LEMMA GoneUnlessApplied ==
    ASSUME TopicType, CredentialsUnique, RevokedStaysGone, [Next]_vars,
           UNCHANGED seen,
           \A i \in 1 .. Len(log) : log'[i] = log[i],
           \A n \in Nodes :
               \/ cache'[n] = cache[n] \/ cache'[n] = None
               \/ \A j \in 1 .. Len(log) : log[j].kind = "issued" => cache'[n] # log[j].cred
    PROVE  RevokedStaysGone'
<1>0. (InStep \/ ~durable)' <=> InStep \/ ~durable
  BY Onward DEF InStep
<1> SUFFICES ASSUME InStep \/ ~durable,
                    NEW n \in Nodes, NEW i \in seen[n], NEW j \in 1 .. i - 1,
                    log'[i].kind = "revoked", log'[j].kind = "issued"
             PROVE  cache'[n] # log'[j].cred
  BY <1>0 DEF RevokedStaysGone
<1>1. i \in 1 .. Len(log) /\ j \in 1 .. Len(log)
  BY DEF TopicType, ReadType
<1>2. log[i].kind = "revoked" /\ log[j].kind = "issued" /\ log'[j].cred = log[j].cred
  BY <1>1
<1>3. cache[n] # log[j].cred
  BY <1>2 DEF RevokedStaysGone
<1>4. log[j].cred # None
  BY <1>1, <1>2 DEF CredentialsUnique, None
<1> QED BY <1>1, <1>2, <1>3, <1>4

(* No step brings back a credential whose revocation was seen. *)
LEMMA NextGone ==
    TopicType /\ CredentialsUnique /\ SeenInOrder /\ RevokedStaysGone /\ [Next]_vars
        => RevokedStaysGone'
<1> SUFFICES ASSUME TopicType, CredentialsUnique, SeenInOrder, RevokedStaysGone, [Next]_vars
             PROVE  RevokedStaysGone'
  OBVIOUS
<1> USE DEF TopicType, TaskType, HoldType, ReadType
<1>1. CASE UNCHANGED <<cache, log, seen>>
  BY <1>1, GoneUnlessApplied
<1>2. ASSUME NEW t \in Tasks, Insert(t) PROVE RevokedStaysGone'
  <2>1. UNCHANGED <<log, seen>> /\ cache' = [cache EXCEPT ![Here(t)] = cred[t]] /\ Carries(t)
    BY <1>2 DEF Insert, Carries
  <2>2. \A j \in 1 .. Len(log) : log[j].kind = "issued" => cred[t] # log[j].cred
    BY <2>1 DEF CredentialsUnique
  <2>3. \A n \in Nodes : cache'[n] = cache[n] \/ cache'[n] = cred[t]
    BY <2>1
  <2> QED BY <2>1, <2>2, <2>3, GoneUnlessApplied
<1>3. ASSUME NEW t \in Tasks, Invalidate(t) \/ InvalidatePlugin(t) PROVE RevokedStaysGone'
  <2>1. UNCHANGED <<log, seen>> /\ cache' = [cache EXCEPT ![Here(t)] = None]
    BY <1>3 DEF Invalidate, InvalidatePlugin
  <2>2. \A n \in Nodes : cache'[n] = cache[n] \/ cache'[n] = None
    BY <2>1
  <2> QED BY <2>1, <2>2, GoneUnlessApplied
<1>4. ASSUME NEW t \in Tasks, Publish(t) PROVE RevokedStaysGone'
  <2>1. UNCHANGED <<cache, seen>> /\ \A i \in 1 .. Len(log) : log'[i] = log[i]
    BY <1>4, LogGrows DEF Publish
  <2> QED BY <2>1, GoneUnlessApplied
<1>5. ASSUME NEW n \in Nodes, Receive(n) PROVE RevokedStaysGone'
  <2> DEFINE new == cursor[n] + 1
  <2>1. CASE ~Applies(n, new)
    BY <1>1, <1>5, <2>1 DEF Receive
  <2>2. CASE Applies(n, new)
    <3>1. /\ UNCHANGED log
          /\ cache' = [cache EXCEPT ![n] = Effect(n, log[new])]
          /\ seen' = [seen EXCEPT ![n] = seen[n] \cup {new}]
      BY <1>5, <2>2 DEF Receive
    <3>2. new \in 1 .. Len(log) /\ log[new].by # n /\ new \notin seen[n]
      BY <1>5, <2>2, Received DEF Applies
    <3>0. (InStep \/ ~durable)' <=> InStep \/ ~durable
      BY Onward DEF InStep
    <3> SUFFICES ASSUME InStep \/ ~durable PROVE RevokedStaysGone'
      BY <3>0 DEF RevokedStaysGone
    <3>3. ASSUME NEW i \in seen[n] PROVE i \in Nat /\ i < new
      BY <1>5, <2>2, AppliedInOrder
    <3>4. ASSUME NEW i \in seen[n] \cup {new}, NEW j \in 1 .. i - 1,
                 log[i].kind = "revoked", log[j].kind = "issued"
          PROVE  Effect(n, log[new]) # log[j].cred
      <4>1. j \in 1 .. Len(log) /\ j # new
        BY <3>2, <3>3
      <4>2. CASE log[new].kind = "issued"
        BY <3>2, <3>4, <4>1, <4>2 DEF CredentialsUnique, Effect
      <4>3. CASE log[new].kind # "issued"
        BY <3>4, <4>1, <4>3 DEF CredentialsUnique, Effect, None
      <4> QED BY <4>2, <4>3
    <3>5. \A m \in Nodes \ {n} : cache'[m] = cache[m] /\ seen'[m] = seen[m]
      BY <3>1
    <3>6. cache'[n] = Effect(n, log[new]) /\ seen'[n] = seen[n] \cup {new}
      BY <3>1
    <3>7. ASSUME NEW m \in Nodes, NEW i \in seen'[m], NEW j \in 1 .. i - 1,
                 log[i].kind = "revoked", log[j].kind = "issued"
          PROVE  cache'[m] # log[j].cred
      <4>1. CASE m = n
        BY <3>4, <3>6, <3>7, <4>1
      <4>2. CASE m # n
        BY <3>5, <3>7, <4>2 DEF RevokedStaysGone
      <4> QED BY <4>1, <4>2
    <3> QED BY <3>1, <3>7, SMTT(20) DEF RevokedStaysGone
  <2> QED BY <2>1, <2>2
<1> QED BY <1>1, <1>2, <1>3, <1>4, <1>5
        DEF Next, Task, vars, Miss, IssueReturns, IssueFails, PublishFails, Replay, Lose, Tick

(* In every state of the cluster, for any number of instances and tasks and  *)
(* either kind of backend: an instance whose subscriber applied a Revoked    *)
(* event holds no credential published before it, unless the backend replays *)
(* and clocks are further apart than the freshness window.                   *)
THEOREM RevocationIsFinal == Spec => []RevokedStaysGone
<1>1. Init => CredentialsUnique /\ SeenInOrder /\ RevokedStaysGone
  BY DEF Init, CredentialsUnique, SeenInOrder, RevokedStaysGone, Carries
<1> QED BY <1>1, InitType, InitStamps, NextType, NextStamps, NextUnique, NextOrder, NextGone,
           PTL DEF Spec

-------------------------------------------------------------------------------
(* Convergence.                                                             *)

(* Every step keeps the account of what was begun. *)
LEMMA NextBusy == TopicType /\ BusyBegun /\ [Next]_vars => BusyBegun'
<1> SUFFICES ASSUME TopicType, BusyBegun, [Next]_vars PROVE BusyBegun'
  OBVIOUS
<1> USE DEF TopicType, TaskType, Goto, BeginPublish, Return, Begin, taskVars, history
<1>1. ASSUME NEW t \in Tasks, Task(t) PROVE BusyBegun'
  <2>1. actors \subseteq actors' /\ used \subseteq used'
    BY Onward
  <2>2. \A u \in Tasks \ {t} : tpc'[u] = tpc[u] /\ op'[u] = op[u]
    BY <1>1 DEF Task, Miss, IssueReturns, IssueFails, Insert, Invalidate, InvalidatePlugin,
                Publish, PublishFails
  <2>3. /\ tpc'[t] # "idle" => t \in actors' /\ op'[t] \in used'
        /\ tpc'[t] \in {"issuing", "insert"} => op'[t] \in {"get", "resolve"}
        /\ tpc'[t] = "publish" => op'[t] \in {"get", "invalidate"}
    <3>1. ASSUME NEW o \in {"get", "resolve"}, Miss(t, o)
          PROVE  tpc'[t] = "issuing" /\ op'[t] = o /\ t \in actors' /\ o \in used'
      BY <3>1 DEF Miss
    <3>2. CASE IssueReturns(t)
      BY <3>2 DEF IssueReturns, BusyBegun
    <3>3. CASE Insert(t)
      BY <3>3 DEF Insert, BusyBegun
    <3>4. CASE Invalidate(t)
      BY <3>4 DEF Invalidate
    <3>5. CASE InvalidatePlugin(t)
      BY <3>5 DEF InvalidatePlugin, BusyBegun
    <3>6. CASE IssueFails(t) \/ Publish(t) \/ PublishFails(t)
      BY <3>6 DEF IssueFails, Publish, PublishFails
    <3> QED BY <1>1, <3>1, <3>2, <3>3, <3>4, <3>5, <3>6 DEF Task
  <2> QED BY <2>1, <2>2, <2>3 DEF BusyBegun
<1>2. CASE UNCHANGED <<taskVars, history>>
  BY <1>2 DEF BusyBegun
<1> QED BY <1>1, <1>2 DEF Next, vars, Receive, Replay, Lose, Tick

(* While every operation is a get, each step keeps instances full together. *)
LEMMA NextGets ==
    TopicType /\ CredentialsUnique /\ BusyBegun /\ GetsSpread /\ [Next]_vars => GetsSpread'
<1> SUFFICES ASSUME TopicType, CredentialsUnique, BusyBegun, GetsSpread, [Next]_vars,
                    durable', Only({"get"})'
             PROVE  GetsSpread'
  BY DEF GetsSpread
<1> USE DEF TopicType, TaskType, HoldType, ReadType
<1>1. durable /\ Only({"get"})
  BY Onward DEF Only
<1>2. /\ \A i \in 1 .. Len(log) : log[i].kind = "issued" /\ cache[log[i].by] # None
      /\ \A n \in Nodes : seen[n] # {} => cache[n] # None
      /\ \A t \in Tasks : tpc[t] = "publish" => cache[Here(t)] # None
      /\ (\E n \in Nodes : cache[n] # None) =>
             log # << >> \/ \E t \in Tasks : tpc[t] = "publish"
  BY <1>1 DEF GetsSpread
<1>3. ASSUME NEW t \in Tasks, tpc[t] # "idle" PROVE op[t] = "get"
  BY <1>1, <1>3 DEF BusyBegun, Only
<1>4. ASSUME NEW i \in 1 .. Len(log) PROVE log[i].by \in Nodes
  <2>1. log[i] \in Events
    OBVIOUS
  <2> QED BY <2>1 DEF Events
<1>5. ASSUME NEW t \in Tasks, Insert(t) PROVE GetsSpread'
  <2>1. /\ UNCHANGED <<log, seen>> /\ tpc' = [tpc EXCEPT ![t] = "publish"]
        /\ cache' = [cache EXCEPT ![Here(t)] = cred[t]] /\ Carries(t)
    BY <1>3, <1>5 DEF Insert, BeginPublish, Goto, Carries
  <2>2. cred[t] # None
    BY <2>1 DEF CredentialsUnique, None
  <2>3. cache'[Here(t)] # None /\ \A n \in Nodes : cache[n] # None => cache'[n] # None
    BY <2>1, <2>2, TaskAssumption DEF Here
  <2>4. tpc'[t] = "publish" /\ \A u \in Tasks : u # t => tpc'[u] = tpc[u]
    BY <2>1
  <2> QED BY <1>2, <1>4, <2>1, <2>3, <2>4, TaskAssumption DEF GetsSpread, Here
<1>6. ASSUME NEW t \in Tasks, Invalidate(t) \/ InvalidatePlugin(t) PROVE FALSE
  <2>1. "invalidate" \in used' \/ "invalidate_plugin" \in used'
    BY <1>6 DEF Invalidate, InvalidatePlugin, Begin
  <2> QED BY <2>1 DEF Only
<1>7. ASSUME NEW t \in Tasks, Publish(t) PROVE GetsSpread'
  <2>1. /\ UNCHANGED <<cache, seen>> /\ \A u \in Tasks : tpc'[u] = "publish" => tpc[u] = "publish"
        /\ tpc[t] = "publish"
    BY <1>7 DEF Publish, Return, Goto
  <2>2. /\ Len(log') = Len(log) + 1 /\ Len(log) \in Nat /\ log' \in Seq(Events)
        /\ \A i \in 1 .. Len(log) : log'[i] = log[i]
        /\ log'[Len(log) + 1] = Event(t)
    BY <1>7, LogGrows DEF Publish
  <2>3. Event(t).kind = "issued" /\ Event(t).by = Here(t)
    BY <1>3, <2>1, EventType
  <2>4. log' # << >>
    BY <2>2
  <2>5. \A i \in 1 .. Len(log') : i \in 1 .. Len(log) \/ i = Len(log) + 1
    BY <2>2
  <2>6. \A i \in 1 .. Len(log') : log'[i].kind = "issued" /\ cache[log'[i].by] # None
    <3> SUFFICES ASSUME NEW i \in 1 .. Len(log')
                 PROVE  log'[i].kind = "issued" /\ cache[log'[i].by] # None
      OBVIOUS
    <3>1. CASE i \in 1 .. Len(log)
      BY <1>2, <2>2, <3>1
    <3>2. CASE i = Len(log) + 1
      BY <1>2, <2>1, <2>2, <2>3, <3>2
    <3> QED BY <2>5, <3>1, <3>2
  <2> QED BY <1>2, <2>1, <2>4, <2>6 DEF GetsSpread
<1>8. ASSUME NEW n \in Nodes, Receive(n) PROVE GetsSpread'
  <2> DEFINE i == cursor[n] + 1
  <2>1. UNCHANGED <<log, tpc>> /\ i \in 1 .. Len(log) /\ Len(log) \in Nat
    BY <1>8, Received DEF Receive, taskVars
  <2>2. log # << >>
    BY <2>1
  <2>3. CASE Applies(n, i)
    <3>1. /\ cache' = [cache EXCEPT ![n] = Effect(n, log[i])]
          /\ \A m \in Nodes \ {n} : seen'[m] = seen[m]
      BY <1>8, <2>3 DEF Receive
    <3>2. Effect(n, log[i]) # None
      BY <1>2, <2>1 DEF CredentialsUnique, Effect, None
    <3>3. cache'[n] # None /\ \A m \in Nodes : cache[m] # None => cache'[m] # None
      BY <3>1, <3>2
    <3> QED BY <1>2, <1>4, <2>1, <2>2, <3>1, <3>3, TaskAssumption DEF GetsSpread, Here
  <2>4. CASE ~Applies(n, i)
    BY <1>2, <1>8, <2>1, <2>4 DEF Receive, GetsSpread
  <2> QED BY <2>3, <2>4
<1>9. ASSUME UNCHANGED <<cache, log, seen>>,
             \A u \in Tasks : tpc'[u] = "publish" <=> tpc[u] = "publish"
      PROVE  GetsSpread'
  BY <1>2, <1>9 DEF GetsSpread
<1>10. ASSUME NEW t \in Tasks, NEW o \in {"get", "resolve"},
              Miss(t, o) \/ IssueReturns(t) \/ IssueFails(t)
       PROVE  GetsSpread'
  BY <1>9, <1>10 DEF Miss, IssueReturns, IssueFails, Goto, Return
<1>11. CASE UNCHANGED <<cache, log, seen, tpc>>
  BY <1>9, <1>11
<1>12. ASSUME NEW t \in Tasks, PublishFails(t) PROVE FALSE
  BY <1>1, <1>12 DEF PublishFails
<1> QED BY <1>5, <1>6, <1>7, <1>8, <1>10, <1>11, <1>12
        DEF Next, Task, vars, taskVars, Replay, Lose, Tick

(* With a durable backend, no invalidation and clocks in step, an instance   *)
(* of a cluster at rest that has no credential while another has one was     *)
(* reached by every event too late, whichever tasks of whichever instances   *)
(* raced to issue.                                                           *)
THEOREM RacersAgree == Spec => []PresenceAgrees
<1>1. Init => CredentialsUnique /\ SeenInOrder /\ BusyBegun /\ GetsSpread
  BY DEF Init, CredentialsUnique, SeenInOrder, BusyBegun, GetsSpread, Carries, None
<1>2. TopicType /\ SeenInOrder /\ GetsSpread => PresenceAgrees
  <2> SUFFICES ASSUME TopicType, SeenInOrder, GetsSpread, Quiet, durable, InStep,
                      Only({"get"}), NEW n \in Nodes, NEW m \in Nodes,
                      cache[n] = None, cache[m] # None
               PROVE  log # << >> /\ \A i \in 1 .. Len(log) : Late(n, i)
    BY DEF PresenceAgrees
  <2>1. log # << >>
    BY DEF GetsSpread, Quiet
  <2>2. \A i \in 1 .. Len(log) : log[i].by # n /\ i \notin seen[n]
    BY DEF GetsSpread
  <2>3. \A i \in 1 .. Len(log) : Settled(n, i)
    BY DEF SeenInOrder, Quiet
  <2> QED BY <2>1, <2>2, <2>3 DEF Settled
<1> QED BY <1>1, <1>2, InitType, InitStamps, NextType, NextStamps, NextUnique, NextOrder,
           NextBusy, NextGets, PTL DEF Spec

(* Until something is begun, nothing is published and nothing held. *)
LEMMA NextUntouched == TopicType /\ BusyBegun /\ Untouched /\ [Next]_vars => Untouched'
<1> SUFFICES ASSUME TopicType, BusyBegun, Untouched, [Next]_vars, actors' = {}
             PROVE  UNCHANGED <<log, cache, seen>>
  BY Onward DEF Untouched
<1> USE DEF TopicType, TaskType, HoldType, ReadType
<1>1. actors = {} /\ log = << >> /\ \A t \in Tasks : tpc[t] = "idle"
  BY Onward DEF Untouched, BusyBegun
<1>2. ASSUME NEW t \in Tasks, Task(t) PROVE FALSE
  BY <1>1, <1>2 DEF Task, Miss, IssueReturns, IssueFails, Insert, Invalidate,
                    InvalidatePlugin, Publish, PublishFails, Begin
<1>3. ASSUME NEW n \in Nodes, Receive(n) PROVE FALSE
  BY <1>1, <1>3, Received
<1> QED BY <1>2, <1>3 DEF Next, vars, Replay, Lose, Tick

(* Only the task that works alone takes a step, and none that it may not. *)
LEMMA AloneSteps ==
    ASSUME TopicType, BusyBegun, [Next]_vars, NEW t \in Tasks, Alone(t)'
    PROVE  /\ Alone(t)
           /\ tpc[t] # "idle" => op[t] \in {"get", "invalidate"}
           /\ \A u \in Tasks : Task(u) => u = t
           /\ ~InvalidatePlugin(t) /\ ~PublishFails(t)
<1> USE DEF TopicType, TaskType
<1>1. Alone(t)
  BY Onward DEF Alone, Only, InStep
<1>2. ASSUME NEW u \in Tasks, tpc[u] # "idle" PROVE u = t /\ op[u] \in {"get", "invalidate"}
  BY <1>1, <1>2 DEF BusyBegun, Alone, Only
<1>3. ASSUME NEW u \in Tasks, Task(u) PROVE u = t
  <2>1. CASE tpc[u] # "idle"
    BY <1>2, <2>1
  <2>2. CASE tpc[u] = "idle"
    <3>1. u \in actors'
      BY <1>3, <2>2 DEF Task, Miss, IssueReturns, IssueFails, Insert, Invalidate,
                        InvalidatePlugin, Publish, PublishFails, Begin
    <3> QED BY <3>1 DEF Alone
  <2> QED BY <2>1, <2>2
<1>4. ~InvalidatePlugin(t)
  <2> SUFFICES ASSUME InvalidatePlugin(t) PROVE FALSE
    OBVIOUS
  <2>1. "invalidate_plugin" \in used'
    BY DEF InvalidatePlugin, Begin
  <2> QED BY <2>1 DEF Alone, Only
<1>5. ~PublishFails(t)
  BY <1>1 DEF Alone, PublishFails
<1> QED BY <1>1, <1>2, <1>3, <1>4, <1>5

(* While one task works alone, every instance follows its topic. *)
LEMMA NextAlone ==
    TopicType /\ BusyBegun /\ SeenInOrder /\ AloneFollowed /\ [Next]_vars => AloneFollowed'
<1> SUFFICES ASSUME TopicType, BusyBegun, SeenInOrder, AloneFollowed, [Next]_vars,
                    NEW t \in Tasks, Alone(t)'
             PROVE  Follows(t)'
  BY DEF AloneFollowed
<1> USE DEF TopicType, TaskType, HoldType, ReadType
<1> DEFINE h == Here(t)
<1>1. /\ Alone(t)
      /\ tpc[t] # "idle" => op[t] \in {"get", "invalidate"}
      /\ \A u \in Tasks : Task(u) => u = t
      /\ ~InvalidatePlugin(t) /\ ~PublishFails(t)
  BY AloneSteps
<1>2. /\ \A i \in 1 .. Len(log) : log[i].by = h
      /\ cache[h] = IF tpc[t] = "publish" THEN Effect(h, Event(t)) ELSE Told(h, Len(log))
      /\ \A m \in Nodes \ {h} : HoldsLast(m)
  BY <1>1 DEF AloneFollowed, Follows
<1>3. h \in Nodes /\ Len(log) \in Nat
  BY TaskAssumption DEF Here
<1>4. ASSUME UNCHANGED <<log, seen>>,
             \A m \in Nodes \ {h} : cache'[m] = cache[m],
             cache'[h] = IF tpc'[t] = "publish" THEN Effect(h, Event(t)') ELSE Told(h, Len(log))
      PROVE  Follows(t)'
  <2>1. ASSUME NEW m \in Nodes \ {h} PROVE HoldsLast(m)'
    BY <1>2, <1>4 DEF HoldsLast, Effect
  <2>2. cache'[h] = IF tpc'[t] = "publish" THEN Effect(h, Event(t))' ELSE Told(h, Len(log))'
    BY <1>4 DEF Told, Effect
  <2> QED BY <1>2, <1>4, <2>1, <2>2 DEF Follows, Here
<1>5. ASSUME NEW o \in {"get", "resolve"}, Miss(t, o) \/ IssueReturns(t) \/ IssueFails(t)
      PROVE  Follows(t)'
  <2>1. UNCHANGED <<log, seen, cache>> /\ tpc'[t] # "publish" /\ tpc[t] # "publish"
    BY <1>5 DEF Miss, IssueReturns, IssueFails, Goto, Return
  <2> QED BY <1>2, <1>4, <2>1
<1>6. CASE Insert(t)
  <2>1. op[t] = "get"
    BY <1>1, <1>6 DEF Insert, BusyBegun
  <2>2. /\ UNCHANGED <<log, seen, op, cred>>
        /\ cache' = [cache EXCEPT ![h] = cred[t]] /\ tpc'[t] = "publish"
    BY <1>6, <2>1 DEF Insert, BeginPublish, Goto
  <2>3. Effect(h, Event(t)') = cred[t]
    BY <2>1, <2>2 DEF Effect, Event, Issued
  <2> QED BY <1>3, <1>4, <2>2, <2>3
<1>7. CASE Invalidate(t)
  <2>1. /\ UNCHANGED <<log, seen>> /\ op'[t] = "invalidate"
        /\ cache' = [cache EXCEPT ![h] = None] /\ tpc'[t] = "publish"
    BY <1>7 DEF Invalidate, BeginPublish, Goto
  <2>2. Effect(h, Event(t)') = None
    BY <2>1 DEF Effect, Event, Revoked
  <2> QED BY <1>3, <1>4, <2>1, <2>2
<1>8. CASE Publish(t)
  <2>1. UNCHANGED <<cache, seen>> /\ tpc[t] = "publish" /\ tpc'[t] = "idle"
    BY <1>8 DEF Publish, Return, Goto
  <2>2. /\ Len(log') = Len(log) + 1
        /\ \A i \in 1 .. Len(log) : log'[i] = log[i]
        /\ log'[Len(log) + 1] = Event(t)
    BY <1>8, LogGrows DEF Publish
  <2>3. \A i \in 1 .. Len(log') : log'[i].by = h
    <3> SUFFICES ASSUME NEW i \in 1 .. Len(log') PROVE log'[i].by = h
      OBVIOUS
    <3>1. CASE i \in 1 .. Len(log)
      BY <1>2, <2>2, <3>1
    <3>2. CASE i = Len(log) + 1
      BY <2>2, <3>2, EventType
    <3> QED BY <1>3, <2>2, <3>1, <3>2
  <2>4. cache'[h] = Told(h, Len(log))'
    BY <1>2, <1>3, <2>1, <2>2 DEF Told, Effect, Here
  <2>5. ASSUME NEW m \in Nodes \ {h} PROVE HoldsLast(m)'
    <3>1. \A k \in seen[m] : log'[k] = log[k]
      BY <2>2
    <3>2. \A k \in seen[m] : Effect(m, log'[k]) = Effect(m, log[k])
      BY <3>1
    <3> QED BY <1>2, <2>1, <3>2 DEF HoldsLast, Effect
  <2> QED BY <2>1, <2>3, <2>4, <2>5 DEF Follows, Here
<1>9. ASSUME NEW n \in Nodes, Receive(n) PROVE Follows(t)'
  <2> DEFINE i == cursor[n] + 1
  <2>1. UNCHANGED <<log, tpc, op, cred, stamp>> /\ i \in 1 .. Len(log)
    BY <1>9, Received DEF Receive, taskVars
  <2>2. Event(t)' = Event(t) /\ \A k \in Nat : Told(h, k)' = Told(h, k)
    BY <2>1 DEF Event, Told, Effect, Issued, Revoked, Here
  <2>3. CASE ~Applies(n, i)
    <3>1. UNCHANGED <<cache, seen>>
      BY <1>9, <2>3 DEF Receive
    <3> QED BY <1>2, <1>4, <2>1, <2>2, <3>1
  <2>4. CASE Applies(n, i)
    <3>1. n # h
      BY <1>2, <2>1, <2>4 DEF Applies
    <3>2. /\ cache' = [cache EXCEPT ![n] = Effect(n, log[i])]
          /\ seen' = [seen EXCEPT ![n] = seen[n] \cup {i}]
      BY <1>9, <2>4 DEF Receive
    <3>3. \A k \in seen[n] : k \in Nat /\ k < i
      BY <1>1, <1>9, <2>4, AppliedInOrder DEF Alone
    <3>4. cache'[n] = Effect(n, log[i]) /\ seen'[n] = seen[n] \cup {i}
      BY <3>2
    <3>5. ASSUME NEW k \in seen'[n], \A j \in seen'[n] : j <= k PROVE k = i
      <4>1. i \in Nat /\ i <= k
        BY <2>1, <3>4, <3>5
      <4>2. k \in seen[n] => k \in Nat /\ k < i
        BY <3>3
      <4> QED BY <3>4, <4>1, <4>2
    <3>6. HoldsLast(n)'
      BY <2>1, <3>4, <3>5 DEF HoldsLast, Effect
    <3>7. ASSUME NEW m \in Nodes \ {h}, m # n PROVE HoldsLast(m)'
      <4>1. cache'[m] = cache[m] /\ seen'[m] = seen[m]
        BY <3>2, <3>7
      <4> QED BY <1>2, <2>1, <4>1 DEF HoldsLast, Effect
    <3>8. cache'[h] = cache[h]
      BY <1>3, <3>1, <3>2
    <3>9. cache'[h] = IF tpc'[t] = "publish" THEN Effect(h, Event(t))' ELSE Told(h, Len(log))'
      BY <1>2, <1>3, <2>1, <2>2, <3>8 DEF Effect, Told
    <3> QED BY <1>2, <2>1, <3>6, <3>7, <3>9 DEF Follows, Here
  <2> QED BY <2>3, <2>4
<1>10. ASSUME UNCHANGED <<log, seen, cache, taskVars>> PROVE Follows(t)'
  <2>1. Effect(h, Event(t)') = Effect(h, Event(t)) /\ tpc' = tpc
    BY <1>10 DEF taskVars, Event, Issued, Revoked, Here
  <2> QED BY <1>2, <1>4, <1>10, <2>1
<1>11. ASSUME NEW n \in Nodes, Lose(n) PROVE FALSE
  BY <1>1, <1>11 DEF Lose, Alone
<1>12. ASSUME NEW u \in Tasks, Task(u) PROVE Follows(t)'
  BY <1>1, <1>5, <1>6, <1>7, <1>8, <1>12 DEF Task
<1> QED BY <1>9, <1>10, <1>11, <1>12 DEF Next, Replay, Tick, vars

(* With a durable backend that replays as it likes, clocks in step, one task *)
(* at a time and the operations that publish, every instance of a cluster at *)
(* rest holds what the last event it took says, and took every event that    *)
(* reached it in time.                                                       *)
THEOREM OneWriterConverges == Spec => []Converged
<1>1. Init => BusyBegun /\ Untouched /\ SeenInOrder /\ AloneFollowed
  <2> SUFFICES ASSUME Init PROVE BusyBegun /\ Untouched /\ SeenInOrder /\ AloneFollowed
    OBVIOUS
  <2>1. BusyBegun /\ Untouched /\ SeenInOrder
    BY DEF Init, BusyBegun, Untouched, SeenInOrder
  <2>2. ASSUME NEW t \in Tasks PROVE Follows(t)
    BY TaskAssumption DEF Init, Follows, HoldsLast, Told, Here
  <2> QED BY <2>1, <2>2 DEF AloneFollowed
<1>2. TopicType /\ Untouched /\ SeenInOrder /\ AloneFollowed => Converged
  <2> SUFFICES ASSUME TopicType, Untouched, SeenInOrder, AloneFollowed, Quiet, durable, InStep,
                      Only({"get", "invalidate"}), OneTask, NEW n \in Nodes
               PROVE  /\ Taken(n) = {} => cache[n] = None
                      /\ \A i \in Taken(n) :
                             (\A j \in Taken(n) : j <= i) => cache[n] = Effect(n, log[i])
                      /\ \A i \in 1 .. Len(log) : i \in Taken(n) \/ Late(n, i)
    BY DEF Converged
  <2> USE DEF TopicType, TaskType, HoldType, ReadType
  <2>1. \A i \in 1 .. Len(log) : i \in Taken(n) \/ Late(n, i)
    <3>1. \A i \in 1 .. Len(log) : Settled(n, i)
      BY DEF SeenInOrder, Quiet
    <3> QED BY <3>1 DEF Settled, Taken
  <2>2. CASE actors = {}
    BY <2>1, <2>2 DEF Untouched, Taken
  <2>3. ASSUME NEW t \in actors
        PROVE  /\ Taken(n) = {} => cache[n] = None
               /\ \A i \in Taken(n) :
                      (\A j \in Taken(n) : j <= i) => cache[n] = Effect(n, log[i])
    <3> DEFINE h == Here(t)
    <3>1. t \in Tasks /\ Alone(t)
      BY DEF Alone, OneTask
    <3>2. /\ \A i \in 1 .. Len(log) : log[i].by = h
          /\ cache[h] = Told(h, Len(log))
          /\ \A m \in Nodes \ {h} : HoldsLast(m)
      BY <3>1 DEF AloneFollowed, Follows, Quiet
    <3>3. CASE n = h
      <4>1. Taken(n) = 1 .. Len(log) /\ Len(log) \in Nat
        BY <3>2, <3>3 DEF Taken
      <4>2. CASE Len(log) = 0
        BY <3>2, <3>3, <4>1, <4>2 DEF Told
      <4>3. CASE Len(log) # 0
        <5>1. Len(log) \in Taken(n)
          BY <4>1, <4>3
        <5>2. ASSUME NEW i \in Taken(n), \A j \in Taken(n) : j <= i PROVE i = Len(log)
          <6>1. Len(log) <= i
            BY <5>1, <5>2
          <6> QED BY <4>1, <6>1
        <5> QED BY <3>2, <3>3, <4>3, <5>1, <5>2 DEF Told
      <4> QED BY <4>2, <4>3
    <3>4. CASE n # h
      <4>1. Taken(n) = seen[n]
        BY <3>2, <3>4 DEF Taken
      <4> QED BY <3>2, <3>4, <4>1 DEF HoldsLast
    <3> QED BY <3>3, <3>4
  <2> QED BY <2>1, <2>2, <2>3
<1> QED BY <1>1, <1>2, InitType, InitStamps, NextType, NextStamps, NextBusy, NextUntouched,
           NextOrder, NextAlone, PTL DEF Spec
===============================================================================
