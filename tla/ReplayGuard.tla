----------------------------- MODULE ReplayGuard -----------------------------
(***************************************************************************)
(* The replay guard of the clustered credential cache                      *)
(* (credential_cache_clustered.rs): the freshness window of apply_event    *)
(* and the bounded, expiring set SeenEvents behind accept_once, at one     *)
(* receiver.                                                               *)
(*                                                                         *)
(* The topic may deliver an event any number of times and at any moment.   *)
(* apply_event reads the clock twice, once for the freshness window and    *)
(* once for the seen-set; time may pass in between.                        *)
(***************************************************************************)
EXTENDS Naturals, Sequences

CONSTANTS
    Events,     \* peer events that passed peer_event_accepted
    Stamp,      \* Stamp[e]: published_at_ms on the publisher's clock, 0 when
                \* the publisher predates the field
    NoId,       \* events whose event_id is empty
    MaxAge,     \* MAX_EVENT_AGE_MS
    Slack,      \* the 60_000 that the set's TTL adds
    Cap,        \* MAX_SEEN_EVENTS
    MaxTime     \* bound: the clock stops here

ASSUME EventAssumption ==
    /\ Stamp \in [Events -> Nat]
    /\ NoId \subseteq Events
ASSUME WindowAssumption ==
    /\ MaxAge \in Nat
    /\ Slack \in Nat \ {0}
    /\ Cap \in Nat
    /\ MaxTime \in Nat

VARIABLES
    now,        \* the receiver's clock
    seen,       \* SeenEvents.seen, its keys
    at,         \* at[e]: the value stored for key e
    order,      \* SeenEvents.order
    pc,         \* "idle", or "accept" past the freshness check
    event,      \* the event in hand
    readAt,     \* the instant of the freshness check
    applied,    \* history: events applied to the local cache
    since,      \* since[e]: history, events recorded after e, up to Cap
    early       \* history: events applied again before Cap others were

seenVars == <<seen, at, order>>
history  == <<applied, since, early>>
vars == <<now, seenVars, pc, event, readAt, history>>

(* Mutant: the window is taken to be one-sided. *)
BadTtl == MaxAge + Slack

(* TTL of the seen-set. *)
Ttl == 2 * MaxAge + Slack

(* |now - published_at_ms| <= MAX_EVENT_AGE_MS; an event without a time      *)
(* stamp is exempt.                                                          *)
Fresh(e) == Stamp[e] = 0 \/ (now <= Stamp[e] + MaxAge /\ Stamp[e] <= now + MaxAge)

Init ==
    /\ now     = 0
    /\ seen    = {}
    /\ at      = [e \in Events |-> 0]
    /\ order   = << >>
    /\ pc      = "idle"
    /\ event   \in Events
    /\ readAt  = 0
    /\ applied = {}
    /\ since   = [e \in Events |-> 0]
    /\ early   = {}

(* The environment assumption of the guard: the two clock reads of one       *)
(* apply_event are less than Slack apart.                                    *)
Tick ==
    /\ now < MaxTime
    /\ pc = "accept" => now + 1 < readAt + Slack
    /\ now' = now + 1
    /\ UNCHANGED <<seenVars, pc, event, readAt, history>>

(* The subscriber task takes e off the topic and finds it fresh; a stale     *)
(* event is dropped without a trace.                                         *)
Deliver(e) ==
    /\ pc = "idle"
    /\ Fresh(e)
    /\ pc' = "accept"
    /\ event' = e
    /\ readAt' = now
    /\ UNCHANGED <<now, seenVars, history>>

-------------------------------------------------------------------------------
(* SeenEvents::check_and_record.                                            *)

Aged(e) == now >= at[e] + Ttl

(* n entries leave at the front of the queue: those that have aged out. *)
AgesOut(n) ==
    /\ \A j \in 1 .. n : order[j] \in seen /\ Aged(order[j])
    /\ n < Len(order) => ~(order[n + 1] \in seen /\ Aged(order[n + 1]))

FrontOf(q, n) == {q[j] : j \in 1 .. n}
Behind(q, n)  == SubSeq(q, n + 1, Len(q))

(* Entries over the cap, oldest first. *)
Overflow(q) == IF Len(q) > Cap THEN Len(q) - Cap ELSE 0

Duplicate(kept) == event \in kept /\ ~Aged(event)

(* Mutant: nothing is evicted from the queue, only from the map. *)
BadRecord(kept, queue) ==
    LET q == Append(queue, event) IN
    /\ seen' = (kept \cup {event}) \ FrontOf(q, Overflow(q))
    /\ order' = q
    /\ at' = [at EXCEPT ![event] = now]

(* The key goes to the back of the queue; the oldest make room. *)
Record(kept, queue) ==
    LET q == Append(queue, event) IN
    /\ seen' = (kept \cup {event}) \ FrontOf(q, Overflow(q))
    /\ order' = Behind(q, Overflow(q))
    /\ at' = [at EXCEPT ![event] = now]

(* insert_by_hash or invalidate_by_hash runs. *)
Apply ==
    /\ applied' = applied \cup {event}
    /\ early' = IF event \in applied /\ since[event] < Cap
                THEN early \cup {event} ELSE early

CountSince ==
    since' = [e \in Events |->
                IF e = event THEN 0
                ELSE IF since[e] < Cap THEN since[e] + 1 ELSE since[e]]

(* accept_once exempts an event without an id. *)
AcceptExempt ==
    /\ pc = "accept" /\ event \in NoId
    /\ Apply
    /\ pc' = "idle"
    /\ UNCHANGED <<now, seenVars, event, readAt, since>>

AcceptOnce ==
    /\ pc = "accept" /\ event \notin NoId
    /\ \E n \in 0 .. Len(order) :
         LET kept  == seen \ FrontOf(order, n)
             queue == Behind(order, n)
         IN  /\ AgesOut(n)
             /\ IF Duplicate(kept)
                THEN /\ seen' = kept /\ order' = queue
                     /\ UNCHANGED <<at, history>>
                ELSE Record(kept, queue) /\ Apply /\ CountSince
    /\ pc' = "idle"
    /\ UNCHANGED <<now, event, readAt>>

Next ==
    \/ Tick
    \/ \E e \in Events : Deliver(e)
    \/ AcceptExempt
    \/ AcceptOnce

Spec == Init /\ [][Next]_vars

-------------------------------------------------------------------------------
TypeOK ==
    /\ now \in Nat
    /\ seen \subseteq Events
    /\ at \in [Events -> Nat]
    /\ order \in Seq(Events)
    /\ pc \in {"idle", "accept"}
    /\ event \in Events
    /\ readAt \in Nat
    /\ applied \subseteq Events
    /\ since \in [Events -> 0 .. Cap]
    /\ early \subseteq Events

(* The map and the queue are two views of one set: they hold the same keys,  *)
(* each once and no more than Cap, oldest first.                             *)
MapMatchesQueue ==
    /\ seen = {order[j] : j \in 1 .. Len(order)}
    /\ \A i, j \in 1 .. Len(order) :
          /\ order[i] = order[j] => i = j
          /\ i <= j => at[order[i]] <= at[order[j]]
    /\ Len(order) <= Cap

(* Events with a time stamp and an id. *)
Guarded == {e \in Events : Stamp[e] # 0 /\ e \notin NoId}

(* A stamped event with an id is applied at most once as long as the set     *)
(* does not overflow: it is applied again only after Cap other events were   *)
(* recorded, however often and whenever the topic redelivers it and however  *)
(* far its publisher's clock is off.                                         *)
AppliedOnce == early \cap Guarded = {}
================================================================================
