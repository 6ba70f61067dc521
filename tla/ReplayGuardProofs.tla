-------------------------- MODULE ReplayGuardProofs --------------------------
(***************************************************************************)
(* Proof that the replay guard applies a stamped event with an id at most  *)
(* once until the seen-set overflows, for every window, slack and cap.     *)
(*                                                                         *)
(* The argument: an event is recorded no earlier than MaxAge before its    *)
(* stamp, so it ages out no earlier than MaxAge + Slack after its stamp,   *)
(* when no apply_event that found it fresh is still running.  It can leave *)
(* the set earlier only by overflow, when Cap others were recorded.        *)
(***************************************************************************)
EXTENDS ReplayGuard, TLAPS

(* The recorded events are counted by their distance from the queue's end. *)
Counted(q, f) == \A i \in 1 .. Len(q) : f[q[i]] = Len(q) - i

(* A queue without repetition, sorted by the instants in a, of the keys s. *)
Tidy(q, s, a) ==
    /\ q \in Seq(Events)
    /\ s = {q[j] : j \in 1 .. Len(q)}
    /\ \A i, j \in 1 .. Len(q) :
          /\ q[i] = q[j] => i = j
          /\ i <= j => a[q[i]] <= a[q[j]]

(* No entry is from the future, and a guarded one was recorded no earlier    *)
(* than its window opened.                                                   *)
EntriesInTime ==
    \A e \in seen : /\ at[e] <= now
                    /\ e \in Guarded => Stamp[e] <= at[e] + MaxAge

(* An applied event the set has forgotten was overtaken by Cap others, or    *)
(* its window has been shut for Slack.                                       *)
Forgotten ==
    \A e \in applied \cap Guarded :
        e \notin seen => since[e] >= Cap \/ now >= Stamp[e] + MaxAge + Slack

(* The event in hand was fresh less than Slack ago. *)
InHand ==
    pc = "accept" =>
        /\ now < readAt + Slack
        /\ readAt <= now
        /\ Stamp[event] # 0 => /\ readAt <= Stamp[event] + MaxAge
                               /\ Stamp[event] <= readAt + MaxAge

(* The inductive invariant. *)
IInv ==
    /\ TypeOK
    /\ MapMatchesQueue
    /\ Counted(order, since)
    /\ EntriesInTime
    /\ Forgotten
    /\ InHand
    /\ AppliedOnce

-------------------------------------------------------------------------------
(* What is left of a queue once n entries have left at the front. *)
LEMMA BehindProperties ==
    ASSUME NEW q \in Seq(Events), NEW n \in 0 .. Len(q)
    PROVE  /\ Behind(q, n) \in Seq(Events)
           /\ Len(Behind(q, n)) = Len(q) - n
           /\ \A i \in 1 .. Len(q) - n : Behind(q, n)[i] = q[i + n]
  BY DEF Behind

(* A queue with one more entry at the back. *)
LEMMA AppendProperties ==
    ASSUME NEW q \in Seq(Events), NEW e \in Events
    PROVE  /\ Append(q, e) \in Seq(Events)
           /\ Len(q) \in Nat /\ Len(Append(q, e)) = Len(q) + 1
           /\ Append(q, e)[Len(q) + 1] = e
           /\ \A i \in 1 .. Len(q) : Append(q, e)[i] = q[i] /\ q[i] \in Events
  OBVIOUS

(* Entries leave map and queue together: what is left is tidy. *)
LEMMA TidyBehind ==
    ASSUME NEW q, NEW s, NEW a, Tidy(q, s, a), NEW n \in 0 .. Len(q)
    PROVE  Tidy(Behind(q, n), s \ FrontOf(q, n), a)
<1> DEFINE b == Behind(q, n)
<1>1. q \in Seq(Events)
  BY DEF Tidy
<1>2. b \in Seq(Events) /\ Len(b) = Len(q) - n
      /\ \A i \in 1 .. Len(q) - n : b[i] = q[i + n]
  BY <1>1, BehindProperties
<1> HIDE DEF b
<1>3. Len(q) \in Nat
  BY <1>1
<1>4. s \ FrontOf(q, n) = {b[j] : j \in 1 .. Len(b)}
  <2>1. ASSUME NEW x \in s \ FrontOf(q, n)
        PROVE  x \in {b[j] : j \in 1 .. Len(b)}
    <3>1. PICK k \in 1 .. Len(q) : x = q[k]
      BY <2>1 DEF Tidy
    <3>2. k > n
      BY <3>1, <2>1, <1>3 DEF FrontOf
    <3>3. k - n \in 1 .. Len(b) /\ b[k - n] = q[(k - n) + n]
      BY <3>1, <3>2, <1>2, <1>3
    <3>4. (k - n) + n = k
      BY <3>1, <1>3
    <3> QED
      BY <3>1, <3>3, <3>4
  <2>2. ASSUME NEW j \in 1 .. Len(b)
        PROVE  b[j] \in s \ FrontOf(q, n)
    <3>1. j + n \in 1 .. Len(q) /\ b[j] = q[j + n]
      BY <1>2, <1>3
    <3>2. q[j + n] \in s
      BY <3>1 DEF Tidy
    <3>3. ASSUME NEW i \in 1 .. n PROVE q[i] # q[j + n]
      BY <3>1, <1>3 DEF Tidy
    <3> QED
      BY <3>1, <3>2, <3>3 DEF FrontOf
  <2> QED
    BY <2>1, <2>2
<1>5. ASSUME NEW i \in 1 .. Len(b), NEW j \in 1 .. Len(b)
      PROVE  /\ b[i] = b[j] => i = j
             /\ i <= j => a[b[i]] <= a[b[j]]
  <2>1. /\ i + n \in 1 .. Len(q) /\ b[i] = q[i + n]
        /\ j + n \in 1 .. Len(q) /\ b[j] = q[j + n]
    BY <1>2, <1>3
  <2>2. /\ q[i + n] = q[j + n] => i + n = j + n
        /\ i + n <= j + n => a[q[i + n]] <= a[q[j + n]]
    BY <2>1 DEF Tidy
  <2> QED
    BY <2>1, <2>2, <1>2, <1>3
<1> QED
  BY <1>2, <1>4, <1>5 DEF Tidy, b

(* A new key at the back, stamped no earlier than the others, keeps a queue  *)
(* tidy.                                                                     *)
LEMMA TidyAppend ==
    ASSUME NEW q, NEW s, NEW a \in [Events -> Nat], Tidy(q, s, a),
           NEW e \in Events, e \notin s,
           NEW t \in Nat, \A x \in s : a[x] <= t
    PROVE  Tidy(Append(q, e), s \cup {e}, [a EXCEPT ![e] = t])
<1> DEFINE b == Append(q, e)
           c == [a EXCEPT ![e] = t]
<1>1. q \in Seq(Events) /\ Len(q) \in Nat
  BY DEF Tidy
<1>2. /\ b \in Seq(Events) /\ Len(b) = Len(q) + 1
      /\ \A i \in 1 .. Len(q) : b[i] = q[i]
      /\ b[Len(q) + 1] = e
  BY <1>1
<1>3. \A i \in 1 .. Len(q) : q[i] \in s /\ q[i] # e /\ q[i] \in Events
  BY <1>1 DEF Tidy
<1>4. c[e] = t /\ \A x \in Events : x # e => c[x] = a[x]
  OBVIOUS
<1> HIDE DEF b, c
<1>5. s \cup {e} = {b[j] : j \in 1 .. Len(b)}
  <2>1. ASSUME NEW x \in s PROVE \E j \in 1 .. Len(b) : x = b[j]
    <3>1. PICK k \in 1 .. Len(q) : x = q[k]
      BY DEF Tidy
    <3>2. k \in 1 .. Len(b) /\ b[k] = q[k]
      BY <1>1, <1>2
    <3> QED
      BY <3>1, <3>2
  <2>2. e = b[Len(b)] /\ Len(b) \in 1 .. Len(b)
    BY <1>1, <1>2
  <2>3. ASSUME NEW j \in 1 .. Len(b) PROVE b[j] \in s \cup {e}
    <3>1. j \in 1 .. Len(q) \/ j = Len(q) + 1
      BY <1>1, <1>2
    <3> QED
      BY <3>1, <1>2, <1>3
  <2> QED
    BY <2>1, <2>2, <2>3
<1>6. ASSUME NEW i \in 1 .. Len(b), NEW j \in 1 .. Len(b)
      PROVE  /\ b[i] = b[j] => i = j
             /\ i <= j => c[b[i]] <= c[b[j]]
  <2>1. CASE i \in 1 .. Len(q) /\ j \in 1 .. Len(q)
    <3>1. b[i] = q[i] /\ b[j] = q[j] /\ c[q[i]] = a[q[i]] /\ c[q[j]] = a[q[j]]
      BY <2>1, <1>2, <1>3, <1>4
    <3> QED
      BY <2>1, <3>1 DEF Tidy
  <2>2. CASE i \in 1 .. Len(q) /\ j = Len(q) + 1
    BY <2>2, <1>2, <1>3, <1>4
  <2>3. CASE i = Len(q) + 1 /\ j \in 1 .. Len(q)
    BY <2>3, <1>1, <1>2, <1>3
  <2>4. CASE i = Len(q) + 1 /\ j = Len(q) + 1
    BY <2>4, <1>2, <1>4
  <2> QED
    BY <2>1, <2>2, <2>3, <2>4, <1>1, <1>2, SMTT(20)
<1> QED
  BY <1>2, <1>5, <1>6 DEF Tidy, b, c

(* Distances from the back survive departures at the front. *)
LEMMA CountedBehind ==
    ASSUME NEW q \in Seq(Events), NEW f, Counted(q, f), NEW n \in 0 .. Len(q)
    PROVE  Counted(Behind(q, n), f)
<1> DEFINE b == Behind(q, n)
<1>1. Len(b) = Len(q) - n /\ \A i \in 1 .. Len(q) - n : b[i] = q[i + n]
  BY BehindProperties
<1>2. Len(q) \in Nat
  OBVIOUS
<1> HIDE DEF b
<1>3. ASSUME NEW i \in 1 .. Len(b) PROVE f[b[i]] = Len(b) - i
  <2>1. i + n \in 1 .. Len(q) /\ b[i] = q[i + n]
    BY <1>1, <1>2
  <2>2. f[q[i + n]] = Len(q) - (i + n)
    BY <2>1 DEF Counted
  <2> QED
    BY <2>1, <2>2, <1>1, <1>2
<1> QED
  BY <1>3 DEF Counted, b

-------------------------------------------------------------------------------
(* The map and the queue in the terms of the lemmas. *)
LEMMA QueueTidy ==
    ASSUME TypeOK
    PROVE  MapMatchesQueue <=> Tidy(order, seen, at) /\ Len(order) <= Cap
  BY DEF TypeOK, MapMatchesQueue, Tidy

(* Initially nothing was seen or applied. *)
LEMMA InitIInv == Init => IInv
<1> SUFFICES ASSUME Init PROVE IInv
  OBVIOUS
<1> USE EventAssumption, WindowAssumption DEF Init
<1>1. TypeOK
  BY DEF TypeOK
<1>2. MapMatchesQueue /\ Counted(order, since)
  BY DEF MapMatchesQueue, Counted
<1>3. EntriesInTime /\ Forgotten /\ InHand /\ AppliedOnce
  BY DEF EntriesInTime, Forgotten, InHand, AppliedOnce
<1> QED
  BY <1>1, <1>2, <1>3 DEF IInv

(* Time passing ages entries and shuts windows, and the task in hand is not  *)
(* kept waiting for Slack.                                                   *)
LEMMA TickIInv == IInv /\ Tick => IInv'
<1> SUFFICES ASSUME IInv, Tick PROVE IInv'
  OBVIOUS
<1> USE EventAssumption, WindowAssumption DEF IInv, Tick, seenVars, history
<1>1. TypeOK'
  BY DEF TypeOK
<1>2. MapMatchesQueue' /\ Counted(order, since)' /\ AppliedOnce'
  BY DEF MapMatchesQueue, Counted, AppliedOnce, Guarded
<1>3. EntriesInTime'
  BY DEF EntriesInTime, Guarded, TypeOK
<1>4. Forgotten'
  BY DEF Forgotten, Guarded, TypeOK
<1>5. InHand'
  BY DEF InHand, TypeOK
<1> QED
  BY <1>1, <1>2, <1>3, <1>4, <1>5

(* An event taken in hand is fresh now. *)
LEMMA DeliverIInv == ASSUME NEW e \in Events PROVE IInv /\ Deliver(e) => IInv'
<1> SUFFICES ASSUME IInv, Deliver(e) PROVE IInv'
  OBVIOUS
<1> USE EventAssumption, WindowAssumption DEF IInv, Deliver, seenVars, history
<1>1. TypeOK'
  BY DEF TypeOK
<1>2. MapMatchesQueue' /\ Counted(order, since)' /\ AppliedOnce'
  BY DEF MapMatchesQueue, Counted, AppliedOnce, Guarded
<1>3. EntriesInTime' /\ Forgotten'
  BY DEF EntriesInTime, Forgotten, Guarded
<1>4. InHand'
  BY DEF InHand, TypeOK, Fresh
<1> QED
  BY <1>1, <1>2, <1>3, <1>4

(* An event without an id is outside the guard. *)
LEMMA ExemptIInv == IInv /\ AcceptExempt => IInv'
<1> SUFFICES ASSUME IInv, AcceptExempt PROVE IInv'
  OBVIOUS
<1> USE EventAssumption, WindowAssumption DEF IInv, AcceptExempt, Apply, seenVars
<1>1. TypeOK'
  BY DEF TypeOK
<1>2. MapMatchesQueue' /\ Counted(order, since)'
  BY DEF MapMatchesQueue, Counted
<1>3. EntriesInTime' /\ Forgotten' /\ AppliedOnce'
  BY DEF EntriesInTime, Forgotten, Guarded, AppliedOnce
<1>4. InHand'
  BY DEF InHand
<1> QED
  BY <1>1, <1>2, <1>3, <1>4

(* Of two entries the older ages out first. *)
LEMMA AgedFirst ==
    ASSUME NEW x, NEW y, at[x] \in Nat, at[y] \in Nat, now \in Nat, Ttl \in Nat,
           at[x] <= at[y], Aged(y)
    PROVE  Aged(x)
  BY DEF Aged

(* check_and_record: expiry, the duplicate test, the record and the          *)
(* overflow.                                                                 *)
LEMMA AcceptIInv == IInv /\ AcceptOnce => IInv'
<1> SUFFICES ASSUME IInv, AcceptOnce PROVE IInv'
  OBVIOUS
<1> USE EventAssumption, WindowAssumption
<1>1. PICK n \in 0 .. Len(order) :
        /\ AgesOut(n)
        /\ IF Duplicate(seen \ FrontOf(order, n))
           THEN /\ seen' = seen \ FrontOf(order, n)
                /\ order' = Behind(order, n)
                /\ UNCHANGED <<at, history>>
           ELSE /\ Record(seen \ FrontOf(order, n), Behind(order, n))
                /\ Apply /\ CountSince
  BY DEF AcceptOnce
<1> DEFINE kept  == seen \ FrontOf(order, n)
           queue == Behind(order, n)
<1>2. /\ pc = "accept" /\ event \notin NoId /\ pc' = "idle"
      /\ UNCHANGED <<now, event, readAt>>
  BY DEF AcceptOnce
<1>3. TypeOK /\ Tidy(order, seen, at) /\ Len(order) <= Cap /\ Len(order) \in Nat
  BY QueueTidy DEF IInv, TypeOK
<1>4. Tidy(queue, kept, at)
  BY <1>3, TidyBehind
<1>5. queue \in Seq(Events) /\ Len(queue) = Len(order) - n
  BY <1>3, BehindProperties DEF TypeOK
<1>6. Counted(queue, since)
  BY <1>3, CountedBehind DEF IInv, TypeOK
<1>7. kept \subseteq seen /\ kept \subseteq Events
  BY <1>3 DEF TypeOK
<1>8. \A e \in seen \ kept : Aged(e)
  BY <1>1 DEF FrontOf, AgesOut
<1>9. InHand'
  BY <1>2 DEF InHand
<1>10. ASSUME NEW e \in (applied \cap Guarded), e \notin kept
       PROVE  since[e] >= Cap \/ now >= Stamp[e] + MaxAge + Slack
  <2>1. CASE e \notin seen
    BY <2>1, <1>10 DEF IInv, Forgotten
  <2>2. CASE e \in seen
    <3>1. now >= at[e] + Ttl
      BY <2>2, <1>10, <1>8 DEF Aged
    <3>2. Stamp[e] <= at[e] + MaxAge
      BY <2>2 DEF IInv, EntriesInTime
    <3>3. now \in Nat /\ at[e] \in Nat /\ Stamp[e] \in Nat
      BY <1>3 DEF TypeOK, Guarded
    <3> QED
      BY <3>1, <3>2, <3>3 DEF Ttl
  <2> QED
    BY <2>1, <2>2
<1>11. CASE Duplicate(kept)
  <2>1. seen' = kept /\ order' = queue /\ UNCHANGED <<at, applied, since, early>>
    BY <1>1, <1>11 DEF history
  <2> HIDE DEF kept, queue
  <2>2. TypeOK'
    BY <2>1, <1>2, <1>3, <1>5, <1>7 DEF TypeOK
  <2>3. Tidy(order', seen', at') /\ Len(order') <= Cap
    BY <2>1, <1>3, <1>4, <1>5
  <2>4. MapMatchesQueue'
    BY <2>3 DEF MapMatchesQueue, Tidy
  <2>5. Counted(order, since)'
    BY <2>1, <1>6 DEF Counted
  <2>6. EntriesInTime'
    BY <2>1, <1>2, <1>7 DEF IInv, EntriesInTime, Guarded
  <2>7. Forgotten'
    BY <2>1, <1>2, <1>10 DEF Forgotten, Guarded
  <2>8. AppliedOnce'
    BY <2>1 DEF IInv, AppliedOnce, Guarded
  <2> QED
    BY <2>2, <2>4, <2>5, <2>6, <2>7, <2>8, <1>9 DEF IInv
<1>12. CASE ~Duplicate(kept)
  <2> DEFINE q == Append(queue, event)
             d == Overflow(q)
  <2>1. Record(kept, queue) /\ Apply /\ CountSince
    BY <1>1, <1>12
  <2>2. event \in Events /\ now \in Nat /\ at \in [Events -> Nat]
        /\ since \in [Events -> 0 .. Cap]
    BY <1>3 DEF TypeOK
  <2>3. event \notin kept
    <3> SUFFICES ASSUME event \in kept PROVE FALSE
      OBVIOUS
    <3>1. Aged(event)
      BY <1>12 DEF Duplicate
    <3>2. PICK k \in 1 .. Len(order) : event = order[k]
      BY <1>3, <1>7 DEF Tidy
    <3>3. k > n
      BY <3>2, <1>3 DEF FrontOf
    <3>4. n + 1 \in 1 .. Len(order) /\ n + 1 <= k
      BY <3>3, <1>3
    <3>5. at[order[n + 1]] <= at[event] /\ order[n + 1] \in seen
      BY <3>2, <3>4, <1>3 DEF Tidy
    <3>6. ~Aged(order[n + 1])
      BY <1>1, <3>4, <3>5, <1>3 DEF AgesOut
    <3>7. at[order[n + 1]] \in Nat /\ at[event] \in Nat /\ Ttl \in Nat
      BY <2>2, <3>5, <1>3, SMTT(20) DEF TypeOK, Ttl
    <3>8. Aged(order[n + 1])
      BY <3>1, <3>5, <3>7, <2>2, AgedFirst
    <3> QED
      BY <3>6, <3>8
  <2>4. \A e \in kept : at[e] <= now
    BY <1>7 DEF IInv, EntriesInTime
  <2>5. seen' = (kept \cup {event}) \ FrontOf(q, d) /\ order' = Behind(q, d)
        /\ at' = [at EXCEPT ![event] = now]
    BY <2>1 DEF Record
  <2>6. /\ applied' = applied \cup {event}
        /\ early' = IF event \in applied /\ since[event] < Cap
                    THEN early \cup {event} ELSE early
        /\ since' = [e \in Events |->
                       IF e = event THEN 0
                       ELSE IF since[e] < Cap THEN since[e] + 1 ELSE since[e]]
    BY <2>1 DEF Apply, CountSince
  <2> HIDE DEF kept, queue
  <2>7. Tidy(q, kept \cup {event}, at')
    BY <1>4, <2>2, <2>3, <2>4, <2>5, TidyAppend
  <2>8. /\ q \in Seq(Events) /\ Len(q) = Len(queue) + 1 /\ Len(queue) \in Nat
        /\ q[Len(queue) + 1] = event
        /\ \A i \in 1 .. Len(queue) : q[i] = queue[i] /\ queue[i] \in Events
    BY <1>5, <2>2, AppendProperties
  <2>9. /\ d \in 0 .. Len(q) /\ Len(q) - d <= Cap
        /\ d # 0 => d = 1 /\ Len(queue) = Cap
    BY <2>8, <1>3, <1>5 DEF Overflow
  <2>10. Counted(q, since')
    <3> SUFFICES ASSUME NEW i \in 1 .. Len(q) PROVE since'[q[i]] = Len(q) - i
      BY DEF Counted
    <3>1. CASE i = Len(queue) + 1
      BY <3>1, <2>2, <2>6, <2>8
    <3>2. CASE i \in 1 .. Len(queue)
      <4>1. q[i] = queue[i] /\ queue[i] \in kept /\ queue[i] \in Events
        BY <3>2, <2>8, <1>4 DEF Tidy
      <4>2. since[queue[i]] = Len(queue) - i
        BY <3>2, <1>6 DEF Counted
      <4>3. since[queue[i]] < Cap
        BY <4>2, <3>2, <2>8, <1>3, <1>5
      <4>4. since'[queue[i]] = since[queue[i]] + 1
        BY <4>1, <4>3, <2>3, <2>6
      <4> QED
        BY <4>1, <4>2, <4>4, <3>2, <2>8
    <3> QED
      BY <3>1, <3>2, <2>8
  <2> HIDE DEF q, d
  <2>11. Tidy(order', seen', at')
    BY <2>5, <2>7, <2>9, TidyBehind
  <2>12. order' \in Seq(Events) /\ Len(order') = Len(q) - d
    BY <2>5, <2>8, <2>9, BehindProperties
  <2>13. Counted(order, since)'
    <3>1. Counted(order', since')
      BY <2>5, <2>8, <2>9, <2>10, CountedBehind
    <3> QED
      BY <3>1 DEF Counted
  <2>14. seen' \subseteq kept \cup {event}
    BY <2>5
  <2>15. TypeOK'
    <3>1. since' \in [Events -> 0 .. Cap]
      BY <2>2, <2>6
    <3>2. early' \subseteq Events /\ applied' \subseteq Events
      BY <2>2, <2>6, <1>3 DEF TypeOK
    <3>3. at' \in [Events -> Nat] /\ seen' \subseteq Events
      BY <2>2, <2>5, <2>14, <1>7
    <3> QED
      BY <3>1, <3>2, <3>3, <2>12, <1>2, <1>3 DEF TypeOK
  <2>16. MapMatchesQueue'
    <3>1. Len(order') <= Cap
      BY <2>9, <2>12
    <3> QED
      BY <3>1, <2>11 DEF MapMatchesQueue, Tidy
  <2>17. EntriesInTime'
    <3> SUFFICES ASSUME NEW e \in seen'
                 PROVE  at'[e] <= now /\ (e \in Guarded => Stamp[e] <= at'[e] + MaxAge)
      BY <1>2 DEF EntriesInTime, Guarded
    <3>1. CASE e = event
      <4>1. at'[e] = now
        BY <3>1, <2>2, <2>5
      <4>2. Stamp[event] # 0 => Stamp[event] <= readAt + MaxAge
        BY <1>2 DEF IInv, InHand
      <4>3. readAt <= now /\ readAt \in Nat /\ Stamp[event] \in Nat
        BY <1>2, <1>3, <2>2 DEF IInv, InHand, TypeOK
      <4> QED
        BY <3>1, <4>1, <4>2, <4>3, <2>2 DEF Guarded
    <3>2. CASE e # event
      <4>1. e \in seen /\ at'[e] = at[e]
        BY <3>2, <2>2, <2>5, <2>14, <1>7
      <4> QED
        BY <4>1 DEF IInv, EntriesInTime
    <3> QED
      BY <3>1, <3>2
  <2>18. Forgotten'
    <3> SUFFICES ASSUME NEW e \in (applied' \cap Guarded), e \notin seen'
                 PROVE  since'[e] >= Cap \/ now >= Stamp[e] + MaxAge + Slack
      BY <1>2 DEF Forgotten, Guarded
    <3>1. CASE e \in kept \cup {event}
      <4>1. PICK j \in 1 .. d : e = q[j]
        BY <3>1, <2>5 DEF FrontOf
      <4>2. j = 1 /\ Len(queue) = Cap
        BY <4>1, <2>9
      <4>3. since'[q[1]] = Len(q) - 1
        BY <2>8, <2>10 DEF Counted
      <4> QED
        BY <4>1, <4>2, <4>3, <2>8
    <3>2. CASE e \notin kept \cup {event}
      <4>1. e \in (applied \cap Guarded) /\ e # event
        BY <3>2, <2>6
      <4>2. since[e] >= Cap \/ now >= Stamp[e] + MaxAge + Slack
        BY <4>1, <3>2, <1>10
      <4>3. since'[e] >= since[e] /\ since'[e] \in Nat /\ since[e] \in Nat
        BY <4>1, <2>2, <2>6 DEF Guarded
      <4> QED
        BY <4>2, <4>3
    <3> QED
      BY <3>1, <3>2
  <2>19. AppliedOnce'
    <3>1. CASE ~(event \in applied /\ since[event] < Cap)
      BY <3>1, <2>6 DEF IInv, AppliedOnce, Guarded
    <3>2. CASE event \in applied /\ since[event] < Cap
      <4>1. event \notin Guarded
        <5> SUFFICES ASSUME event \in Guarded PROVE FALSE
          OBVIOUS
        <5>1. now >= Stamp[event] + MaxAge + Slack
          BY <3>2, <2>2, <2>3, <1>10
        <5>2. /\ now < readAt + Slack /\ readAt <= Stamp[event] + MaxAge
              /\ readAt \in Nat /\ Stamp[event] \in Nat
          BY <1>2, <1>3, <2>2 DEF IInv, InHand, Guarded, TypeOK
        <5> QED
          BY <5>1, <5>2, <2>2
      <4> QED
        BY <4>1, <3>2, <2>6 DEF IInv, AppliedOnce, Guarded
    <3> QED
      BY <3>1, <3>2
  <2> QED
    BY <2>13, <2>15, <2>16, <2>17, <2>18, <2>19, <1>9 DEF IInv
<1> QED
  BY <1>11, <1>12

(* Every step preserves the invariant. *)
LEMMA NextIInv == IInv /\ [Next]_vars => IInv'
<1> SUFFICES ASSUME IInv, [Next]_vars PROVE IInv'
  OBVIOUS
<1>1. CASE UNCHANGED vars
  BY <1>1 DEF IInv, vars, seenVars, history, TypeOK, MapMatchesQueue, Counted,
              EntriesInTime, Forgotten, InHand, AppliedOnce, Guarded
<1> QED
  BY <1>1, TickIInv, DeliverIInv, ExemptIInv, AcceptIInv DEF Next

-------------------------------------------------------------------------------
(* A stamped event with an id is applied at most once until Cap other events *)
(* were recorded after it: SeenEvents::check_and_record together with the    *)
(* freshness window of apply_event, for every window, slack and cap.         *)
THEOREM GuardSound == Spec => []AppliedOnce
<1>1. IInv => AppliedOnce
  BY DEF IInv
<1> QED
  BY <1>1, InitIInv, NextIInv, PTL DEF Spec

(* The map and the queue of SeenEvents hold the same keys, once each, sorted *)
(* and no more than Cap of them.                                             *)
THEOREM MapSound == Spec => []MapMatchesQueue
<1>1. IInv => MapMatchesQueue
  BY DEF IInv
<1> QED
  BY <1>1, InitIInv, NextIInv, PTL DEF Spec
================================================================================
