--------------------------- MODULE RequestPathProofs ---------------------------
(***************************************************************************)
(* What holds of every call on its way through the chains, and of every    *)
(* audit record, for any number of calls, surfaces, plugins and sinks.     *)
(*                                                                         *)
(* The steps of a call touch that call alone; what a call has said, decided *)
(* and owes is therefore one predicate of its own state (Good), and what   *)
(* the fan-out has reached so far one of an emission (FanOffers).          *)
(***************************************************************************)
EXTENDS RequestPath, WellFoundedInduction, TLAPS

-------------------------------------------------------------------------------
(* Types.                                                                   *)

(* The records of single plugins in a chain. *)
ChainEvents ==
    {TransformApplied, PaymentOutcome(TRUE), PaymentOutcome(FALSE), GateRefused("deny"),
     GateRefused("challenge")}

Events == OtherEvents \cup CallRecords \cup ChainEvents

(* No attribute of a record is in the clear. *)
Records == [ev : Events, of : Emitters, node : BOOLEAN, attr : {"none", "digest", "redacted"}]

FanRecords ==
    {Idle, [pc |-> "over"]}
        \cup [pc : {"fan"}, at : Nat, rec : Records, policy : Policies,
              failed : SUBSET Sinks, skipped : SUBSET Sinks]

AuditType ==
    /\ policy \in Policies
    /\ digestKey \in BOOLEAN
    /\ fan \in [Emitters -> FanRecords]
    /\ kept \in [Gating -> SUBSET Records]
    /\ tasks \in [SinkPolicies -> Seq(Records)]
    /\ permits \in [SinkPolicies -> Nat]

Phases == {"none", "identity", "transform_pre", "gate_pre", "gate_post", "transform_post", "over"}

Verdicts == {"none", "resolved", "rejected", "no_credential", "value", "allow", "deny",
             "challenge", "pending", "audit_refused"}

LogEntries == [rec : Records, policy : Policies, failed : SUBSET Sinks, down : SUBSET Gating,
               skipped : SUBSET Sinks]

Jobs == [phase : Phases, pc : {"idle", "run", "emit", "ended", "done"}, at : Nat,
         verdict : Verdicts, due : Seq(Events), reachable : BOOLEAN, log : Seq(LogEntries)]

Payloads == Plugins \cup {"client", "backend"}

Kinds == {"skipped", "resolved", "none", "invalid", "unchanged", "modified", "error",
          "allow", "deny", "challenge", "pending"}

Spoken == [by : Plugins, saw : Payloads,
           said : [kind : Kinds, mods : SUBSET {"args", "result"}]]

CallType ==
    /\ job \in [Requests -> Jobs]
    /\ trace \in [Requests -> Seq(Spoken)]
    /\ val \in [Requests -> Payloads]
    /\ input \in [Requests -> Payloads]
    /\ short \in [Requests -> Plugins \cup {"none"}]

-------------------------------------------------------------------------------
(* One call.                                                                *)

(* The elements of a sequence. *)
Within(s) == {s[k] : k \in 1 .. Len(s)}

(* Who wrote the payload last when n plugins of trace t have spoken. *)
Writer(ph, t, i, n) ==
    LET w == {k \in 1 .. n : Rewrites(ph, t[k])}
    IN  IF w = {} THEN i ELSE t[CHOOSE k \in w : \A m \in w : m <= k].by

(* The chain of a phase in deployment d. *)
ChainIn(d, phase) ==
    CASE phase = "identity"          -> d.identity
      [] phase \in TransformPhases   -> d.transforms
      [] phase \in GatePhases        -> d.gates

(* The positions of a trace at which a plugin refused. *)
Refusing(ph, t) == {k \in 1 .. Len(t) : Refuses(ph, t[k])}

(* The records a trace obliges the host to write. *)
Owed(ph, t) == UNION {EntryOwes(ph, t[k]) : k \in 1 .. Len(t)}

(* The plugins spoke in the order of the chain, each of the latest rewrite,  *)
(* and none after a refusal.                                                 *)
Followed(d, j, t, v, i) ==
    /\ j.pc \in {"idle", "done"} => t = <<>>
    /\ j.pc \in {"run", "emit", "ended"} => j.phase \notin {"none", "over"}
    /\ j.pc = "run" => j.verdict = "none"
    /\ j.verdict = "none" /\ j.pc \in {"run", "emit"} => j.at = Len(t) + 1
    /\ \A k \in 1 .. Len(t) : /\ t[k].by = ChainIn(d, j.phase)[k]
                              /\ t[k].saw = Writer(j.phase, t, i, k - 1)
    /\ v = Writer(j.phase, t, i, Len(t))
    /\ Refusing(j.phase, t) \subseteq {Len(t)}
    /\ j.verdict = "none" => Refusing(j.phase, t) = {}

(* The verdict of a gate chain, while its records are written and after. *)
Judged(j, t) ==
    /\ j.pc = "ended" => j.verdict # "none"
    /\ j.pc \in {"emit", "ended"} /\ j.verdict # "none" /\ j.phase \in GatePhases =>
           IF Refusing(j.phase, t) = {}
           THEN j.verdict \in {"allow", "audit_refused"}
           ELSE j.verdict = IF j.phase = "gate_post" /\ t[Len(t)].said.kind = "pending"
                            THEN "deny" ELSE t[Len(t)].said.kind

(* What is on record and what is still due make up what the chain owes; the  *)
(* record of the call itself is due last and alone.                          *)
Recorded(j, t) ==
    /\ j.due # <<>> <=> j.pc = "emit"
    /\ ({l.rec.ev : l \in Within(j.log)} \cup Within(j.due)) \ CallRecords = Owed(j.phase, t)
    /\ \/ Within(j.due) \cap CallRecords = {}
       \/ /\ Len(j.due) = 1 /\ j.verdict = "allow" /\ j.phase \in GatePhases
          /\ Refusing(j.phase, t) = {}
    /\ j.pc \in {"run", "emit"} =>
           /\ j.verdict # "audit_refused"
           /\ \A l \in Within(j.log) : l.rec.ev \notin CallRecords
    /\ \A l \in Within(j.log) : l.policy = "fail_closed" => l.rec.ev \in CallRecords
    /\ j.pc = "ended" /\ j.verdict = "audit_refused" =>
           \E l \in Within(j.log) : l.rec.ev \in CallRecords
    /\ j.pc = "ended" /\ j.verdict # "audit_refused" =>
           \A l \in Within(j.log) : l.policy = "fail_closed" => l.failed = {} /\ l.down = {}

(* The switch of a phase's record in deployment d, and what a walked chain   *)
(* owes for the call itself.                                                 *)
EmitsIn(d, phase) == IF phase = "gate_pre" THEN d.emitAllowed ELSE d.emitCompleted

OwnIn(d, j) ==
    IF /\ j.phase \in GatePhases /\ j.at > 0 /\ EmitsIn(d, j.phase)
       /\ j.verdict \in {"allow", "audit_refused"}
    THEN {CallRecord(j.phase)} ELSE {}

(* A chain nobody walked has no gate, and no sink could be reached or no     *)
(* record was asked for.                                                     *)
PassedBy(d, j) == d.gates = <<>> /\ (EmitsIn(d, j.phase) => ~j.reachable)

(* The record of the call itself is on record or due exactly when it is owed. *)
Claimed(d, j) ==
    /\ ({l.rec.ev : l \in Within(j.log)} \cup Within(j.due)) \cap CallRecords = OwnIn(d, j)
    /\ j.pc \in {"run", "emit"} => j.at > 0
    /\ j.pc = "ended" /\ j.phase \in GatePhases /\ j.at = 0 => PassedBy(d, j)

(* What holds of a call in deployment d: job, trace, payload and input. *)
Good(d, j, t, v, i) ==
    Followed(d, j, t, v, i) /\ Judged(j, t) /\ Recorded(j, t) /\ Claimed(d, j)

(* All calls. *)
CallsGood == \A r \in Requests : Good(dep, job[r], trace[r], val[r], input[r])

-------------------------------------------------------------------------------
(* One emission: what the first n sinks made of a record.                   *)
Holding(k, of, ev) == {s \in Gating : \E rec \in k[s] : rec.of = of /\ rec.ev = ev}

(* Each of the first n sinks that gates the record has it, failed or was skipped. *)
Offered(k, of, ev, failed, skipped, n) ==
    \A i \in 1 .. n :
        SinkOrder[i] \in Gating /\ Accepts(SinkOrder[i], ev) =>
            SinkOrder[i] \in Holding(k, of, ev) \cup failed \cup skipped

(* An emission has passed the sinks before its position. *)
FanOffers ==
    \A e \in Emitters : fan[e].pc = "fan" =>
        /\ fan[e].rec.of = e
        /\ fan[e].at \in 1 .. Len(SinkOrder) + 1
        /\ Offered(kept, e, fan[e].rec.ev, fan[e].failed, fan[e].skipped, fan[e].at - 1)

(* A call's emission is of the record that is due first; only the record of  *)
(* the call itself is enforced.                                              *)
FanOfCall ==
    \A r \in Requests :
        /\ fan[r].pc # "over"
        /\ fan[r].pc = "fan" =>
               /\ job[r].pc = "emit" /\ fan[r].rec.ev = Head(job[r].due)
               /\ fan[r].policy = "fail_closed" => fan[r].rec.ev \in CallRecords

(* What a call has written was offered to every gating sink. *)
LogOffers ==
    \A r \in Requests : \A l \in Within(job[r].log) :
        Offered(kept, r, l.rec.ev, l.failed, l.skipped, Len(SinkOrder))

(* The inductive invariant. *)
Inv ==
    /\ AuditType /\ CallType
    /\ PermitsConserved /\ CallsGood
    /\ FanOffers /\ FanOfCall /\ LogOffers

-------------------------------------------------------------------------------
(* The operators.                                                           *)

(* The record of a call is none of those its chain owes. *)
LEMMA EventsApart == ChainEvents \cap CallRecords = {}
<1> USE DEF OfCaller, Event, Mcpg
<1>1. /\ GateRefused("deny").outcome = "Denied" /\ GateRefused("challenge").outcome = "Partial"
      /\ PaymentOutcome(FALSE).outcome = "Denied"
      /\ PaymentOutcome(TRUE).action = <<"mcpg">> \o <<"payment", "charged">>
      /\ TransformApplied.action = <<"mcpg">> \o <<"transform", "applied">>
  BY DEF GateRefused, PaymentOutcome, TransformApplied
<1>2. /\ ToolCallAllowed.outcome = "Success" /\ ToolCallCompleted.outcome = "Success"
      /\ ToolCallAllowed.action = <<"mcpg">> \o <<"tool", "call", "allowed">>
      /\ ToolCallCompleted.action = <<"mcpg">> \o <<"tool", "call", "completed">>
  BY DEF ToolCallAllowed, ToolCallCompleted
<1>3. /\ Len(<<"mcpg">> \o <<"payment", "charged">>) = 3
      /\ Len(<<"mcpg">> \o <<"transform", "applied">>) = 3
      /\ Len(<<"mcpg">> \o <<"tool", "call", "allowed">>) = 4
      /\ Len(<<"mcpg">> \o <<"tool", "call", "completed">>) = 4
  OBVIOUS
<1> QED BY <1>1, <1>2, <1>3 DEF ChainEvents, CallRecords

(* What one answer owes is of the chain's events. *)
LEMMA OwesChainEvents == \A ph, x : EntryOwes(ph, x) \subseteq ChainEvents
BY DEF EntryOwes, ChainEvents

(* One more element. *)
LEMMA Appending ==
    ASSUME NEW S, NEW t \in Seq(S), NEW x \in S
    PROVE  /\ Append(t, x) \in Seq(S) /\ Len(Append(t, x)) = Len(t) + 1 /\ Len(t) \in Nat
           /\ Append(t, x)[Len(t) + 1] = x
           /\ \A k \in 1 .. Len(t) : Append(t, x)[k] = t[k]
           /\ 1 .. (Len(t) + 1) = (1 .. Len(t)) \cup {Len(t) + 1}
           /\ Len(t) + 1 \notin 1 .. Len(t)
OBVIOUS

(* Only the empty sequence has no element. *)
LEMMA EmptyIsShort == ASSUME NEW S, NEW s \in Seq(S) PROVE s = <<>> <=> Len(s) = 0
OBVIOUS

(* What is in a sequence with one more element. *)
LEMMA WithinAppend ==
    ASSUME NEW S, NEW t \in Seq(S), NEW x \in S
    PROVE  Within(Append(t, x)) = Within(t) \cup {x}
<1> DEFINE a == Append(t, x)
<1>1. /\ Len(a) = Len(t) + 1 /\ a[Len(t) + 1] = x /\ Len(t) \in Nat
      /\ \A k \in 1 .. Len(t) : a[k] = t[k]
      /\ 1 .. (Len(t) + 1) = (1 .. Len(t)) \cup {Len(t) + 1}
  BY Appending
<1> HIDE DEF a
<1> QED BY <1>1 DEF Within, a

(* A set of naturals with a bound has a greatest element. *)
LEMMA Greatest ==
    ASSUME NEW n \in Nat, NEW w \in SUBSET (1 .. n), w # {}
    PROVE  \E k \in w : \A m \in w : m <= k
<1> DEFINE S == {n - k : k \in w}
<1>0. \A k \in w : n - k \in Nat
  OBVIOUS
<1>1. S \subseteq Nat /\ S # {}
  BY <1>0, Zenon
<1> HIDE DEF S
<1>2. PICK i \in S : \A j \in S : <<j, i>> \notin OpToRel(<, Nat)
  BY <1>1, NatLessThanWellFounded, WFMin, Zenon
<1>3. \A j \in S : ~(j < i)
  BY <1>1, <1>2, Zenon DEF OpToRel
<1>4. PICK k \in w : i = n - k
  BY DEF S
<1>5. ASSUME NEW m \in w PROVE m <= k
  <2>1. n - m \in S
    BY DEF S
  <2>2. ~(n - m < i)
    BY <1>3, <2>1
  <2> QED BY <1>4, <2>2
<1> QED BY <1>5

(* One more answer leaves the earlier rewrites as they were. *)
LEMMA WriterPrefix ==
    ASSUME NEW S, NEW t \in Seq(S), NEW x \in S, NEW ph, NEW i, NEW n \in 0 .. Len(t)
    PROVE  Writer(ph, Append(t, x), i, n) = Writer(ph, t, i, n)
<1> DEFINE a == Append(t, x)
           l == Len(t)
           W(s) == {k \in 1 .. n : Rewrites(ph, s[k])}
           Latest(w) == CHOOSE k \in w : \A m \in w : m <= k
<1>1. l \in Nat /\ n \in 0 .. l /\ \A k \in 1 .. l : a[k] = t[k]
  BY Appending
<1> HIDE DEF a, l
<1>2. \A s : Writer(ph, s, i, n) = IF W(s) = {} THEN i ELSE s[Latest(W(s))].by
  BY DEF Writer
<1>3. W(a) = W(t) /\ W(t) \subseteq 1 .. l
  BY <1>1
<1>4. CASE W(t) = {}
  BY <1>2, <1>3, <1>4 DEF a
<1>5. CASE W(t) # {}
  <2>1. W(t) \in SUBSET (1 .. l)
    BY <1>3
  <2>2. \E k \in W(t) : \A m \in W(t) : m <= k
    <3> HIDE DEF W
    <3> QED BY <1>1, <1>5, <2>1, Greatest
  <2>3. Latest(W(t)) \in W(t)
    BY <2>2
  <2>4. a[Latest(W(t))] = t[Latest(W(t))]
    BY <1>1, <2>1, <2>3
  <2> HIDE DEF W, Latest
  <2> QED BY <1>2, <1>3, <1>5, <2>4 DEF a
<1> QED BY <1>4, <1>5

(* The latest rewrite, after one more answer. *)
LEMMA WriterAppend ==
    ASSUME NEW S, NEW t \in Seq(S), NEW x \in S, NEW ph, NEW i
    PROVE  Writer(ph, Append(t, x), i, Len(t) + 1)
               = IF Rewrites(ph, x) THEN x.by ELSE Writer(ph, t, i, Len(t))
<1> DEFINE a == Append(t, x)
           l == Len(t)
           W(s, n) == {k \in 1 .. n : Rewrites(ph, s[k])}
           Latest(w) == CHOOSE k \in w : \A m \in w : m <= k
<1>1. /\ l \in Nat /\ a[l + 1] = x /\ \A k \in 1 .. l : a[k] = t[k]
      /\ 1 .. (l + 1) = (1 .. l) \cup {l + 1}
  BY Appending
<1>2. l \in 0 .. l
  BY <1>1
<1>3. Writer(ph, a, i, l) = Writer(ph, t, i, l)
  BY <1>2, WriterPrefix
<1> HIDE DEF a, l
<1>0. \A s, n : Writer(ph, s, i, n) = IF W(s, n) = {} THEN i ELSE s[Latest(W(s, n))].by
  BY DEF Writer
<1>4. CASE Rewrites(ph, x)
  <2>1. l + 1 \in W(a, l + 1) /\ \A m \in W(a, l + 1) : m <= l + 1
    BY <1>1, <1>4
  <2>2. /\ Latest(W(a, l + 1)) \in W(a, l + 1)
        /\ \A m \in W(a, l + 1) : m <= Latest(W(a, l + 1))
    <3> HIDE DEF W
    <3> QED BY <2>1
  <2>3. Latest(W(a, l + 1)) = l + 1
    <3>1. Latest(W(a, l + 1)) \in 1 .. (l + 1) /\ l + 1 <= Latest(W(a, l + 1))
      BY <2>1, <2>2
    <3> HIDE DEF Latest, W
    <3> QED BY <1>1, <3>1
  <2>4. W(a, l + 1) # {}
    BY <2>1
  <2> HIDE DEF W, Latest
  <2>5. Writer(ph, a, i, l + 1) = x.by
    BY <1>0, <1>1, <2>3, <2>4
  <2> QED BY <1>4, <2>5 DEF a, l
<1>5. CASE ~Rewrites(ph, x)
  <2>1. W(a, l + 1) = W(a, l)
    BY <1>1, <1>5
  <2>2. Writer(ph, a, i, l + 1) = Writer(ph, a, i, l)
    <3> HIDE DEF W, Latest
    <3> QED BY <1>0, <2>1
  <2> QED BY <1>3, <1>5, <2>2 DEF a, l
<1> QED BY <1>4, <1>5

(* Before anybody spoke. *)
LEMMA WriterEmpty == \A ph, i : Writer(ph, <<>>, i, 0) = i
BY DEF Writer

(* What a chain owes, after one more answer. *)
LEMMA OwedAppend ==
    ASSUME NEW S, NEW t \in Seq(S), NEW x \in S, NEW ph
    PROVE  Owed(ph, Append(t, x)) = Owed(ph, t) \cup EntryOwes(ph, x)
<1> DEFINE a == Append(t, x)
           l == Len(t)
<1>1. /\ Len(a) = l + 1 /\ a[l + 1] = x /\ l \in Nat
      /\ \A k \in 1 .. l : a[k] = t[k]
      /\ 1 .. (l + 1) = (1 .. l) \cup {l + 1}
  BY Appending
<1> HIDE DEF a
<1>2. ASSUME NEW ev PROVE ev \in Owed(ph, a) <=> ev \in Owed(ph, t) \cup EntryOwes(ph, x)
  BY <1>1 DEF Owed
<1> QED BY <1>2 DEF a

(* The refusals in a chain that had none, after one more answer. *)
LEMMA RefusingAppend ==
    ASSUME NEW S, NEW t \in Seq(S), NEW x \in S, NEW ph, Refusing(ph, t) = {}
    PROVE  Refusing(ph, Append(t, x)) = IF Refuses(ph, x) THEN {Len(t) + 1} ELSE {}
<1> DEFINE a == Append(t, x)
           l == Len(t)
<1>1. /\ Len(a) = l + 1 /\ a[l + 1] = x /\ l \in Nat
      /\ \A k \in 1 .. l : a[k] = t[k]
      /\ 1 .. (l + 1) = (1 .. l) \cup {l + 1}
  BY Appending
<1> HIDE DEF a
<1> QED BY <1>1 DEF Refusing, a

-------------------------------------------------------------------------------
(* What keeps a call good.                                                  *)

(* At the head of a chain, past a chain nobody walks, and at the end. *)
LEMMA FreshGood ==
    ASSUME NEW d, NEW j \in Jobs, NEW v, j.due = <<>>, j.log = <<>>,
           \/ j.pc = "run" /\ j.at = 1 /\ j.verdict = "none" /\ j.phase \notin {"none", "over"}
           \/ /\ j.pc = "ended" /\ j.verdict = "allow" /\ j.phase \notin {"none", "over"}
              /\ j.at = 0 /\ PassedBy(d, j)
           \/ j.pc \in {"idle", "done"} /\ j.at = 0
    PROVE  Good(d, j, <<>>, v, v)
<1>1. /\ Len(<<>>) = 0 /\ (\A k \in 1 .. 0 : FALSE)
      /\ \A ph : Refusing(ph, <<>>) = {} /\ Owed(ph, <<>>) = {}
  BY DEF Refusing, Owed
<1>2. Within(<<>>) = {}
  BY <1>1 DEF Within
<1>3. Followed(d, j, <<>>, v, v)
  BY <1>1, WriterEmpty DEF Followed
<1>4. Judged(j, <<>>)
  BY <1>1 DEF Judged
<1>5. Recorded(j, <<>>)
  BY <1>1, <1>2 DEF Recorded
<1>6. Claimed(d, j)
  <2>1. OwnIn(d, j) = {}
    BY DEF OwnIn
  <2> QED BY <1>2, <2>1 DEF Claimed
<1> QED BY <1>3, <1>4, <1>5, <1>6 DEF Good

(* A plugin has spoken in its turn. *)
LEMMA SpokeFollowed ==
    ASSUME NEW d, NEW j \in Jobs, NEW t \in Seq(Spoken), NEW v, NEW i, Followed(d, j, t, v, i),
           j.pc = "run", NEW x \in Spoken, x.by = ChainIn(d, j.phase)[j.at], x.saw = v,
           NEW v2, v2 = (IF Rewrites(j.phase, x) THEN x.by ELSE v),
           NEW j2 \in Jobs, j2.phase = j.phase, j2.pc \in {"run", "emit", "ended"},
           j2.verdict = "none" => j2.at = j.at + 1 /\ ~Refuses(j.phase, x),
           j2.pc = "run" => j2.verdict = "none"
    PROVE  /\ Followed(d, j2, Append(t, x), v2, i)
           /\ Refusing(j.phase, t) = {}
           /\ Refusing(j.phase, Append(t, x)) = IF Refuses(j.phase, x) THEN {Len(t) + 1} ELSE {}
<1> DEFINE a == Append(t, x)
           l == Len(t)
           ph == j.phase
<1>1. /\ a \in Seq(Spoken) /\ Len(a) = l + 1 /\ a[l + 1] = x /\ l \in Nat
      /\ \A k \in 1 .. l : a[k] = t[k]
      /\ 1 .. (l + 1) = (1 .. l) \cup {l + 1}
  BY Appending
<1>2. j.at = l + 1 /\ Refusing(ph, t) = {} /\ v = Writer(ph, t, i, l)
  BY DEF Followed
<1>3. Refusing(ph, a) = IF Refuses(ph, x) THEN {l + 1} ELSE {}
  BY <1>2, RefusingAppend
<1>4. /\ \A n \in 0 .. l : Writer(ph, a, i, n) = Writer(ph, t, i, n)
      /\ Writer(ph, a, i, l + 1) = IF Rewrites(ph, x) THEN x.by ELSE Writer(ph, t, i, l)
  <2>1. t \in Seq(Spoken) /\ x \in Spoken
    OBVIOUS
  <2> HIDE DEF a, l, ph
  <2>2. ASSUME NEW n \in 0 .. l PROVE Writer(ph, a, i, n) = Writer(ph, t, i, n)
    <3>1. n \in 0 .. Len(t)
      BY DEF l
    <3> QED BY <2>1, <3>1, WriterPrefix DEF a
  <2>3. Writer(ph, a, i, l + 1) = IF Rewrites(ph, x) THEN x.by ELSE Writer(ph, t, i, l)
    BY <2>1, WriterAppend DEF a, l
  <2> QED BY <2>2, <2>3
<1> HIDE DEF a, l
<1>5. ASSUME NEW k \in 1 .. (l + 1)
      PROVE  a[k].by = ChainIn(d, ph)[k] /\ a[k].saw = Writer(ph, a, i, k - 1)
  <2>1. CASE k = l + 1
    <3>1. k - 1 = l /\ l \in 0 .. l
      BY <1>1, <2>1
    <3> QED BY <1>1, <1>2, <1>4, <2>1, <3>1
  <2>2. CASE k \in 1 .. l
    <3>1. k - 1 \in 0 .. l
      BY <1>1, <2>2
    <3>2. t[k].by = ChainIn(d, ph)[k] /\ t[k].saw = Writer(ph, t, i, k - 1)
      BY <2>2 DEF Followed, l
    <3> QED BY <1>1, <1>4, <2>2, <3>1, <3>2
  <2> QED BY <1>1, <2>1, <2>2
<1>6. v2 = Writer(ph, a, i, l + 1)
  BY <1>2, <1>4
<1>7. Refusing(ph, a) \subseteq {l + 1}
  BY <1>3
<1>8. Followed(d, j2, a, v2, i)
  BY <1>1, <1>2, <1>3, <1>5, <1>6, <1>7 DEF Followed, Jobs
<1> QED BY <1>2, <1>3, <1>8 DEF a, l

(* And the chain goes on, after the records the answer owes. *)
LEMMA SpokeGoesOn ==
    ASSUME NEW d, NEW j \in Jobs, NEW t \in Seq(Spoken), NEW v, NEW i, Good(d, j, t, v, i),
           j.pc = "run", NEW x \in Spoken, x.by = ChainIn(d, j.phase)[j.at], x.saw = v,
           NEW v2, v2 = (IF Rewrites(j.phase, x) THEN x.by ELSE v),
           ~Refuses(j.phase, x),
           NEW j2 \in Jobs, j2.phase = j.phase, j2.at = j.at + 1, j2.verdict = j.verdict,
           j2.log = j.log, Within(j2.due) = EntryOwes(j.phase, x),
           j2.pc = (IF j2.due = <<>> THEN "run" ELSE "emit")
    PROVE  Good(d, j2, Append(t, x), v2, i)
<1>1. j.verdict = "none" /\ j.due = <<>>
  BY DEF Good, Followed, Recorded
<1>2. /\ Followed(d, j2, Append(t, x), v2, i)
      /\ Refusing(j.phase, Append(t, x)) = {}
  <2>1. Followed(d, j, t, v, i)
    BY DEF Good
  <2>2. /\ j2.pc \in {"run", "emit", "ended"}
        /\ j2.verdict = "none" => j2.at = j.at + 1 /\ ~Refuses(j.phase, x)
        /\ j2.pc = "run" => j2.verdict = "none"
    BY <1>1
  <2>3. /\ Followed(d, j2, Append(t, x), v2, i)
        /\ Refusing(j.phase, Append(t, x)) = IF Refuses(j.phase, x) THEN {Len(t) + 1} ELSE {}
    BY <2>1, <2>2, SpokeFollowed, ZenonT(40)
  <2> QED BY <2>3
<1>3. Judged(j2, Append(t, x))
  BY <1>1 DEF Judged
<1>4. Within(<<>>) = {}
  BY DEF Within
<1>5. Owed(j.phase, Append(t, x)) = Owed(j.phase, t) \cup EntryOwes(j.phase, x)
  BY OwedAppend
<1>6. EntryOwes(j.phase, x) \cap CallRecords = {}
  BY OwesChainEvents, EventsApart
<1> DEFINE on == {l.rec.ev : l \in Within(j.log)}
<1>7. (on \cup Within(j.due)) \ CallRecords = Owed(j.phase, t)
  BY DEF Good, Recorded
<1>8. (on \cup Within(j2.due)) \ CallRecords = Owed(j.phase, Append(t, x))
  <2> HIDE DEF on
  <2> QED BY <1>1, <1>4, <1>5, <1>6, <1>7
<1>9. Recorded(j2, Append(t, x))
  BY <1>1, <1>6, <1>8 DEF Good, Recorded
<1>10. Claimed(d, j2)
  <2>1. OwnIn(d, j2) = {}
    BY <1>1 DEF OwnIn
  <2>2. \A l \in Within(j.log) : l.rec.ev \notin CallRecords
    BY DEF Good, Recorded
  <2>3. {l.rec.ev : l \in Within(j2.log)} \cap CallRecords = {}
    BY <2>2
  <2>4. j2.at > 0 /\ j2.pc # "ended"
    BY DEF Good, Claimed, Jobs
  <2> QED BY <1>6, <2>1, <2>3, <2>4 DEF Claimed
<1> QED BY <1>2, <1>3, <1>9, <1>10 DEF Good

(* Or it was the last word. *)
LEMMA SpokeReturns ==
    ASSUME NEW d, NEW j \in Jobs, NEW t \in Seq(Spoken), NEW v, NEW i, Good(d, j, t, v, i),
           j.pc = "run", NEW x \in Spoken, x.by = ChainIn(d, j.phase)[j.at], x.saw = v,
           ~Rewrites(j.phase, x),
           NEW j2 \in Jobs, j2.phase = j.phase, j2.at = j.at, j2.log = j.log,
           j2.verdict \notin {"none", "audit_refused"},
           j.phase \in GatePhases =>
               /\ Refuses(j.phase, x)
               /\ j2.verdict = IF j.phase = "gate_post" /\ x.said.kind = "pending"
                               THEN "deny" ELSE x.said.kind,
           Within(j2.due) = EntryOwes(j.phase, x),
           j2.pc = (IF j2.due = <<>> THEN "ended" ELSE "emit")
    PROVE  Good(d, j2, Append(t, x), v, i)
<1>1. j.verdict = "none" /\ j.due = <<>>
  BY DEF Good, Followed, Recorded
<1>2. /\ Followed(d, j2, Append(t, x), v, i)
      /\ Refusing(j.phase, Append(t, x)) = IF Refuses(j.phase, x) THEN {Len(t) + 1} ELSE {}
  <2>1. Followed(d, j, t, v, i)
    BY DEF Good
  <2>2. /\ j2.pc \in {"run", "emit", "ended"}
        /\ j2.verdict = "none" => j2.at = j.at + 1 /\ ~Refuses(j.phase, x)
        /\ j2.pc = "run" => j2.verdict = "none"
    OBVIOUS
  <2>3. v = IF Rewrites(j.phase, x) THEN x.by ELSE v
    OBVIOUS
  <2> QED BY <2>1, <2>2, <2>3, SpokeFollowed, ZenonT(40)
<1>3. Append(t, x)[Len(Append(t, x))] = x
  BY Appending
<1>4. Judged(j2, Append(t, x))
  BY <1>2, <1>3 DEF Judged
<1>5. Within(<<>>) = {}
  BY DEF Within
<1>6. Owed(j.phase, Append(t, x)) = Owed(j.phase, t) \cup EntryOwes(j.phase, x)
  BY OwedAppend
<1>7. EntryOwes(j.phase, x) \cap CallRecords = {}
  BY OwesChainEvents, EventsApart
<1> DEFINE on == {l.rec.ev : l \in Within(j.log)}
<1>8. (on \cup Within(j.due)) \ CallRecords = Owed(j.phase, t)
  BY DEF Good, Recorded
<1>9. (on \cup Within(j2.due)) \ CallRecords = Owed(j.phase, Append(t, x))
  <2> HIDE DEF on
  <2> QED BY <1>1, <1>5, <1>6, <1>7, <1>8
<1>10. /\ \A l \in Within(j.log) : l.rec.ev \notin CallRecords
       /\ \A l \in Within(j.log) : l.policy = "fail_closed" => l.rec.ev \in CallRecords
  BY DEF Good, Recorded
<1>11. Recorded(j2, Append(t, x))
  BY <1>7, <1>9, <1>10 DEF Recorded
<1>12. Claimed(d, j2)
  <2>1. OwnIn(d, j2) = {}
    <3>1. j.phase \in GatePhases => j2.verdict \notin {"allow", "audit_refused"}
      BY DEF Refuses
    <3> QED BY <3>1 DEF OwnIn
  <2>2. {l.rec.ev : l \in Within(j2.log)} \cap CallRecords = {}
    BY <1>10
  <2>3. j2.at > 0
    BY DEF Good, Claimed
  <2> QED BY <1>7, <2>1, <2>2, <2>3 DEF Claimed, Jobs
<1> QED BY <1>2, <1>4, <1>11, <1>12 DEF Good

(* The chain is through, and owes at most the record of the call. *)
LEMMA EndGood ==
    ASSUME NEW d, NEW j \in Jobs, NEW t \in Seq(Spoken), NEW v, NEW i, Good(d, j, t, v, i),
           j.pc = "run", NEW j2 \in Jobs, j2.phase = j.phase, j2.at = j.at, j2.log = j.log,
           j2.verdict \notin {"none", "audit_refused"},
           j.phase \in GatePhases => j2.verdict = "allow",
           j2.due = (IF j.phase \in GatePhases /\ EmitsIn(d, j.phase)
                     THEN <<CallRecord(j.phase)>> ELSE <<>>),
           j2.pc = (IF j2.due = <<>> THEN "ended" ELSE "emit")
    PROVE  Good(d, j2, t, v, i)
<1>0. /\ CallRecord(j.phase) \in CallRecords
      /\ \/ j2.due = <<>>
         \/ j.phase \in GatePhases /\ \E ev \in CallRecords : j2.due = <<ev>>
  <2>1. CallRecord(j.phase) \in CallRecords
    BY DEF CallRecord, CallRecords
  <2> QED BY <2>1
<1>1. j.due = <<>> /\ Refusing(j.phase, t) = {}
  BY DEF Good, Followed, Recorded
<1>2. Followed(d, j2, t, v, i)
  BY <1>1 DEF Good, Followed
<1>3. Judged(j2, t)
  BY <1>1 DEF Judged
<1>4. Within(<<>>) = {} /\ \A ev : Within(<<ev>>) = {ev} /\ Len(<<ev>>) = 1 /\ <<ev>> # <<>>
  BY DEF Within
<1> DEFINE on == {l.rec.ev : l \in Within(j.log)}
<1>5. (on \cup Within(j.due)) \ CallRecords = Owed(j.phase, t)
  BY DEF Good, Recorded
<1>6. Within(j2.due) \subseteq CallRecords
  <2>1. CASE j2.due = <<>>
    BY <1>4, <2>1
  <2>2. CASE \E ev \in CallRecords : j2.due = <<ev>>
    <3>1. PICK ev \in CallRecords : j2.due = <<ev>>
      BY <2>2
    <3>2. Within(j2.due) = {ev}
      BY <1>4, <3>1, Zenon
    <3> QED BY <3>2
  <2> QED BY <1>0, <2>1, <2>2
<1>7. (on \cup Within(j2.due)) \ CallRecords = Owed(j.phase, t)
  <2> HIDE DEF on
  <2> QED BY <1>1, <1>4, <1>5, <1>6
<1>8. /\ \A l \in Within(j.log) : l.rec.ev \notin CallRecords
      /\ \A l \in Within(j.log) : l.policy = "fail_closed" => l.rec.ev \in CallRecords
  BY DEF Good, Recorded
<1>9. /\ j2.due # <<>> <=> j2.pc = "emit"
      /\ \/ Within(j2.due) \cap CallRecords = {}
         \/ Len(j2.due) = 1 /\ j2.verdict = "allow" /\ j.phase \in GatePhases
  <2>1. CASE j2.due = <<>>
    BY <1>4, <2>1
  <2>2. CASE j.phase \in GatePhases /\ \E ev \in CallRecords : j2.due = <<ev>>
    BY <1>4, <2>2
  <2> QED BY <1>0, <2>1, <2>2
<1>10. Recorded(j2, t)
  BY <1>1, <1>7, <1>8, <1>9 DEF Recorded
<1>11. Claimed(d, j2)
  <2>1. j2.at > 0
    BY DEF Good, Claimed
  <2>2. Within(j2.due) = OwnIn(d, j2)
    <3>1. CASE j.phase \in GatePhases /\ EmitsIn(d, j.phase)
      <4>1. Within(j2.due) = {CallRecord(j.phase)}
        BY <1>4, <3>1
      <4>2. OwnIn(d, j2) = {CallRecord(j.phase)}
        BY <2>1, <3>1 DEF OwnIn
      <4> QED BY <4>1, <4>2
    <3>2. CASE ~(j.phase \in GatePhases /\ EmitsIn(d, j.phase))
      <4>1. OwnIn(d, j2) = {}
        BY <3>2 DEF OwnIn
      <4> QED BY <1>4, <3>2, <4>1
    <3> QED BY <3>1, <3>2
  <2>3. on \cap CallRecords = {}
    BY <1>8
  <2>4. (on \cup Within(j2.due)) \cap CallRecords = OwnIn(d, j2)
    <3> HIDE DEF on
    <3> QED BY <1>6, <2>2, <2>3
  <2> QED BY <2>1, <2>4 DEF Claimed, Jobs
<1> QED BY <1>2, <1>3, <1>10, <1>11 DEF Good

(* A record is written: only the call's own can turn the verdict. *)
LEMMA WrittenGood ==
    ASSUME NEW d, NEW j \in Jobs, NEW t \in Seq(Spoken), NEW v, NEW i, Good(d, j, t, v, i),
           j.pc = "emit", NEW l \in LogEntries, l.rec.ev = Head(j.due),
           l.policy = "fail_closed" => l.rec.ev \in CallRecords,
           NEW j2 \in Jobs, j2.phase = j.phase, j2.at = j.at, j2.due = Tail(j.due),
           j2.log = Append(j.log, l),
           j2.verdict = (IF l.policy = "fail_closed" /\ l.failed \cup l.down # {}
                         THEN "audit_refused" ELSE j.verdict),
           j2.pc = (IF j2.due # <<>> THEN "emit"
                    ELSE IF j2.verdict = "none" THEN "run" ELSE "ended")
    PROVE  Good(d, j2, t, v, i)
<1>1. j.due # <<>> /\ j.due \in Seq(Events) /\ j.log \in Seq(LogEntries)
  BY DEF Good, Recorded, Jobs
<1>2. /\ Within(j.due) = {Head(j.due)} \cup Within(j2.due)
      /\ Len(j.due) = 1 <=> j2.due = <<>>
  <2>1. /\ Head(j.due) = j.due[1] /\ Len(j2.due) = Len(j.due) - 1 /\ Len(j.due) \in Nat \ {0}
        /\ \A k \in 1 .. Len(j2.due) : j2.due[k] = j.due[k + 1]
        /\ j2.due \in Seq(Events)
    BY <1>1
  <2>2. \A k \in 1 .. Len(j.due) : k = 1 \/ (k - 1 \in 1 .. Len(j2.due) /\ j.due[k] = j2.due[k - 1])
    BY <2>1
  <2>3. 1 \in 1 .. Len(j.due) /\ \A k \in 1 .. Len(j2.due) : k + 1 \in 1 .. Len(j.due)
    BY <2>1
  <2>4. Within(j.due) = {Head(j.due)} \cup Within(j2.due)
    <3> DEFINE due == j.due
               e == j2.due
               h == Head(j.due)
    <3>1. h = due[1] /\ 1 \in 1 .. Len(due)
      BY <2>1, <2>3
    <3> HIDE DEF due, e, h
    <3>2. ASSUME NEW y \in Within(due) PROVE y \in {h} \cup Within(e)
      BY <2>2, <3>1, ZenonT(40) DEF Within, due, e
    <3>3. ASSUME NEW y \in Within(e) PROVE y \in Within(due)
      <4>1. PICK k \in 1 .. Len(e) : y = e[k]
        BY <3>3 DEF Within
      <4>2. k + 1 \in 1 .. Len(due) /\ y = due[k + 1]
        BY <2>1, <2>3, <4>1 DEF due, e
      <4> QED BY <4>2, Zenon DEF Within
    <3>4. h \in Within(due)
      BY <3>1 DEF Within
    <3> QED BY <3>2, <3>3, <3>4 DEF due, e, h
  <2>5. j2.due = <<>> <=> Len(j2.due) = 0
    BY <2>1, EmptyIsShort
  <2>6. Len(j.due) = 1 <=> Len(j2.due) = 0
    BY <2>1
  <2> QED BY <2>4, <2>5, <2>6
<1>3. Within(j2.log) = Within(j.log) \cup {l}
  BY <1>1, WithinAppend
<1>4. /\ j.verdict # "audit_refused"
      /\ \A m \in Within(j.log) : m.rec.ev \notin CallRecords
      /\ \A m \in Within(j.log) : m.policy = "fail_closed" => m.rec.ev \in CallRecords
      /\ ({m.rec.ev : m \in Within(j.log)} \cup Within(j.due)) \ CallRecords = Owed(j.phase, t)
      /\ \/ Within(j.due) \cap CallRecords = {}
         \/ Len(j.due) = 1 /\ j.verdict = "allow" /\ j.phase \in GatePhases
               /\ Refusing(j.phase, t) = {}
  BY DEF Good, Recorded
<1>5. l.rec.ev \in CallRecords =>
          /\ j2.due = <<>> /\ j.verdict = "allow" /\ j.phase \in GatePhases
          /\ Refusing(j.phase, t) = {}
  BY <1>2, <1>4
<1>6. Followed(d, j2, t, v, i)
  BY <1>5 DEF Good, Followed
<1>7. Judged(j2, t)
  BY <1>5 DEF Good, Judged
<1>8. ({m.rec.ev : m \in Within(j2.log)} \cup Within(j2.due)) \ CallRecords = Owed(j.phase, t)
  <2> DEFINE on == {m.rec.ev : m \in Within(j.log)}
  <2>1. {m.rec.ev : m \in Within(j2.log)} = on \cup {l.rec.ev}
    BY <1>3
  <2>2. (on \cup Within(j.due)) \ CallRecords = Owed(j.phase, t)
    BY <1>4
  <2> HIDE DEF on
  <2> QED BY <1>2, <2>1, <2>2
<1>9. Within(j2.due) \cap CallRecords = {}
  <2>1. Within(<<>>) = {}
    BY DEF Within
  <2> QED BY <1>2, <1>4, <2>1
<1>10. j2.pc \in {"run", "emit"} => l.rec.ev \notin CallRecords /\ j2.verdict # "audit_refused"
  BY <1>4, <1>5
<1>11. Recorded(j2, t)
  BY <1>3, <1>4, <1>5, <1>8, <1>9, <1>10 DEF Recorded
<1>12. Claimed(d, j2)
  <2> DEFINE on == {m.rec.ev : m \in Within(j.log)}
  <2>1. {m.rec.ev : m \in Within(j2.log)} = on \cup {l.rec.ev}
    BY <1>3
  <2>2. (on \cup Within(j.due)) \cap CallRecords = OwnIn(d, j) /\ j.at > 0
    BY DEF Good, Claimed
  <2>3. OwnIn(d, j2) = OwnIn(d, j)
    <3>1. j2.verdict # j.verdict => j.verdict = "allow" /\ j2.verdict = "audit_refused"
      BY <1>5
    <3> QED BY <3>1 DEF OwnIn
  <2>4. (on \cup {l.rec.ev} \cup Within(j2.due)) \cap CallRecords = OwnIn(d, j2)
    <3> HIDE DEF on
    <3> QED BY <1>2, <2>2, <2>3
  <2>5. ({m.rec.ev : m \in Within(j2.log)} \cup Within(j2.due)) \cap CallRecords = OwnIn(d, j2)
    <3> HIDE DEF on
    <3> QED BY <2>1, <2>4
  <2>6. j2.at > 0 /\ j2.at # 0
    BY <2>2 DEF Jobs
  <2> QED BY <2>5, <2>6 DEF Claimed
<1> QED BY <1>6, <1>7, <1>11, <1>12 DEF Good

-------------------------------------------------------------------------------
(* The emissions.                                                           *)

(* An emission under way has its record. *)
LEMMA FanFields ==
    ASSUME AuditType, NEW e \in Emitters, fan[e].pc = "fan"
    PROVE  fan[e] \in [pc : {"fan"}, at : Nat, rec : Records, policy : Policies,
                       failed : SUBSET Sinks, skipped : SUBSET Sinks]
<1>1. fan[e] \in FanRecords
  BY DEF AuditType
<1> QED BY <1>1 DEF FanRecords, Idle

(* No record leaves with an attribute in the clear. *)
LEMMA PreparedType ==
    ASSUME NEW ev \in Events, NEW e \in Emitters, digestKey \in BOOLEAN
    PROVE  LET rec == Prepared(ev, e, AttributeOf(ev))
           IN  rec \in Records /\ rec.ev = ev /\ rec.of = e
<1> DEFINE attr == DigestedAttribute(AttributeOf(ev), digestKey)
           digested == [ev |-> ev, of |-> e, node |-> FALSE, attr |-> attr]
<1>1. attr \in {"none", "digest", "redacted"}
  BY DEF DigestedAttribute, AttributeOf
<1> HIDE DEF attr
<1>2. digested \in Records
  BY <1>1 DEF Records
<1>3. [digested EXCEPT !.node = TRUE] \in Records
  BY <1>1 DEF Records
<1>4. Prepared(ev, e, AttributeOf(ev)) = IF NodeId THEN [digested EXCEPT !.node = TRUE] ELSE digested
  BY DEF Prepared, attr
<1>5. CASE NodeId
  BY <1>3, <1>4, <1>5
<1>6. CASE ~NodeId
  BY <1>2, <1>4, <1>6
<1> QED BY <1>5, <1>6

(* An emission at its first sink. *)
Start(rec, q) ==
    [pc |-> "fan", at |-> 1, rec |-> rec, policy |-> q, failed |-> {}, skipped |-> {}]

(* Its fields. *)
LEMMA StartFields ==
    ASSUME NEW rec \in Records, NEW q \in Policies
    PROVE  /\ Start(rec, q) \in FanRecords
           /\ Start(rec, q).pc = "fan" /\ Start(rec, q).at = 1
           /\ Start(rec, q).rec = rec /\ Start(rec, q).policy = q
BY DEF Start, FanRecords

(* The emission e is at its next sink. *)
Further(e, c) ==
    /\ c \in FanRecords /\ c.pc = "fan" /\ c.at = fan[e].at + 1 /\ c.rec = fan[e].rec
    /\ c.policy = fan[e].policy
    /\ fan[e].failed \subseteq c.failed /\ fan[e].skipped \subseteq c.skipped

(* Going on to the next sink, which may be named as failed or as skipped. *)
LEMMA AdvancedFields ==
    ASSUME AuditType, NEW e \in Emitters, fan[e].pc = "fan", NEW s \in Sinks
    PROVE  /\ Further(e, Advanced(e))
           /\ Further(e, [Advanced(e) EXCEPT !.failed = @ \cup {s}])
           /\ Further(e, [Advanced(e) EXCEPT !.skipped = @ \cup {s}])
           /\ s \in [Advanced(e) EXCEPT !.failed = @ \cup {s}].failed
           /\ s \in [Advanced(e) EXCEPT !.skipped = @ \cup {s}].skipped
<1> DEFINE F == [pc : {"fan"}, at : Nat, rec : Records, policy : Policies,
                 failed : SUBSET Sinks, skipped : SUBSET Sinks]
           f == Advanced(e)
           g == [f EXCEPT !.failed = @ \cup {s}]
           h == [f EXCEPT !.skipped = @ \cup {s}]
<1>1. fan[e] \in F
  BY FanFields
<1>2. /\ f \in F /\ f.pc = "fan" /\ f.at = fan[e].at + 1 /\ f.rec = fan[e].rec
      /\ f.policy = fan[e].policy /\ f.failed = fan[e].failed /\ f.skipped = fan[e].skipped
  BY <1>1 DEF Advanced
<1> HIDE DEF f
<1>3. /\ g \in F /\ g.pc = "fan" /\ g.at = f.at /\ g.rec = f.rec
      /\ g.policy = f.policy /\ g.failed = f.failed \cup {s} /\ g.skipped = f.skipped
  BY <1>2
<1>4. /\ h \in F /\ h.pc = "fan" /\ h.at = f.at /\ h.rec = f.rec
      /\ h.policy = f.policy /\ h.failed = f.failed /\ h.skipped = f.skipped \cup {s}
  BY <1>2
<1>5. F \subseteq FanRecords
  BY DEF FanRecords
<1> HIDE DEF F, g, h
<1>6. Further(e, f)
  BY <1>2, <1>5 DEF Further
<1>7. Further(e, g) /\ s \in g.failed
  BY <1>2, <1>3, <1>5 DEF Further
<1>8. Further(e, h) /\ s \in h.skipped
  BY <1>2, <1>4, <1>5 DEF Further
<1> QED BY <1>6, <1>7, <1>8 DEF f, g, h

(* The elements of two sequences, one after the other. *)
LEMMA Joining ==
    ASSUME NEW S, NEW a \in Seq(S), NEW b \in Seq(S)
    PROVE  a \o b \in Seq(S) /\ Len(a \o b) = Len(a) + Len(b)
OBVIOUS

(* What handing a record to the sink whose turn it is may do. *)
SinkAnswers(e, c) ==
    /\ fan' = [fan EXCEPT ![e] = c]
    /\ Further(e, c)
    /\ LET s == SinkOrder[fan[e].at] IN
       s \in Gating /\ Accepts(s, fan[e].rec.ev) =>
           s \in c.failed \cup c.skipped \/ fan[e].rec \in kept'[s]

(* A sink that is passed over is named, if it wanted the record. *)
LEMMA SkipEffect ==
    ASSUME AuditType, NEW e \in Emitters, SkipSink(e)
    PROVE  /\ AuditType' /\ fan[e].pc = "fan" /\ fan[e].at <= Len(SinkOrder)
           /\ kept' = kept /\ tasks' = tasks /\ permits' = permits
           /\ \E c \in FanRecords : SinkAnswers(e, c)
<1>1. PICK s \in Sinks :
          /\ AtSink(e, s)
          /\ fan' = [fan EXCEPT ![e] = [Advanced(e) EXCEPT
                        !.skipped = IF Accepts(s, fan[e].rec.ev) THEN @ \cup {s} ELSE @]]
          /\ UNCHANGED <<policy, digestKey, kept, tasks, permits>>
  BY DEF SkipSink
<1>2. fan[e].pc = "fan" /\ fan[e].at <= Len(SinkOrder) /\ s = SinkOrder[fan[e].at]
  BY <1>1 DEF AtSink
<1> DEFINE f == Advanced(e)
           h == [f EXCEPT !.skipped = @ \cup {s}]
           c == [f EXCEPT !.skipped = IF Accepts(s, fan[e].rec.ev) THEN @ \cup {s} ELSE @]
<1>3. Further(e, f) /\ Further(e, h) /\ s \in h.skipped
  BY <1>2, AdvancedFields
<1>4. c = IF Accepts(s, fan[e].rec.ev) THEN h ELSE f
  <2>1. CASE Accepts(s, fan[e].rec.ev)
    BY <2>1
  <2>2. CASE ~Accepts(s, fan[e].rec.ev)
    <3>1. c = [f EXCEPT !.skipped = @]
      BY <2>2
    <3>2. f \in [pc : {"fan"}, at : Nat, rec : Records, policy : Policies,
                 failed : SUBSET Sinks, skipped : SUBSET Sinks]
      <4> HIDE DEF f
      <4> QED BY <1>3 DEF Further, FanRecords, Idle
    <3> HIDE DEF f
    <3>3. c = f
      BY <3>1, <3>2
    <3> QED BY <2>2, <3>3
  <2> QED BY <2>1, <2>2
<1>5. fan' = [fan EXCEPT ![e] = c]
  BY <1>1
<1> HIDE DEF f, h, c
<1>6. c \in FanRecords
  BY <1>3, <1>4 DEF Further
<1>7. AuditType'
  BY <1>1, <1>5, <1>6 DEF AuditType
<1>8. SinkAnswers(e, c)
  <2>1. CASE Accepts(s, fan[e].rec.ev)
    BY <1>2, <1>3, <1>4, <1>5, <2>1 DEF SinkAnswers
  <2>2. CASE ~Accepts(s, fan[e].rec.ev)
    BY <1>2, <1>3, <1>4, <1>5, <2>2 DEF SinkAnswers
  <2> QED BY <2>1, <2>2
<1> QED BY <1>1, <1>2, <1>6, <1>7, <1>8

(* A collector's record rides with the permit it takes, or is lost. *)
LEMMA SpawnEffect ==
    ASSUME AuditType, PermitsConserved, NEW e \in Emitters, SpawnEmit(e)
    PROVE  /\ AuditType' /\ PermitsConserved' /\ fan[e].pc = "fan" /\ fan[e].at <= Len(SinkOrder)
           /\ kept' = kept
           /\ \E c \in FanRecords : SinkAnswers(e, c)
<1>1. PICK s \in Sinks \ Gating :
          /\ AtSink(e, s)
          /\ IF permits[PolicyOf[s]] > 0
             THEN /\ permits' = [permits EXCEPT ![PolicyOf[s]] = @ - 1]
                  /\ tasks'   = [tasks EXCEPT ![PolicyOf[s]] = Append(@, fan[e].rec)]
             ELSE UNCHANGED <<permits, tasks>>
          /\ fan' = [fan EXCEPT ![e] = Advanced(e)]
          /\ UNCHANGED <<policy, digestKey, kept>>
  BY DEF SpawnEmit
<1>2. fan[e].pc = "fan" /\ fan[e].at <= Len(SinkOrder) /\ s = SinkOrder[fan[e].at]
  BY <1>1 DEF AtSink
<1> DEFINE c == Advanced(e)
           q == PolicyOf[s]
<1>3. Further(e, c)
  BY <1>2, AdvancedFields
<1>0. /\ q \in SinkPolicies
      /\ IF permits[q] > 0
         THEN /\ permits' = [permits EXCEPT ![q] = @ - 1]
              /\ tasks'   = [tasks EXCEPT ![q] = Append(@, fan[e].rec)]
         ELSE UNCHANGED <<permits, tasks>>
  BY <1>1 DEF SinkPolicies
<1> HIDE DEF c, q
<1>4. fan[e].rec \in Records
  BY <1>2, FanFields
<1>5. SinkAnswers(e, c)
  BY <1>1, <1>2, <1>3 DEF SinkAnswers, c
<1>6. AuditType' /\ PermitsConserved'
  <2>1. fan' \in [Emitters -> FanRecords]
    BY <1>1, <1>3 DEF AuditType, c, Further
  <2>2. CASE permits[q] > 0
    <3>1. tasks[q] \in Seq(Records) /\ permits[q] \in Nat
      BY <1>0 DEF AuditType
    <3>2. /\ Append(tasks[q], fan[e].rec) \in Seq(Records)
          /\ Len(Append(tasks[q], fan[e].rec)) = Len(tasks[q]) + 1 /\ Len(tasks[q]) \in Nat
      BY <1>4, <3>1, Appending
    <3>3. /\ permits' = [permits EXCEPT ![q] = permits[q] - 1]
          /\ tasks' = [tasks EXCEPT ![q] = Append(tasks[q], fan[e].rec)]
      BY <1>0, <2>2
    <3>4. permits' \in [SinkPolicies -> Nat] /\ tasks' \in [SinkPolicies -> Seq(Records)]
      <4>1. permits[q] - 1 \in Nat
        BY <2>2, <3>1
      <4>2. permits' \in [SinkPolicies -> Nat]
        BY <1>0, <3>3, <4>1 DEF AuditType
      <4>3. tasks' \in [SinkPolicies -> Seq(Records)]
        BY <1>0, <3>2, <3>3 DEF AuditType
      <4> QED BY <4>2, <4>3
    <3>5. ASSUME NEW z \in SinkPolicies PROVE permits'[z] + Len(tasks'[z]) = InFlight
      <4>1. permits[z] + Len(tasks[z]) = InFlight
        BY DEF PermitsConserved
      <4>2. CASE z = q
        <5>0. tasks'[q] = Append(tasks[q], fan[e].rec)
          BY <1>0, <3>3 DEF AuditType
        <5>1. permits'[q] = permits[q] - 1 /\ permits[q] \in Nat
          BY <1>0, <3>1, <3>3 DEF AuditType
        <5>2. Len(tasks'[q]) = Len(tasks[q]) + 1 /\ Len(tasks[q]) \in Nat
          BY <3>2, <5>0
        <5>3. permits'[q] + Len(tasks'[q]) = permits[q] + Len(tasks[q])
          BY <5>1, <5>2
        <5> QED BY <4>1, <4>2, <5>3
      <4>3. CASE z # q
        BY <3>3, <4>1, <4>3 DEF AuditType
      <4> QED BY <4>2, <4>3
    <3> QED BY <1>1, <2>1, <3>4, <3>5 DEF AuditType, PermitsConserved
  <2>3. CASE ~(permits[q] > 0)
    BY <1>0, <1>1, <2>1, <2>3 DEF AuditType, PermitsConserved
  <2> QED BY <2>2, <2>3
<1> QED BY <1>1, <1>2, <1>3, <1>5, <1>6 DEF Further

(* A gating sink keeps the record or is named among the failed. *)
LEMMA GatingEffect ==
    ASSUME AuditType, NEW e \in Emitters, GatingEmit(e)
    PROVE  /\ AuditType' /\ fan[e].pc = "fan" /\ fan[e].at <= Len(SinkOrder)
           /\ tasks' = tasks /\ permits' = permits
           /\ \A s \in Gating : kept[s] \subseteq kept'[s]
           /\ \E c \in FanRecords : SinkAnswers(e, c)
<1>1. PICK s \in Gating :
          /\ AtSink(e, s)
          /\ \/ /\ kept' = [kept EXCEPT ![s] = @ \cup {fan[e].rec}]
                /\ fan'  = [fan EXCEPT ![e] = Advanced(e)]
             \/ /\ fan'  = [fan EXCEPT ![e] = [Advanced(e) EXCEPT !.failed = @ \cup {s}]]
                /\ UNCHANGED kept
          /\ UNCHANGED <<policy, digestKey, tasks, permits>>
  BY DEF GatingEmit
<1>2. fan[e].pc = "fan" /\ fan[e].at <= Len(SinkOrder) /\ s = SinkOrder[fan[e].at]
  BY <1>1 DEF AtSink
<1> DEFINE f == Advanced(e)
           g == [f EXCEPT !.failed = @ \cup {s}]
<1>0. s \in Sinks
  BY SinkAssumption DEF Sinks
<1>3. Further(e, f) /\ Further(e, g) /\ s \in g.failed
  BY <1>0, <1>2, AdvancedFields
<1>4. fan[e].rec \in Records
  BY <1>2, FanFields
<1>5. CASE kept' = [kept EXCEPT ![s] = @ \cup {fan[e].rec}] /\ fan' = [fan EXCEPT ![e] = f]
  <2> HIDE DEF f, g
  <2>1. AuditType'
    BY <1>1, <1>3, <1>4, <1>5 DEF AuditType, Further
  <2>2. fan[e].rec \in kept'[s] /\ \A z \in Gating : kept[z] \subseteq kept'[z]
    BY <1>5 DEF AuditType
  <2>3. SinkAnswers(e, f)
    BY <1>2, <1>3, <1>5, <2>2 DEF SinkAnswers
  <2> QED BY <1>1, <1>2, <1>3, <2>1, <2>2, <2>3 DEF Further
<1>6. CASE kept' = kept /\ fan' = [fan EXCEPT ![e] = g]
  <2> HIDE DEF f, g
  <2>1. AuditType'
    BY <1>1, <1>3, <1>6 DEF AuditType, Further
  <2>2. SinkAnswers(e, g)
    BY <1>2, <1>3, <1>6 DEF SinkAnswers
  <2> QED BY <1>1, <1>2, <1>3, <1>6, <2>1, <2>2 DEF Further
<1> QED BY <1>1, <1>5, <1>6

(* A collector's task gives its permit back. *)
LEMMA CollectorEffect ==
    ASSUME AuditType, PermitsConserved, NEW q \in SinkPolicies, CollectorDone(q)
    PROVE  AuditType' /\ PermitsConserved' /\ kept' = kept /\ fan' = fan
<1>1. PICK i \in 1 .. Len(tasks[q]) :
          /\ tasks'   = [tasks EXCEPT ![q] = RemoveAt(tasks[q], i)]
          /\ permits' = [permits EXCEPT ![q] = permits[q] + 1]
          /\ UNCHANGED <<serving, policy, digestKey, fan, kept>>
  BY DEF CollectorDone
<1> DEFINE t == tasks[q]
           u == RemoveAt(t, i)
<1>2. t \in Seq(Records) /\ permits[q] \in Nat
  BY DEF AuditType
<1>3. u \in Seq(Records) /\ Len(u) = Len(t) - 1 /\ Len(t) \in Nat
  <2> HIDE DEF t
  <2>0. i \in 1 .. Len(t) /\ Len(t) \in Nat
    BY <1>2 DEF t
  <2> DEFINE a == SubSeq(t, 1, i - 1)
             b == SubSeq(t, i + 1, Len(t))
  <2>1. a \in Seq(Records) /\ Len(a) = i - 1
    BY <1>2, <2>0
  <2>2. b \in Seq(Records) /\ Len(b) = Len(t) - i
    BY <1>2, <2>0
  <2>3. u = a \o b
    BY DEF RemoveAt
  <2> HIDE DEF a, b, u
  <2>4. u \in Seq(Records) /\ Len(u) = Len(a) + Len(b)
    BY <2>1, <2>2, <2>3, Joining
  <2> QED BY <2>0, <2>1, <2>2, <2>4
<1>4. tasks' = [tasks EXCEPT ![q] = u] /\ permits' = [permits EXCEPT ![q] = permits[q] + 1]
  BY <1>1
<1> HIDE DEF u
<1>5. AuditType'
  BY <1>1, <1>2, <1>3, <1>4 DEF AuditType
<1>6. ASSUME NEW z \in SinkPolicies PROVE permits'[z] + Len(tasks'[z]) = InFlight
  <2>1. permits[z] + Len(tasks[z]) = InFlight
    BY DEF PermitsConserved
  <2>2. CASE z = q
    <3>1. permits'[z] = permits[q] + 1 /\ tasks'[z] = u
      BY <1>4, <2>2 DEF AuditType
    <3> QED BY <1>2, <1>3, <2>1, <2>2, <3>1
  <2>3. CASE z # q
    BY <1>4, <2>1, <2>3 DEF AuditType
  <2> QED BY <2>2, <2>3
<1> QED BY <1>1, <1>5, <1>6 DEF PermitsConserved

(* What was offered stays so as the sinks keep more. *)
LEMMA OfferedGrows ==
    ASSUME NEW k, NEW k2, \A s \in Gating : k[s] \subseteq k2[s], NEW of, NEW ev,
           NEW f, NEW f2, f \subseteq f2, NEW g, NEW g2, g \subseteq g2, NEW n,
           Offered(k, of, ev, f, g, n)
    PROVE  Offered(k2, of, ev, f2, g2, n)
<1>1. Holding(k, of, ev) \subseteq Holding(k2, of, ev)
  BY DEF Holding
<1> QED BY <1>1 DEF Offered

(* One more sink. *)
LEMMA OfferedNext ==
    ASSUME NEW k, NEW of, NEW ev, NEW f, NEW g, NEW n \in Nat, Offered(k, of, ev, f, g, n),
           SinkOrder[n + 1] \in Gating /\ Accepts(SinkOrder[n + 1], ev) =>
               SinkOrder[n + 1] \in Holding(k, of, ev) \cup f \cup g
    PROVE  Offered(k, of, ev, f, g, n + 1)
<1>1. 1 .. (n + 1) = (1 .. n) \cup {n + 1}
  OBVIOUS
<1> QED BY <1>1 DEF Offered

(* No emission but e's moves. *)
LEMMA FanOffersKept ==
    ASSUME AuditType, FanOffers, \A s \in Gating : kept[s] \subseteq kept'[s],
           NEW e \in Emitters, NEW c, fan' = [fan EXCEPT ![e] = c],
           c.pc = "fan" =>
               /\ c.rec.of = e /\ c.at \in 1 .. Len(SinkOrder) + 1
               /\ Offered(kept', e, c.rec.ev, c.failed, c.skipped, c.at - 1)
    PROVE  FanOffers'
<1> SUFFICES ASSUME NEW z \in Emitters, fan'[z].pc = "fan"
             PROVE  /\ fan'[z].rec.of = z
                    /\ fan'[z].at \in 1 .. Len(SinkOrder) + 1
                    /\ Offered(kept', z, fan'[z].rec.ev, fan'[z].failed, fan'[z].skipped,
                               fan'[z].at - 1)
  BY DEF FanOffers
<1>1. CASE z = e
  <2>1. fan'[z] = c
    BY <1>1 DEF AuditType
  <2> QED BY <1>1, <2>1
<1>2. CASE z # e
  <2>1. fan'[z] = fan[z]
    BY <1>2 DEF AuditType
  <2>2. /\ fan[z].rec.of = z
        /\ fan[z].at \in 1 .. Len(SinkOrder) + 1
        /\ Offered(kept, z, fan[z].rec.ev, fan[z].failed, fan[z].skipped, fan[z].at - 1)
    BY <2>1 DEF FanOffers
  <2>3. Offered(kept', z, fan[z].rec.ev, fan[z].failed, fan[z].skipped, fan[z].at - 1)
    <3> DEFINE ev == fan[z].rec.ev
               f == fan[z].failed
               g == fan[z].skipped
               n == fan[z].at - 1
    <3>1. Offered(kept, z, ev, f, g, n)
      BY <2>2
    <3> HIDE DEF ev, f, g, n
    <3>2. Offered(kept', z, ev, f, g, n)
      BY <3>1, OfferedGrows
    <3> QED BY <3>2 DEF ev, f, g, n
  <2> QED BY <2>1, <2>2, <2>3
<1> QED BY <1>1, <1>2

(* A sink has answered. *)
LEMMA FanOffersOn ==
    ASSUME AuditType, FanOffers, \A s \in Gating : kept[s] \subseteq kept'[s],
           NEW e \in Emitters, fan[e].pc = "fan", fan[e].at <= Len(SinkOrder),
           NEW c \in FanRecords, SinkAnswers(e, c)
    PROVE  FanOffers'
<1> DEFINE n == fan[e].at - 1
           s == SinkOrder[fan[e].at]
           ev == fan[e].rec.ev
<1>1. /\ fan[e].rec.of = e /\ fan[e].at \in 1 .. Len(SinkOrder) + 1
      /\ Offered(kept, e, ev, fan[e].failed, fan[e].skipped, n)
  BY DEF FanOffers
<1>2. /\ fan' = [fan EXCEPT ![e] = c]
      /\ c.at = fan[e].at + 1 /\ c.rec = fan[e].rec
      /\ fan[e].failed \subseteq c.failed /\ fan[e].skipped \subseteq c.skipped
      /\ s \in Gating /\ Accepts(s, ev) =>
             s \in c.failed \cup c.skipped \/ fan[e].rec \in kept'[s]
  BY DEF SinkAnswers, Further
<1>3. Len(SinkOrder) \in Nat
  BY SinkAssumption
<1>4. n \in Nat /\ n + 1 = fan[e].at /\ c.at - 1 = n + 1 /\ c.at \in 1 .. Len(SinkOrder) + 1
  <2>1. fan[e].at \in 1 .. Len(SinkOrder) + 1 /\ c.at = fan[e].at + 1
    BY <1>1, <1>2
  <2> QED BY <1>3, <2>1
<1> HIDE DEF n, ev
<1>5. Offered(kept', e, ev, c.failed, c.skipped, n)
  BY <1>1, <1>2, OfferedGrows
<1>6. SinkOrder[n + 1] \in Gating /\ Accepts(SinkOrder[n + 1], ev) =>
          SinkOrder[n + 1] \in Holding(kept', e, ev) \cup c.failed \cup c.skipped
  BY <1>1, <1>2, <1>4 DEF Holding, ev
<1>7. Offered(kept', e, ev, c.failed, c.skipped, n + 1)
  BY <1>4, <1>5, <1>6, OfferedNext
<1> QED BY <1>1, <1>2, <1>4, <1>7, FanOffersKept DEF ev

(* No call writes, or one forgets what it wrote. *)
LEMMA LogOffersKept ==
    ASSUME LogOffers, \A s \in Gating : kept[s] \subseteq kept'[s],
           \A r \in Requests : Within(job'[r].log) \subseteq Within(job[r].log)
    PROVE  LogOffers'
<1> SUFFICES ASSUME NEW r \in Requests, NEW l \in Within(job'[r].log)
             PROVE  Offered(kept', r, l.rec.ev, l.failed, l.skipped, Len(SinkOrder))
  BY DEF LogOffers, Within
<1>1. Offered(kept, r, l.rec.ev, l.failed, l.skipped, Len(SinkOrder))
  BY DEF LogOffers
<1> QED BY <1>1, OfferedGrows

-------------------------------------------------------------------------------
(* The steps of a call.                                                     *)

(* Call r moves on, and no other. *)
CallMoves(r, j, t, v, i) ==
    /\ job' = [job EXCEPT ![r] = j] /\ trace' = [trace EXCEPT ![r] = t]
    /\ val' = [val EXCEPT ![r] = v] /\ input' = [input EXCEPT ![r] = i]
    /\ dep' = dep

(* The state of the calls is theirs one by one. *)
LEMMA CallKept ==
    ASSUME CallType, CallsGood, NEW r \in Requests,
           NEW j \in Jobs, NEW t \in Seq(Spoken), NEW v \in Payloads, NEW i \in Payloads,
           CallMoves(r, j, t, v, i), Good(dep, j, t, v, i),
           short' \in [Requests -> Plugins \cup {"none"}]
    PROVE  CallType' /\ CallsGood'
<1>1. CallType'
  BY DEF CallType, CallMoves
<1>2. ASSUME NEW z \in Requests PROVE Good(dep', job'[z], trace'[z], val'[z], input'[z])
  <2>1. CASE z = r
    <3>1. /\ job'[z] = j /\ trace'[z] = t /\ val'[z] = v /\ input'[z] = i /\ dep' = dep
      BY <2>1 DEF CallType, CallMoves
    <3> QED BY <3>1
  <2>2. CASE z # r
    <3>1. /\ job'[z] = job[z] /\ trace'[z] = trace[z] /\ val'[z] = val[z]
          /\ input'[z] = input[z] /\ dep' = dep
      BY <2>2 DEF CallType, CallMoves
    <3>2. Good(dep, job[z], trace[z], val[z], input[z])
      BY DEF CallsGood
    <3> QED BY <3>1, <3>2
  <2> QED BY <2>1, <2>2
<1> QED BY <1>1, <1>2 DEF CallsGood

(* A step of a call that is not about its records. *)
LEMMA QuietCall ==
    ASSUME Inv, NEW r \in Requests, job[r].pc # "emit", UNCHANGED auditVars,
           NEW j \in Jobs, NEW t \in Seq(Spoken), NEW v \in Payloads, NEW i \in Payloads,
           CallMoves(r, j, t, v, i), Good(dep, j, t, v, i),
           short' \in [Requests -> Plugins \cup {"none"}],
           j.log \in {job[r].log, <<>>}
    PROVE  Inv'
<1>1. CallType' /\ CallsGood'
  BY CallKept DEF Inv
<1>2. /\ fan' = fan /\ kept' = kept /\ tasks' = tasks /\ permits' = permits
      /\ policy' = policy /\ digestKey' = digestKey
  BY DEF auditVars
<1>3. AuditType' /\ PermitsConserved' /\ FanOffers'
  BY <1>2 DEF Inv, AuditType, PermitsConserved, FanOffers
<1>4. job' = [job EXCEPT ![r] = j] /\ job \in [Requests -> Jobs]
  BY DEF CallMoves, Inv, CallType
<1>5. FanOfCall'
  BY <1>2, <1>4 DEF Inv, FanOfCall
<1>6. LogOffers'
  <2>1. Within(<<>>) = {}
    BY DEF Within
  <2>2. \A z \in Requests : Within(job'[z].log) \subseteq Within(job[z].log)
    <3>1. CASE j.log = <<>>
      BY <1>4, <2>1, <3>1
    <3>2. CASE j.log = job[r].log
      BY <1>4, <3>2
    <3> QED BY <3>1, <3>2
  <2>3. \A s \in Gating : kept[s] \subseteq kept'[s]
    BY <1>2
  <2> QED BY <2>2, <2>3, LogOffersKept DEF Inv
<1> QED BY <1>1, <1>3, <1>5, <1>6 DEF Inv

(* Writing a component as it was. *)
LEMMA Rewriting ==
    ASSUME NEW S, NEW T, NEW f \in [S -> T], NEW r \in S
    PROVE  f = [f EXCEPT ![r] = f[r]]
OBVIOUS

(* Going on: the next plugin of the same chain. *)
LEMMA GoOnEffect ==
    ASSUME CallType, NEW r \in Requests, NEW due \in Seq(Events), GoOn(r, due)
    PROVE  \E j \in Jobs :
               /\ job' = [job EXCEPT ![r] = j]
               /\ j.phase = job[r].phase /\ j.at = job[r].at + 1 /\ j.verdict = job[r].verdict
               /\ j.log = job[r].log /\ j.due = due
               /\ j.pc = IF due = <<>> THEN "run" ELSE "emit"
<1> DEFINE o == job[r]
           q == IF due = <<>> THEN "run" ELSE "emit"
           n == o.at + 1
           j == [o EXCEPT !.at = n, !.due = due, !.pc = q]
<1>1. job' = [job EXCEPT ![r] = j]
  BY DEF GoOn, CallType, Jobs
<1>2. o \in Jobs /\ q \in {"run", "emit"} /\ n \in Nat
  BY DEF CallType, Jobs
<1> HIDE DEF o, q, n
<1>3. /\ j \in Jobs /\ j.phase = o.phase /\ j.at = n /\ j.verdict = o.verdict
      /\ j.log = o.log /\ j.due = due /\ j.pc = q
  BY <1>2 DEF Jobs
<1> HIDE DEF j
<1> QED BY <1>1, <1>3 DEF o, q, n

(* Leaving a chain with a verdict. *)
LEMMA ReturnEffect ==
    ASSUME CallType, NEW r \in Requests, NEW due \in Seq(Events), NEW verdict \in Verdicts,
           Return(r, verdict, due)
    PROVE  \E j \in Jobs :
               /\ job' = [job EXCEPT ![r] = j]
               /\ j.phase = job[r].phase /\ j.at = job[r].at /\ j.verdict = verdict
               /\ j.log = job[r].log /\ j.due = due
               /\ j.pc = IF due = <<>> THEN "ended" ELSE "emit"
<1> DEFINE o == job[r]
           q == IF due = <<>> THEN "ended" ELSE "emit"
           j == [o EXCEPT !.verdict = verdict, !.due = due, !.pc = q]
<1>1. job' = [job EXCEPT ![r] = j]
  BY DEF Return, CallType, Jobs
<1>2. o \in Jobs /\ q \in {"ended", "emit"}
  BY DEF CallType
<1> HIDE DEF o, q
<1>3. /\ j \in Jobs /\ j.phase = o.phase /\ j.at = o.at /\ j.verdict = verdict
      /\ j.log = o.log /\ j.due = due /\ j.pc = q
  BY <1>2 DEF Jobs
<1> HIDE DEF j
<1> QED BY <1>1, <1>3 DEF o, q

(* What plugin p said of the payload it was given. *)
Word(p, saw, said) == [by |-> p, saw |-> saw, said |-> said]

Answers == [kind : Kinds, mods : SUBSET {"args", "result"}]

(* A plugin spoke, and the chain goes on. *)
LEMMA SpokeOn ==
    ASSUME Inv, NEW r \in Requests, NEW p \in Plugins, Turn(r, p), NEW said \in Answers,
           Said(r, p, val[r], said), NEW due \in Seq(Events), GoOn(r, due),
           Within(due) = EntryOwes(job[r].phase, Word(p, val[r], said)),
           ~Refuses(job[r].phase, Word(p, val[r], said)),
           NEW v, v = (IF Rewrites(job[r].phase, Word(p, val[r], said)) THEN p ELSE val[r]),
           val' = [val EXCEPT ![r] = v], input' = input, dep' = dep, UNCHANGED auditVars,
           short' \in [Requests -> Plugins \cup {"none"}]
    PROVE  Inv'
<1> DEFINE x == Word(p, val[r], said)
           t == trace[r]
           i == input[r]
<1>1. /\ job[r] \in Jobs /\ t \in Seq(Spoken) /\ val[r] \in Payloads /\ i \in Payloads
      /\ Good(dep, job[r], t, val[r], i) /\ CallType
      /\ input = [input EXCEPT ![r] = i]
  BY Rewriting DEF Inv, CallType, CallsGood
<1>2. x \in Spoken /\ x.by = p /\ x.saw = val[r]
  BY <1>1 DEF Word, Spoken, Answers
<1>3. trace' = [trace EXCEPT ![r] = Append(t, x)] /\ Append(t, x) \in Seq(Spoken)
  BY <1>1, <1>2 DEF Said, Word
<1>4. job[r].pc = "run" /\ x.by = ChainIn(dep, job[r].phase)[job[r].at]
  BY <1>2 DEF Turn, ChainOf, ChainIn
<1>5. PICK j \in Jobs :
          /\ job' = [job EXCEPT ![r] = j]
          /\ j.phase = job[r].phase /\ j.at = job[r].at + 1 /\ j.verdict = job[r].verdict
          /\ j.log = job[r].log /\ j.due = due
          /\ j.pc = IF due = <<>> THEN "run" ELSE "emit"
  BY <1>1, GoOnEffect
<1>6. /\ Within(j.due) = EntryOwes(job[r].phase, x) /\ ~Refuses(job[r].phase, x)
      /\ v = IF Rewrites(job[r].phase, x) THEN x.by ELSE val[r]
  BY <1>2, <1>5
<1> HIDE DEF x, t, i
<1>7. Good(dep, j, Append(t, x), v, i)
  BY <1>1, <1>2, <1>4, <1>5, <1>6, SpokeGoesOn
<1>8. v \in Payloads
  BY <1>1 DEF Payloads
<1>9. CallMoves(r, j, Append(t, x), v, i)
  BY <1>1, <1>3, <1>5 DEF CallMoves
<1>10. job[r].pc # "emit" /\ j.log \in {job[r].log, <<>>}
  BY <1>4, <1>5
<1> QED BY <1>1, <1>3, <1>7, <1>8, <1>9, <1>10, QuietCall

(* A plugin had the last word. *)
LEMMA SpokeLast ==
    ASSUME Inv, NEW r \in Requests, NEW p \in Plugins, Turn(r, p), NEW said \in Answers,
           Said(r, p, val[r], said), NEW due \in Seq(Events),
           NEW verdict \in Verdicts \ {"none", "audit_refused"}, Return(r, verdict, due),
           Within(due) = EntryOwes(job[r].phase, Word(p, val[r], said)),
           ~Rewrites(job[r].phase, Word(p, val[r], said)),
           job[r].phase \in GatePhases =>
               /\ Refuses(job[r].phase, Word(p, val[r], said))
               /\ verdict = IF job[r].phase = "gate_post" /\ said.kind = "pending"
                            THEN "deny" ELSE said.kind,
           UNCHANGED <<val, input, dep, short>>, UNCHANGED auditVars
    PROVE  Inv'
<1> DEFINE x == Word(p, val[r], said)
           t == trace[r]
           i == input[r]
           v == val[r]
<1>1. /\ job[r] \in Jobs /\ t \in Seq(Spoken) /\ v \in Payloads /\ i \in Payloads
      /\ Good(dep, job[r], t, v, i) /\ CallType
      /\ input = [input EXCEPT ![r] = i] /\ val = [val EXCEPT ![r] = v]
      /\ short' \in [Requests -> Plugins \cup {"none"}]
  BY Rewriting DEF Inv, CallType, CallsGood
<1>2. x \in Spoken /\ x.by = p /\ x.saw = v /\ x.said = said
  BY <1>1 DEF Word, Spoken, Answers
<1>3. trace' = [trace EXCEPT ![r] = Append(t, x)] /\ Append(t, x) \in Seq(Spoken)
  BY <1>1, <1>2 DEF Said, Word
<1>4. job[r].pc = "run" /\ x.by = ChainIn(dep, job[r].phase)[job[r].at]
  BY <1>2 DEF Turn, ChainOf, ChainIn
<1>5. PICK j \in Jobs :
          /\ job' = [job EXCEPT ![r] = j]
          /\ j.phase = job[r].phase /\ j.at = job[r].at /\ j.verdict = verdict
          /\ j.log = job[r].log /\ j.due = due
          /\ j.pc = IF due = <<>> THEN "ended" ELSE "emit"
  BY <1>1, ReturnEffect
<1>6. /\ Within(j.due) = EntryOwes(job[r].phase, x) /\ ~Rewrites(job[r].phase, x)
      /\ j.verdict \notin {"none", "audit_refused"}
      /\ job[r].phase \in GatePhases =>
             /\ Refuses(job[r].phase, x)
             /\ j.verdict = IF job[r].phase = "gate_post" /\ x.said.kind = "pending"
                            THEN "deny" ELSE x.said.kind
      /\ j.pc = IF j.due = <<>> THEN "ended" ELSE "emit"
  BY <1>2, <1>5
<1> HIDE DEF x, t, i, v
<1>7. Good(dep, j, Append(t, x), v, i)
  BY <1>1, <1>2, <1>4, <1>5, <1>6, SpokeReturns
<1>8. CallMoves(r, j, Append(t, x), v, i)
  BY <1>1, <1>3, <1>5 DEF CallMoves
<1>9. job[r].pc # "emit" /\ j.log \in {job[r].log, <<>>}
  BY <1>4, <1>5
<1> QED BY <1>1, <1>3, <1>7, <1>8, <1>9, QuietCall

(* The records a chain can owe, one or two at a time. *)
LEMMA Dues ==
    /\ <<>> \in Seq(Events) /\ Within(<<>>) = {}
    /\ \A ev \in ChainEvents \cup CallRecords : <<ev>> \in Seq(Events) /\ Within(<<ev>>) = {ev}
    /\ \A ev, ev2 \in ChainEvents :
           <<ev>> \o <<ev2>> \in Seq(Events) /\ Within(<<ev>> \o <<ev2>>) = {ev, ev2}
<1>1. <<>> \in Seq(Events) /\ Within(<<>>) = {}
  BY DEF Within
<1>2. ASSUME NEW ev \in ChainEvents \cup CallRecords
      PROVE  <<ev>> \in Seq(Events) /\ Within(<<ev>>) = {ev}
  BY DEF Within, Events
<1>3. ASSUME NEW ev \in ChainEvents, NEW ev2 \in ChainEvents
      PROVE  <<ev>> \o <<ev2>> \in Seq(Events) /\ Within(<<ev>> \o <<ev2>>) = {ev, ev2}
  <2> DEFINE a == <<ev>>
             b == Append(a, ev2)
  <2>1. <<ev>> \o <<ev2>> = b /\ a \in Seq(Events) /\ ev2 \in Events /\ Within(a) = {ev}
    BY <1>2 DEF Events
  <2> HIDE DEF a
  <2>2. b \in Seq(Events) /\ Within(b) = {ev} \cup {ev2}
    BY <2>1, WithinAppend, Appending
  <2> QED BY <2>1, <2>2
<1> QED BY <1>1, <1>2, <1>3

(* The payload and the short-circuit, as they were. *)
LEMMA Unwritten ==
    ASSUME CallType, NEW r \in Requests
    PROVE  val = [val EXCEPT ![r] = val[r]] /\ short \in [Requests -> Plugins \cup {"none"}]
BY Rewriting DEF CallType

(* A plugin that does not serve is passed over. *)
LEMMA SkipStep == ASSUME Inv, NEW r \in Requests, SkipPlugin(r) PROVE Inv'
<1> DEFINE said == [kind |-> "skipped", mods |-> {}]
<1>1. PICK p \in Plugins :
          /\ Turn(r, p) /\ Said(r, p, val[r], said) /\ GoOn(r, <<>>)
          /\ UNCHANGED <<serving, auditVars, dep, val, input, short, ran, toggles>>
  BY DEF SkipPlugin
<1> DEFINE x == Word(p, val[r], said)
<1>2. /\ said \in Answers /\ EntryOwes(job[r].phase, x) = {}
      /\ ~Refuses(job[r].phase, x) /\ ~Rewrites(job[r].phase, x)
  BY DEF Answers, Kinds, EntryOwes, Refuses, Rewrites, Word
<1> HIDE DEF said
<1>3. val' = [val EXCEPT ![r] = val[r]] /\ short' \in [Requests -> Plugins \cup {"none"}]
  BY <1>1, Unwritten DEF Inv
<1> QED BY <1>1, <1>2, <1>3, Dues, SpokeOn

(* An identity plugin has answered. *)
LEMMA IdentityStep == ASSUME Inv, NEW r \in Requests, AskIdentity(r) PROVE Inv'
<1>1. PICK p \in Plugins, kind \in {"resolved", "none", "invalid"} :
          /\ job[r].phase = "identity" /\ Turn(r, p)
          /\ Said(r, p, val[r], [kind |-> kind, mods |-> {}])
          /\ CASE kind = "resolved" -> Return(r, "resolved", <<>>)
               [] kind = "none"     -> GoOn(r, <<>>)
               [] kind = "invalid"  -> Return(r, "rejected", <<>>)
          /\ UNCHANGED <<serving, auditVars, dep, val, input, short, ran, toggles>>
  BY DEF AskIdentity
<1> DEFINE said == [kind |-> kind, mods |-> {}]
           x == Word(p, val[r], said)
<1>2. /\ said \in Answers /\ EntryOwes(job[r].phase, x) = {}
      /\ kind = "none" => ~Refuses(job[r].phase, x)
      /\ ~Rewrites(job[r].phase, x) /\ job[r].phase \notin GatePhases
  BY <1>1 DEF Answers, Kinds, EntryOwes, Refuses, Rewrites, Word, TransformPhases, GatePhases
<1>3. val' = [val EXCEPT ![r] = val[r]] /\ short' \in [Requests -> Plugins \cup {"none"}]
  BY <1>1, Unwritten DEF Inv
<1>4. Said(r, p, val[r], said)
  BY <1>1
<1> HIDE DEF said
<1>5. CASE kind = "none"
  <2>1. GoOn(r, <<>>)
    BY <1>1, <1>5
  <2> QED BY <1>1, <1>2, <1>3, <1>4, <1>5, <2>1, Dues, SpokeOn
<1>6. CASE kind # "none"
  <2>1. \E verdict \in {"resolved", "rejected"} : Return(r, verdict, <<>>)
    BY <1>1, <1>6
  <2>2. PICK verdict \in Verdicts \ {"none", "audit_refused"} : Return(r, verdict, <<>>)
    BY <2>1 DEF Verdicts
  <2> QED BY <1>1, <1>2, <1>4, <2>2, Dues, SpokeLast
<1> QED BY <1>5, <1>6

(* A transform has answered. *)
LEMMA TransformStep == ASSUME Inv, NEW r \in Requests, ApplyTransform(r) PROVE Inv'
<1>1. PICK p \in Plugins, kind \in {"unchanged", "modified", "error"} :
          /\ job[r].phase \in TransformPhases /\ Turn(r, p)
          /\ Said(r, p, val[r], [kind |-> kind, mods |-> {}])
          /\ IF kind = "modified"
             THEN val' = [val EXCEPT ![r] = p] /\ GoOn(r, <<TransformApplied>>)
             ELSE UNCHANGED val /\ GoOn(r, <<>>)
          /\ UNCHANGED <<serving, auditVars, dep, input, short, ran, toggles>>
  BY DEF ApplyTransform
<1> DEFINE said == [kind |-> kind, mods |-> {}]
           x == Word(p, val[r], said)
<1>2. /\ said \in Answers /\ ~Refuses(job[r].phase, x)
      /\ EntryOwes(job[r].phase, x) = IF kind = "modified" THEN {TransformApplied} ELSE {}
      /\ Rewrites(job[r].phase, x) <=> kind = "modified"
  BY <1>1 DEF Answers, Kinds, EntryOwes, Refuses, Rewrites, Word, TransformPhases
<1>3. val = [val EXCEPT ![r] = val[r]] /\ short' \in [Requests -> Plugins \cup {"none"}]
  BY <1>1, Unwritten DEF Inv
<1>4. Said(r, p, val[r], said)
  BY <1>1
<1>5. <<TransformApplied>> \in Seq(Events) /\ Within(<<TransformApplied>>) = {TransformApplied}
  BY Dues DEF ChainEvents
<1> HIDE DEF said
<1>6. CASE kind = "modified"
  <2>1. val' = [val EXCEPT ![r] = p] /\ GoOn(r, <<TransformApplied>>)
    BY <1>1, <1>6
  <2> QED BY <1>1, <1>2, <1>3, <1>4, <1>5, <1>6, <2>1, SpokeOn
<1>7. CASE kind # "modified"
  <2>1. val' = [val EXCEPT ![r] = val[r]] /\ GoOn(r, <<>>)
    BY <1>1, <1>3, <1>7
  <2> QED BY <1>1, <1>2, <1>3, <1>4, <1>7, <2>1, Dues, SpokeOn
<1> QED BY <1>6, <1>7

(* What a gate can say. *)
LEMMA DecisionType ==
    ASSUME NEW d \in Decisions
    PROVE  /\ d \in Answers
           /\ \/ d.kind = "allow"
              \/ d.kind \in {"deny", "challenge", "pending"} /\ d.mods = {}
BY DEF Decisions, Answers, Kinds

(* A gate of the pre chain has answered. *)
LEMMA GatePreStep == ASSUME Inv, NEW r \in Requests, GatePre(r) PROVE Inv'
<1>1. PICK p \in Plugins, d \in Decisions :
          /\ job[r].phase = "gate_pre" /\ Turn(r, p)
          /\ Said(r, p, CurrentArguments(r), d)
          /\ CASE d.kind = "allow" ->
                    /\ GoOn(r, IF p \in Payment THEN <<PaymentOutcome(TRUE)>> ELSE <<>>)
                    /\ val'   = [val EXCEPT ![r] = IF "args" \in d.mods THEN p ELSE @]
                    /\ short' = [short EXCEPT ![r] = IF "result" \in d.mods THEN p ELSE @]
               [] d.kind = "pending" ->
                    Return(r, "pending", <<>>) /\ UNCHANGED <<val, short>>
               [] d.kind \in {"deny", "challenge"} ->
                    /\ IF p \in Enforce THEN Return(r, d.kind, RefusalRecords(p, d.kind))
                                        ELSE GoOn(r, <<>>)
                    /\ UNCHANGED <<val, short>>
          /\ UNCHANGED <<serving, auditVars, dep, input, ran, toggles>>
  BY DEF GatePre
<1> DEFINE x == Word(p, val[r], d)
<1>2. Said(r, p, val[r], d) /\ x.by = p /\ x.said = d /\ job[r].phase \in GatePhases
  BY <1>1 DEF CurrentArguments, Word, GatePhases
<1>3. val = [val EXCEPT ![r] = val[r]] /\ short \in [Requests -> Plugins \cup {"none"}]
  BY Unwritten DEF Inv
<1>4. d \in Answers /\ (d.kind = "allow" \/ (d.kind \in {"deny", "challenge", "pending"} /\ d.mods = {}))
  BY DecisionType
<1>5. Rewrites(job[r].phase, x) <=> "args" \in d.mods
  BY <1>1, <1>2 DEF Rewrites, TransformPhases
<1> HIDE DEF x
<1>6. CASE d.kind = "allow"
  <2> DEFINE due == IF p \in Payment THEN <<PaymentOutcome(TRUE)>> ELSE <<>>
             v == IF "args" \in d.mods THEN p ELSE val[r]
  <2>1. /\ GoOn(r, due) /\ val' = [val EXCEPT ![r] = v]
        /\ short' = [short EXCEPT ![r] = IF "result" \in d.mods THEN p ELSE @]
    BY <1>1, <1>6
  <2>2. short' \in [Requests -> Plugins \cup {"none"}]
    BY <1>3, <2>1
  <2>3. EntryOwes(job[r].phase, x) = IF p \in Payment THEN {PaymentOutcome(TRUE)} ELSE {}
    BY <1>1, <1>2, <1>6 DEF EntryOwes, TransformPhases
  <2>4. due \in Seq(Events) /\ Within(due) = EntryOwes(job[r].phase, x)
    BY <2>3, Dues DEF ChainEvents
  <2>5. ~Refuses(job[r].phase, x)
    BY <1>2, <1>6 DEF Refuses
  <2>6. v = IF Rewrites(job[r].phase, x) THEN p ELSE val[r]
    BY <1>5
  <2> HIDE DEF due, v
  <2> QED BY <1>1, <1>2, <1>4, <2>1, <2>2, <2>4, <2>5, <2>6, SpokeOn DEF x
<1>7. CASE d.kind = "pending"
  <2>1. Return(r, "pending", <<>>) /\ UNCHANGED <<val, short>>
    BY <1>1, <1>7
  <2>2. EntryOwes(job[r].phase, x) = {} /\ Refuses(job[r].phase, x) /\ ~Rewrites(job[r].phase, x)
    BY <1>1, <1>2, <1>4, <1>5, <1>7 DEF EntryOwes, TransformPhases, Refuses
  <2>3. "pending" \in Verdicts \ {"none", "audit_refused"}
    BY DEF Verdicts
  <2> QED BY <1>1, <1>2, <1>4, <1>7, <2>1, <2>2, <2>3, Dues, SpokeLast DEF x
<1>8. CASE d.kind \in {"deny", "challenge"} /\ p \in Enforce
  <2> DEFINE due == RefusalRecords(p, d.kind)
  <2>1. Return(r, d.kind, due) /\ UNCHANGED <<val, short>>
    BY <1>1, <1>8
  <2>2. Refuses(job[r].phase, x) /\ ~Rewrites(job[r].phase, x)
    BY <1>2, <1>4, <1>5, <1>8 DEF Refuses
  <2>3. EntryOwes(job[r].phase, x)
            = {GateRefused(d.kind)} \cup IF p \in Payment THEN {PaymentOutcome(FALSE)} ELSE {}
    BY <1>1, <1>2, <1>8 DEF EntryOwes, TransformPhases
  <2>4. GateRefused(d.kind) \in ChainEvents /\ PaymentOutcome(FALSE) \in ChainEvents
    BY <1>8 DEF ChainEvents
  <2>5. due \in Seq(Events) /\ Within(due) = EntryOwes(job[r].phase, x)
    <3>1. CASE p \in Payment
      <4>1. due = <<GateRefused(d.kind)>> \o <<PaymentOutcome(FALSE)>>
        BY <3>1 DEF RefusalRecords
      <4> HIDE DEF due
      <4>2. /\ due \in Seq(Events)
            /\ Within(due) = {GateRefused(d.kind), PaymentOutcome(FALSE)}
        BY <2>4, <4>1, Dues, Zenon
      <4> QED BY <2>3, <3>1, <4>2
    <3>2. CASE p \notin Payment
      <4>1. due = <<GateRefused(d.kind)>>
        BY <3>2 DEF RefusalRecords
      <4> HIDE DEF due
      <4>2. due \in Seq(Events) /\ Within(due) = {GateRefused(d.kind)}
        BY <2>4, <4>1, Dues
      <4> QED BY <2>3, <3>2, <4>2
    <3> QED BY <3>1, <3>2
  <2>6. d.kind \in Verdicts \ {"none", "audit_refused"} /\ d.kind # "pending"
    BY <1>8 DEF Verdicts
  <2> HIDE DEF due
  <2> QED BY <1>1, <1>2, <1>4, <2>1, <2>2, <2>5, <2>6, SpokeLast DEF x
<1>9. CASE d.kind \in {"deny", "challenge"} /\ p \notin Enforce
  <2>1. GoOn(r, <<>>) /\ UNCHANGED <<val, short>>
    BY <1>1, <1>9
  <2>2. EntryOwes(job[r].phase, x) = {} /\ ~Refuses(job[r].phase, x) /\ ~Rewrites(job[r].phase, x)
    BY <1>1, <1>2, <1>4, <1>5, <1>9 DEF EntryOwes, TransformPhases, Refuses
  <2>3. val' = [val EXCEPT ![r] = val[r]] /\ short' \in [Requests -> Plugins \cup {"none"}]
    BY <1>3, <2>1
  <2>4. /\ Turn(r, p) /\ UNCHANGED auditVars /\ input' = input /\ dep' = dep
        /\ <<>> \in Seq(Events) /\ Within(<<>>) = EntryOwes(job[r].phase, x)
        /\ val[r] = IF Rewrites(job[r].phase, x) THEN p ELSE val[r]
    BY <1>1, <2>2, Dues
  <2>5. Said(r, p, val[r], d) /\ d \in Answers /\ GoOn(r, <<>>) /\ ~Refuses(job[r].phase, x)
    BY <1>2, <1>4, <2>1, <2>2
  <2> QED BY <2>3, <2>4, <2>5, SpokeOn DEF x
<1> QED BY <1>4, <1>6, <1>7, <1>8, <1>9

(* A gate of the post chain has answered. *)
LEMMA GatePostStep == ASSUME Inv, NEW r \in Requests, GatePost(r) PROVE Inv'
<1>1. PICK p \in Plugins, d \in Decisions :
          /\ job[r].phase = "gate_post" /\ Turn(r, p)
          /\ Said(r, p, val[r], d)
          /\ CASE d.kind = "allow" ->
                    /\ GoOn(r, <<>>)
                    /\ val' = [val EXCEPT ![r] = IF "result" \in d.mods THEN p ELSE @]
               [] d.kind = "pending" -> Return(r, "deny", <<>>) /\ UNCHANGED val
               [] d.kind \in {"deny", "challenge"} ->
                    /\ IF p \in Enforce THEN Return(r, d.kind, <<>>) ELSE GoOn(r, <<>>)
                    /\ UNCHANGED val
          /\ UNCHANGED <<serving, auditVars, dep, input, short, ran, toggles>>
  BY DEF GatePost
<1> DEFINE x == Word(p, val[r], d)
<1>2. x.by = p /\ x.said = d
  BY DEF Word
<1>3. /\ Said(r, p, val[r], d) /\ Turn(r, p) /\ UNCHANGED auditVars
      /\ input' = input /\ dep' = dep /\ short' = short
      /\ job[r].phase \in GatePhases /\ <<>> \in Seq(Events)
  BY <1>1, Dues DEF GatePhases
<1>4. /\ val = [val EXCEPT ![r] = val[r]]
      /\ short' \in [Requests -> Plugins \cup {"none"}]
  BY <1>3, Unwritten DEF Inv
<1>5. d \in Answers /\ (d.kind = "allow" \/ (d.kind \in {"deny", "challenge", "pending"} /\ d.mods = {}))
  BY DecisionType
<1>6. Rewrites(job[r].phase, x) <=> "result" \in d.mods
  BY <1>1, <1>2 DEF Rewrites, TransformPhases
<1>7. Within(<<>>) = EntryOwes(job[r].phase, x)
  BY <1>1, Dues DEF EntryOwes, TransformPhases
<1> HIDE DEF x
<1>8. CASE d.kind = "allow"
  <2> DEFINE v == IF "result" \in d.mods THEN p ELSE val[r]
  <2>1. GoOn(r, <<>>) /\ val' = [val EXCEPT ![r] = v]
    BY <1>1, <1>8
  <2>2. ~Refuses(job[r].phase, x)
    BY <1>2, <1>8 DEF Refuses
  <2>3. v = IF Rewrites(job[r].phase, x) THEN p ELSE val[r]
    BY <1>6
  <2> HIDE DEF v
  <2> QED BY <1>3, <1>4, <1>5, <1>7, <2>1, <2>2, <2>3, SpokeOn DEF x
<1>9. CASE d.kind = "pending"
  <2>1. Return(r, "deny", <<>>) /\ val' = val
    BY <1>1, <1>9
  <2>2. Refuses(job[r].phase, x) /\ ~Rewrites(job[r].phase, x)
    BY <1>2, <1>5, <1>6, <1>9 DEF Refuses
  <2>3. "deny" \in Verdicts \ {"none", "audit_refused"}
    BY DEF Verdicts
  <2>4. "deny" = IF job[r].phase = "gate_post" /\ d.kind = "pending" THEN "deny" ELSE d.kind
    BY <1>1, <1>9
  <2> QED BY <1>3, <1>5, <1>7, <2>1, <2>2, <2>3, <2>4, SpokeLast DEF x
<1>10. CASE d.kind \in {"deny", "challenge"} /\ p \in Enforce
  <2>1. Return(r, d.kind, <<>>) /\ val' = val
    BY <1>1, <1>10
  <2>2. Refuses(job[r].phase, x) /\ ~Rewrites(job[r].phase, x)
    BY <1>2, <1>5, <1>6, <1>10 DEF Refuses
  <2>3. d.kind \in Verdicts \ {"none", "audit_refused"}
    BY <1>10 DEF Verdicts
  <2>4. d.kind = IF job[r].phase = "gate_post" /\ d.kind = "pending" THEN "deny" ELSE d.kind
    BY <1>10
  <2> QED BY <1>3, <1>5, <1>7, <2>1, <2>2, <2>3, <2>4, SpokeLast DEF x
<1>11. CASE d.kind \in {"deny", "challenge"} /\ p \notin Enforce
  <2>1. GoOn(r, <<>>) /\ val' = val
    BY <1>1, <1>11
  <2>2. ~Refuses(job[r].phase, x) /\ ~Rewrites(job[r].phase, x)
    BY <1>2, <1>5, <1>6, <1>11 DEF Refuses
  <2>3. val' = [val EXCEPT ![r] = val[r]]
    BY <1>4, <2>1
  <2>4. val[r] = IF Rewrites(job[r].phase, x) THEN p ELSE val[r]
    BY <2>2
  <2> QED BY <1>3, <1>4, <1>5, <1>7, <2>1, <2>2, <2>3, <2>4, SpokeOn DEF x
<1> QED BY <1>5, <1>8, <1>9, <1>10, <1>11

(* A chain is through. *)
LEMMA EndStep == ASSUME Inv, NEW r \in Requests, EndChain(r) PROVE Inv'
<1> DEFINE t == trace[r]
           i == input[r]
           v == val[r]
<1>1. /\ job[r] \in Jobs /\ t \in Seq(Spoken) /\ v \in Payloads /\ i \in Payloads
      /\ Good(dep, job[r], t, v, i) /\ CallType /\ job[r].pc = "run"
      /\ input = [input EXCEPT ![r] = i] /\ val = [val EXCEPT ![r] = v]
      /\ trace = [trace EXCEPT ![r] = t]
      /\ UNCHANGED <<auditVars, dep, trace, val, input, short>>
  BY Rewriting DEF Inv, CallType, CallsGood, EndChain
<1>2. short' \in [Requests -> Plugins \cup {"none"}]
  BY <1>1 DEF CallType
<1> DEFINE due == IF job[r].phase \in GatePhases /\ EmitsIn(dep, job[r].phase)
                  THEN <<CallRecord(job[r].phase)>> ELSE <<>>
<1>3. PICK verdict \in Verdicts \ {"none", "audit_refused"} :
          Return(r, verdict, due) /\ (job[r].phase \in GatePhases => verdict = "allow")
  <2> USE DEF Verdicts, GatePhases, TransformPhases
  <2>1. CASE job[r].phase = "identity"
    <3>1. Return(r, "no_credential", <<>>)
      BY <2>1 DEF EndChain
    <3> QED BY <2>1, <3>1
  <2>2. CASE job[r].phase \in TransformPhases
    <3>1. Return(r, "value", <<>>)
      BY <2>2 DEF EndChain
    <3> QED BY <2>2, <3>1
  <2>3. CASE job[r].phase \in GatePhases
    <3>1. Return(r, "allow", IF Emits(job[r].phase) THEN <<CallRecord(job[r].phase)>> ELSE <<>>)
      BY <2>3 DEF EndChain
    <3>2. due = IF Emits(job[r].phase) THEN <<CallRecord(job[r].phase)>> ELSE <<>>
      BY <2>3 DEF Emits, EmitsIn
    <3> HIDE DEF due
    <3> QED BY <3>1, <3>2
  <2>4. CASE job[r].phase \in {"none", "over"}
    BY <1>1, <2>4 DEF Good, Followed
  <2>5. job[r].phase \in Phases
    BY <1>1 DEF Jobs
  <2> QED BY <2>1, <2>2, <2>3, <2>4, <2>5 DEF Phases
<1>4. due \in Seq(Events)
  <2>1. CallRecord(job[r].phase) \in CallRecords
    BY DEF CallRecord, CallRecords
  <2> QED BY <2>1, Dues
<1> HIDE DEF due
<1>5. PICK j \in Jobs :
          /\ job' = [job EXCEPT ![r] = j]
          /\ j.phase = job[r].phase /\ j.at = job[r].at /\ j.verdict = verdict
          /\ j.log = job[r].log /\ j.due = due
          /\ j.pc = IF due = <<>> THEN "ended" ELSE "emit"
  BY <1>1, <1>3, <1>4, ReturnEffect
<1>6. /\ j.verdict \notin {"none", "audit_refused"}
      /\ job[r].phase \in GatePhases => j.verdict = "allow"
      /\ j.due = (IF job[r].phase \in GatePhases /\ EmitsIn(dep, job[r].phase)
                  THEN <<CallRecord(job[r].phase)>> ELSE <<>>)
      /\ j.pc = IF j.due = <<>> THEN "ended" ELSE "emit"
  BY <1>3, <1>5 DEF due
<1> HIDE DEF t, i, v
<1>7. Good(dep, j, t, v, i)
  BY <1>1, <1>5, <1>6, EndGood
<1>8. CallMoves(r, j, t, v, i)
  BY <1>1, <1>5 DEF CallMoves
<1>9. job[r].pc # "emit" /\ j.log \in {job[r].log, <<>>}
  BY <1>1, <1>5
<1> QED BY <1>1, <1>2, <1>7, <1>8, <1>9, QuietCall

(* Nothing is due, and nothing on record. *)
LEMMA Nothing == <<>> \in Seq(Events) /\ <<>> \in Seq(LogEntries) /\ <<>> \in Seq(Spoken)
OBVIOUS

(* A call before it begins. *)
LEMMA NotBegunType ==
    NotBegun \in Jobs /\ NotBegun.due = <<>> /\ NotBegun.log = <<>> /\ NotBegun.verdict = "none"
        /\ NotBegun.pc = "idle" /\ NotBegun.at = 0
BY Nothing DEF NotBegun, Jobs, Phases, Verdicts

(* A call that is at the head of a chain, past one or at its end. *)
Settled(d, j) ==
    /\ j \in Jobs /\ j.due = <<>> /\ j.log = <<>>
    /\ \/ j.pc = "run" /\ j.at = 1 /\ j.verdict = "none" /\ j.phase \notin {"none", "over"}
       \/ /\ j.pc = "ended" /\ j.verdict = "allow" /\ j.phase \notin {"none", "over"}
          /\ j.at = 0 /\ PassedBy(d, j)
       \/ j.pc \in {"idle", "done"} /\ j.at = 0

(* Entering a chain. *)
LEMMA EnterEffect ==
    ASSUME NEW r \in Requests, NEW phase \in Phases \ {"none", "over"}, Enter(r, phase)
    PROVE  \E j : /\ Settled(dep, j) /\ job' = [job EXCEPT ![r] = j]
                  /\ trace' = [trace EXCEPT ![r] = <<>>]
<1> DEFINE j == [NotBegun EXCEPT !.phase = phase, !.pc = "run", !.at = 1]
<1>1. /\ j \in Jobs /\ j.due = <<>> /\ j.log = <<>> /\ j.phase = phase
      /\ j.pc = "run" /\ j.at = 1 /\ j.verdict = "none"
  BY NotBegunType DEF Jobs
<1>2. job' = [job EXCEPT ![r] = j] /\ trace' = [trace EXCEPT ![r] = <<>>]
  BY DEF Enter
<1> HIDE DEF j
<1>3. Settled(dep, j)
  BY <1>1 DEF Settled
<1> QED BY <1>2, <1>3

(* Entering the gates, or passing them by. *)
LEMMA EnterGatesEffect ==
    ASSUME NEW r \in Requests, NEW phase \in GatePhases, EnterGates(r, phase)
    PROVE  \E j : /\ Settled(dep, j) /\ job' = [job EXCEPT ![r] = j]
                  /\ trace' = [trace EXCEPT ![r] = <<>>]
<1>1. phase \in Phases \ {"none", "over"}
  BY DEF GatePhases, Phases
<1>2. CASE EvaluatesGates(phase)
  <2>1. Enter(r, phase)
    BY <1>2 DEF EnterGates
  <2> QED BY <1>1, <2>1, EnterEffect
<1>3. CASE ~EvaluatesGates(phase)
  <2> DEFINE ra == ToolCallAuditReachable
             j == [NotBegun EXCEPT !.phase = phase, !.pc = "ended", !.verdict = "allow",
                                   !.reachable = ra]
  <2>0. ra \in BOOLEAN
    BY DEF ToolCallAuditReachable
  <2>1. job' = [job EXCEPT ![r] = j] /\ trace' = [trace EXCEPT ![r] = <<>>]
    BY <1>3 DEF EnterGates
  <2>2. "allow" \in Verdicts
    BY DEF Verdicts
  <2>3. dep.gates = <<>> /\ (EmitsIn(dep, phase) => ~ra)
    BY <1>3 DEF EvaluatesGates, Emits, EmitsIn
  <2> HIDE DEF ra
  <2>4. /\ j \in Jobs /\ j.due = <<>> /\ j.log = <<>> /\ j.phase = phase
        /\ j.pc = "ended" /\ j.verdict = "allow" /\ j.at = 0 /\ j.reachable = ra
    BY <1>1, <2>0, <2>2, NotBegunType DEF Jobs
  <2> HIDE DEF j
  <2>5. PassedBy(dep, j)
    BY <2>3, <2>4 DEF PassedBy
  <2>6. Settled(dep, j)
    BY <1>1, <2>4, <2>5 DEF Settled
  <2> QED BY <2>1, <2>6
<1> QED BY <1>2, <1>3

(* The end of a call. *)
LEMMA FinishEffect ==
    ASSUME CallType, NEW r \in Requests, Finish(r)
    PROVE  \E j : /\ Settled(dep, j) /\ job' = [job EXCEPT ![r] = j]
                  /\ trace' = [trace EXCEPT ![r] = <<>>]
<1> DEFINE j == [NotBegun EXCEPT !.phase = "over", !.pc = "done", !.verdict = job[r].verdict]
<1>1. job' = [job EXCEPT ![r] = j] /\ trace' = [trace EXCEPT ![r] = <<>>]
  BY DEF Finish
<1>2. job[r].verdict \in Verdicts /\ "over" \in Phases
  BY DEF CallType, Jobs, Phases
<1>3. j \in Jobs /\ j.due = <<>> /\ j.log = <<>> /\ j.pc = "done" /\ j.at = 0
  BY <1>2, NotBegunType DEF Jobs
<1> HIDE DEF j
<1>4. Settled(dep, j)
  BY <1>3 DEF Settled
<1> QED BY <1>1, <1>4

(* A call starts afresh on the payload it has. *)
LEMMA AfreshStep ==
    ASSUME Inv, NEW r \in Requests, job[r].pc # "emit", UNCHANGED auditVars, dep' = dep,
           NEW j, Settled(dep, j), job' = [job EXCEPT ![r] = j], trace' = [trace EXCEPT ![r] = <<>>],
           NEW v \in Payloads, val' = [val EXCEPT ![r] = v], input' = [input EXCEPT ![r] = v],
           short' \in [Requests -> Plugins \cup {"none"}]
    PROVE  Inv'
<1>1. j \in Jobs /\ j.log = <<>> /\ Good(dep, j, <<>>, v, v)
  BY FreshGood DEF Settled
<1>2. CallMoves(r, j, <<>>, v, v) /\ <<>> \in Seq(Spoken) /\ j.log \in {job[r].log, <<>>}
  BY <1>1 DEF CallMoves
<1> QED BY <1>1, <1>2, QuietCall

(* A call begins. *)
LEMMA BeginStep == ASSUME Inv, NEW r \in Requests, BeginCall(r) PROVE Inv'
<1>1. /\ job[r].pc = "idle" /\ Enter(r, "identity") /\ UNCHANGED auditVars /\ dep' = dep
      /\ val' = val /\ input' = input /\ short' = short
  BY DEF BeginCall
<1>2. CallType /\ Good(dep, job[r], trace[r], val[r], input[r])
  BY DEF Inv, CallsGood
<1>3. trace[r] = <<>> /\ val[r] = Writer(job[r].phase, trace[r], input[r], Len(trace[r]))
  BY <1>1, <1>2 DEF Good, Followed
<1>4. val[r] = input[r]
  BY <1>3, WriterEmpty
<1>5. PICK j : /\ Settled(dep, j) /\ job' = [job EXCEPT ![r] = j]
               /\ trace' = [trace EXCEPT ![r] = <<>>]
  <2>1. "identity" \in Phases \ {"none", "over"}
    BY DEF Phases
  <2> QED BY <1>1, <2>1, EnterEffect
<1>6. /\ val' = [val EXCEPT ![r] = val[r]] /\ input' = [input EXCEPT ![r] = val[r]]
      /\ val[r] \in Payloads /\ short' \in [Requests -> Plugins \cup {"none"}]
  BY <1>1, <1>2, <1>4, Rewriting DEF CallType
<1>7. job[r].pc # "emit"
  BY <1>1
<1> QED BY <1>1, <1>5, <1>6, <1>7, AfreshStep

(* The dispatch site takes a call to its next chain, or answers it. *)
LEMMA DispatchStep == ASSUME Inv, NEW r \in Requests, Dispatch(r) PROVE Inv'
<1>1. /\ job[r].pc = "ended" /\ UNCHANGED auditVars /\ dep' = dep
      /\ input' = [input EXCEPT ![r] = val'[r]]
      /\ short' = IF job[r].phase = "gate_pre" THEN [short EXCEPT ![r] = "none"] ELSE short
  BY DEF Dispatch
<1>2. CallType /\ Good(dep, job[r], trace[r], val[r], input[r]) /\ job[r].phase \in Phases
  BY DEF Inv, CallsGood, CallType, Jobs
<1>3. short' \in [Requests -> Plugins \cup {"none"}]
  BY <1>1, <1>2 DEF CallType
<1>4. /\ "transform_pre" \in Phases \ {"none", "over"}
      /\ "transform_post" \in Phases \ {"none", "over"}
      /\ "gate_pre" \in GatePhases /\ "gate_post" \in GatePhases
  BY DEF Phases, GatePhases
<1>5. /\ \/ val' = val
         \/ \E v \in Plugins \cup {"backend"} : val' = [val EXCEPT ![r] = v]
      /\ \/ Finish(r)
         \/ \E phase \in Phases \ {"none", "over"} : Enter(r, phase)
         \/ \E phase \in GatePhases : EnterGates(r, phase)
  <2>1. short[r] \in Plugins \cup {"none"} /\ job[r].phase \notin {"none", "over"}
    BY <1>1, <1>2 DEF CallType, Good, Followed
  <2>2. CASE job[r].phase = "identity"
    BY <1>4, <2>2 DEF Dispatch
  <2>3. CASE job[r].phase = "transform_pre"
    BY <1>4, <2>3 DEF Dispatch
  <2>4. CASE job[r].phase = "gate_pre" /\ job[r].verdict # "allow"
    BY <2>4 DEF Dispatch
  <2>5. CASE job[r].phase = "gate_pre" /\ job[r].verdict = "allow"
    <3>1. /\ val' = [val EXCEPT ![r] = IF short[r] # "none" THEN short[r] ELSE "backend"]
          /\ EnterGates(r, "gate_post")
      BY <2>5 DEF Dispatch
    <3> QED BY <1>4, <2>1, <3>1
  <2>6. CASE job[r].phase = "gate_post"
    BY <1>4, <2>6 DEF Dispatch
  <2>7. CASE job[r].phase = "transform_post"
    BY <2>7 DEF Dispatch
  <2> QED BY <1>2, <2>1, <2>2, <2>3, <2>4, <2>5, <2>6, <2>7 DEF Phases
<1>6. PICK v \in Payloads : val' = [val EXCEPT ![r] = v]
  <2>1. val = [val EXCEPT ![r] = val[r]] /\ val[r] \in Payloads
    BY <1>2, Rewriting DEF CallType
  <2> QED BY <1>5, <2>1 DEF Payloads
<1>7. input' = [input EXCEPT ![r] = v]
  <2>1. val'[r] = v
    BY <1>2, <1>6 DEF CallType
  <2> QED BY <1>1, <2>1
<1>8. PICK j : /\ Settled(dep, j) /\ job' = [job EXCEPT ![r] = j]
               /\ trace' = [trace EXCEPT ![r] = <<>>]
  <2>1. CASE Finish(r)
    BY <1>2, <2>1, FinishEffect
  <2>2. CASE \E phase \in Phases \ {"none", "over"} : Enter(r, phase)
    BY <2>2, EnterEffect
  <2>3. CASE \E phase \in GatePhases : EnterGates(r, phase)
    BY <2>3, EnterGatesEffect
  <2> QED BY <1>5, <2>1, <2>2, <2>3
<1>9. job[r].pc # "emit"
  BY <1>1
<1> QED BY <1>1, <1>3, <1>6, <1>7, <1>8, <1>9, AfreshStep

-------------------------------------------------------------------------------
(* The steps of an emission.                                                *)

(* A step that leaves every call where it is. *)
LEMMA CallsStay ==
    ASSUME Inv, UNCHANGED <<dep, callVars>>, \A s \in Gating : kept[s] \subseteq kept'[s]
    PROVE  CallType' /\ CallsGood' /\ LogOffers'
<1>1. UNCHANGED <<dep, job, trace, val, input, short>>
  BY DEF callVars
<1>2. CallType'
  BY <1>1 DEF Inv, CallType
<1>3. CallsGood'
  BY <1>1 DEF Inv, CallsGood
<1>4. \A r \in Requests : Within(job'[r].log) \subseteq Within(job[r].log)
  BY <1>1
<1> QED BY <1>2, <1>3, <1>4, LogOffersKept DEF Inv

(* A record is due, and it is the call's to write. *)
LEMMA WriteStep == ASSUME Inv, NEW r \in Requests, WriteRecord(r) PROVE Inv'
<1> DEFINE ev == Head(job[r].due)
<1>1. /\ job[r].pc = "emit" /\ BeginEmit(r, ev, r, AttributeOf(ev), ev \in CallRecords)
      /\ UNCHANGED <<dep, callVars>>
  BY DEF WriteRecord
<1>2. job[r].due \in Seq(Events) /\ job[r].due # <<>>
  BY <1>1 DEF Inv, CallType, Jobs, CallsGood, Good, Recorded
<1>3. ev \in Events /\ r \in Emitters
  BY <1>2, EmitterAssumption
<1> HIDE DEF ev
<1>4. /\ AuditType' /\ kept' = kept /\ tasks' = tasks /\ permits' = permits
      /\ \E f \in FanRecords :
             /\ fan' = [fan EXCEPT ![r] = f]
             /\ f.pc = "fan" /\ f.at = 1 /\ f.rec.of = r /\ f.rec.ev = ev
             /\ f.policy = "fail_closed" => ev \in CallRecords
  <2> DEFINE q == IF ev \in CallRecords THEN policy ELSE "fail_open"
             rec == Prepared(ev, r, AttributeOf(ev))
             f == Start(rec, q)
  <2>1. q \in Policies /\ (q = "fail_closed" => ev \in CallRecords)
    BY DEF Inv, AuditType, Policies
  <2>2. fan' = [fan EXCEPT ![r] = f] /\ UNCHANGED <<policy, digestKey, kept, tasks, permits>>
    BY <1>1 DEF BeginEmit, Start
  <2>3. rec \in Records /\ rec.of = r /\ rec.ev = ev
    BY <1>3, PreparedType DEF Inv, AuditType
  <2> HIDE DEF q, rec
  <2>4. f \in FanRecords /\ f.pc = "fan" /\ f.at = 1 /\ f.rec = rec /\ f.policy = q
    BY <2>1, <2>3, StartFields
  <2> HIDE DEF f
  <2>5. AuditType'
    BY <2>2, <2>4 DEF Inv, AuditType
  <2> QED BY <2>1, <2>2, <2>3, <2>4, <2>5
<1>5. PICK f \in FanRecords :
          /\ fan' = [fan EXCEPT ![r] = f]
          /\ f.pc = "fan" /\ f.at = 1 /\ f.rec.of = r /\ f.rec.ev = ev
          /\ f.policy = "fail_closed" => ev \in CallRecords
  BY <1>4
<1>6. \A s \in Gating : kept[s] \subseteq kept'[s]
  BY <1>4
<1>7. CallType' /\ CallsGood' /\ LogOffers'
  BY <1>1, <1>6, CallsStay
<1>8. FanOffers'
  <2>1. f.at - 1 = 0 /\ f.at \in 1 .. Len(SinkOrder) + 1
    BY <1>5, SinkAssumption
  <2>2. Offered(kept', r, f.rec.ev, f.failed, f.skipped, f.at - 1)
    BY <2>1 DEF Offered
  <2> QED BY <1>3, <1>5, <1>6, <2>1, <2>2, FanOffersKept DEF Inv
<1>9. FanOfCall'
  <2> SUFFICES ASSUME NEW z \in Requests
               PROVE  /\ fan'[z].pc # "over"
                      /\ fan'[z].pc = "fan" =>
                             /\ job'[z].pc = "emit" /\ fan'[z].rec.ev = Head(job'[z].due)
                             /\ fan'[z].policy = "fail_closed" => fan'[z].rec.ev \in CallRecords
    BY DEF FanOfCall
  <2>1. job' = job /\ fan \in [Emitters -> FanRecords] /\ z \in Emitters
    BY <1>1, EmitterAssumption DEF callVars, Inv, AuditType
  <2>2. CASE z = r
    <3>1. fan'[z] = f
      BY <1>5, <2>1, <2>2
    <3> QED BY <1>1, <1>5, <2>1, <2>2, <3>1 DEF ev
  <2>3. CASE z # r
    <3>1. fan'[z] = fan[z]
      BY <1>5, <2>1, <2>3
    <3> QED BY <2>1, <3>1 DEF Inv, FanOfCall
  <2> QED BY <2>2, <2>3
<1>10. PermitsConserved'
  BY <1>4 DEF Inv, PermitsConserved
<1> QED BY <1>4, <1>7, <1>8, <1>9, <1>10 DEF Inv

(* The calls' part of their emissions, when another emitter moves. *)
LEMMA ElsewhereKept ==
    ASSUME Inv, job' = job, NEW e \in Emitters, NEW c, fan' = [fan EXCEPT ![e] = c],
           e \in Requests =>
               /\ fan[e].pc = "fan" /\ c.pc = "fan" /\ c.rec = fan[e].rec
               /\ c.policy = fan[e].policy
    PROVE  FanOfCall'
<1> SUFFICES ASSUME NEW z \in Requests
             PROVE  /\ fan'[z].pc # "over"
                    /\ fan'[z].pc = "fan" =>
                           /\ job'[z].pc = "emit" /\ fan'[z].rec.ev = Head(job'[z].due)
                           /\ fan'[z].policy = "fail_closed" => fan'[z].rec.ev \in CallRecords
  BY DEF FanOfCall
<1>1. fan \in [Emitters -> FanRecords] /\ z \in Emitters
  BY EmitterAssumption DEF Inv, AuditType
<1>2. /\ fan[z].pc # "over"
      /\ fan[z].pc = "fan" =>
             /\ job[z].pc = "emit" /\ fan[z].rec.ev = Head(job[z].due)
             /\ fan[z].policy = "fail_closed" => fan[z].rec.ev \in CallRecords
  BY DEF Inv, FanOfCall
<1>3. CASE z = e
  <2>1. fan'[z] = c
    BY <1>1, <1>3
  <2> QED BY <1>2, <1>3, <2>1
<1>4. CASE z # e
  <2>1. fan'[z] = fan[z]
    BY <1>1, <1>4
  <2> QED BY <1>2, <2>1
<1> QED BY <1>3, <1>4

(* Another surface starts on a record of its own. *)
LEMMA SurfaceStep == ASSUME Inv, NEW e \in Surfaces, SurfaceWrites(e) PROVE Inv'
<1>0. e \in Emitters /\ e \notin Requests
  BY EmitterAssumption
<1>1. PICK ev \in OtherEvents : BeginEmit(e, ev, e, AttributeOf(ev), TRUE)
  BY DEF SurfaceWrites
<1>2. UNCHANGED <<dep, callVars>> /\ ev \in Events
  BY DEF SurfaceWrites, Events
<1>3. /\ AuditType' /\ kept' = kept /\ tasks' = tasks /\ permits' = permits
      /\ \E f \in FanRecords :
             /\ fan' = [fan EXCEPT ![e] = f]
             /\ f.pc = "fan" /\ f.at = 1 /\ f.rec.of = e /\ f.rec.ev = ev
             /\ f.policy = policy
  <2> DEFINE rec == Prepared(ev, e, AttributeOf(ev))
             f == Start(rec, policy)
  <2>1. fan' = [fan EXCEPT ![e] = f] /\ UNCHANGED <<policy, digestKey, kept, tasks, permits>>
    BY <1>1 DEF BeginEmit, Start
  <2>2. rec \in Records /\ rec.of = e /\ rec.ev = ev /\ policy \in Policies
    BY <1>0, <1>2, PreparedType DEF Inv, AuditType
  <2> HIDE DEF rec
  <2>3. f \in FanRecords /\ f.pc = "fan" /\ f.at = 1 /\ f.rec = rec /\ f.policy = policy
    BY <2>2, StartFields
  <2> HIDE DEF f
  <2>4. AuditType'
    BY <2>1, <2>3 DEF Inv, AuditType
  <2> QED BY <2>1, <2>2, <2>3, <2>4
<1>4. PICK f \in FanRecords :
          fan' = [fan EXCEPT ![e] = f] /\ f.pc = "fan" /\ f.at = 1 /\ f.rec.of = e
  BY <1>3
<1>5. \A s \in Gating : kept[s] \subseteq kept'[s]
  BY <1>3
<1>6. CallType' /\ CallsGood' /\ LogOffers'
  BY <1>2, <1>5, CallsStay
<1>7. FanOffers'
  <2>1. f.at - 1 = 0 /\ f.at \in 1 .. Len(SinkOrder) + 1
    BY <1>4, SinkAssumption
  <2>2. Offered(kept', e, f.rec.ev, f.failed, f.skipped, f.at - 1)
    BY <2>1 DEF Offered
  <2> QED BY <1>0, <1>4, <1>5, <2>1, <2>2, FanOffersKept DEF Inv
<1>8. FanOfCall'
  <2>1. job' = job
    BY <1>2 DEF callVars
  <2> QED BY <1>0, <1>4, <2>1, ElsewhereKept
<1>9. PermitsConserved'
  BY <1>3 DEF Inv, PermitsConserved
<1> QED BY <1>3, <1>6, <1>7, <1>8, <1>9 DEF Inv

(* Another surface has written its record. *)
LEMMA SurfaceDone == ASSUME Inv, NEW e \in Surfaces, SurfaceWritten(e) PROVE Inv'
<1> DEFINE f == [pc |-> "over"]
<1>1. /\ fan' = [fan EXCEPT ![e] = f] /\ UNCHANGED <<dep, callVars>>
      /\ UNCHANGED <<policy, digestKey, kept, tasks, permits>>
  BY DEF SurfaceWritten
<1>2. f \in FanRecords /\ f.pc # "fan"
  BY DEF FanRecords
<1>3. e \in Emitters /\ e \notin Requests /\ job' = job
  BY <1>1, EmitterAssumption DEF callVars
<1> HIDE DEF f
<1>4. \A s \in Gating : kept[s] \subseteq kept'[s]
  BY <1>1
<1>5. CallType' /\ CallsGood' /\ LogOffers'
  BY <1>1, <1>4, CallsStay
<1>6. AuditType' /\ PermitsConserved'
  BY <1>1, <1>2 DEF Inv, AuditType, PermitsConserved
<1>7. FanOffers'
  BY <1>1, <1>2, <1>3, <1>4, FanOffersKept DEF Inv
<1>8. FanOfCall'
  BY <1>1, <1>3, ElsewhereKept
<1> QED BY <1>5, <1>6, <1>7, <1>8 DEF Inv

(* A sink answers, or is passed over. *)
LEMMA SinkStepKept == ASSUME Inv, NEW e \in Emitters, SinkStep(e) PROVE Inv'
<1>1. (SkipSink(e) \/ SpawnEmit(e) \/ GatingEmit(e)) /\ UNCHANGED <<dep, callVars>>
  BY DEF SinkStep
<1>2. /\ AuditType' /\ PermitsConserved' /\ fan[e].pc = "fan" /\ fan[e].at <= Len(SinkOrder)
      /\ \A s \in Gating : kept[s] \subseteq kept'[s]
      /\ \E c \in FanRecords : SinkAnswers(e, c)
  <2>1. CASE SkipSink(e)
    <3>1. /\ AuditType' /\ fan[e].pc = "fan" /\ fan[e].at <= Len(SinkOrder)
          /\ kept' = kept /\ tasks' = tasks /\ permits' = permits
          /\ \E c \in FanRecords : SinkAnswers(e, c)
      BY <2>1, SkipEffect DEF Inv
    <3>2. PermitsConserved'
      BY <3>1 DEF Inv, PermitsConserved
    <3> QED BY <3>1, <3>2
  <2>2. CASE SpawnEmit(e)
    <3>1. /\ AuditType' /\ PermitsConserved' /\ fan[e].pc = "fan"
          /\ fan[e].at <= Len(SinkOrder) /\ kept' = kept
          /\ \E c \in FanRecords : SinkAnswers(e, c)
      BY <2>2, SpawnEffect DEF Inv
    <3> QED BY <3>1
  <2>3. CASE GatingEmit(e)
    <3>1. /\ AuditType' /\ fan[e].pc = "fan" /\ fan[e].at <= Len(SinkOrder)
          /\ tasks' = tasks /\ permits' = permits
          /\ \A s \in Gating : kept[s] \subseteq kept'[s]
          /\ \E c \in FanRecords : SinkAnswers(e, c)
      BY <2>3, GatingEffect DEF Inv
    <3>2. PermitsConserved'
      BY <3>1 DEF Inv, PermitsConserved
    <3> QED BY <3>1, <3>2
  <2> QED BY <1>1, <2>1, <2>2, <2>3
<1>3. PICK c \in FanRecords : SinkAnswers(e, c)
  BY <1>2
<1>4. CallType' /\ CallsGood' /\ LogOffers'
  BY <1>1, <1>2, CallsStay
<1>5. FanOffers'
  BY <1>2, <1>3, FanOffersOn DEF Inv
<1>6. FanOfCall'
  <2>1. job' = job
    BY <1>1 DEF callVars
  <2>2. /\ fan' = [fan EXCEPT ![e] = c] /\ c.pc = "fan" /\ c.rec = fan[e].rec
        /\ c.policy = fan[e].policy
    BY <1>3 DEF SinkAnswers, Further
  <2> QED BY <1>2, <2>1, <2>2, ElsewhereKept
<1> QED BY <1>2, <1>4, <1>5, <1>6 DEF Inv

(* A collector's task ends. *)
LEMMA CollectStep == ASSUME Inv, Collects PROVE Inv'
<1>1. PICK q \in SinkPolicies : CollectorDone(q)
  BY DEF Collects
<1>2. UNCHANGED <<dep, callVars>>
  BY DEF Collects
<1>3. AuditType' /\ PermitsConserved' /\ kept' = kept /\ fan' = fan
  BY <1>1, CollectorEffect DEF Inv
<1>4. CallType' /\ CallsGood' /\ LogOffers'
  BY <1>2, <1>3, CallsStay
<1>5. FanOffers' /\ FanOfCall'
  BY <1>2, <1>3 DEF Inv, FanOffers, FanOfCall, callVars
<1> QED BY <1>3, <1>4, <1>5 DEF Inv

(* An operator changes the policy, the digest key or what serves. *)
LEMMA OperatorStep ==
    ASSUME Inv, Reconfigure \/ \E p \in Registered \cup Sinks : Toggle(p)
    PROVE  Inv'
<1>1. /\ UNCHANGED <<dep, callVars>> /\ UNCHANGED <<fan, kept, tasks, permits>>
      /\ policy' \in Policies /\ digestKey' \in BOOLEAN
  <2>1. CASE Reconfigure
    BY <2>1 DEF Reconfigure, SetRequestPolicy, SetDigestKey, Inv, AuditType
  <2>2. CASE \E p \in Registered \cup Sinks : Toggle(p)
    BY <2>2 DEF Toggle, auditVars, Inv, AuditType
  <2> QED BY <2>1, <2>2
<1>2. AuditType' /\ PermitsConserved'
  BY <1>1 DEF Inv, AuditType, PermitsConserved
<1>3. CallType' /\ CallsGood' /\ LogOffers'
  BY <1>1, CallsStay
<1>4. FanOffers' /\ FanOfCall'
  BY <1>1 DEF Inv, FanOffers, FanOfCall, callVars
<1> QED BY <1>2, <1>3, <1>4 DEF Inv

(* A call has its record written. *)
LEMMA WrittenStep == ASSUME Inv, NEW r \in Requests, RecordWritten(r) PROVE Inv'
<1> DEFINE o == job[r]
           due == Tail(o.due)
           down == NotServingNow(fan[r].rec.ev)
           verdict == IF EmissionFailed(r) THEN "audit_refused" ELSE o.verdict
           l == [rec |-> fan[r].rec, policy |-> fan[r].policy, failed |-> fan[r].failed,
                 down |-> down, skipped |-> fan[r].skipped]
           pc == IF due # <<>> THEN "emit" ELSE IF verdict = "none" THEN "run" ELSE "ended"
           log == Append(o.log, l)
           j == [o EXCEPT !.due = due, !.verdict = verdict, !.log = log, !.pc = pc]
           t == trace[r]
           i == input[r]
           v == val[r]
<1>1. /\ fan[r].pc = "fan" /\ fan[r].at > Len(SinkOrder) /\ fan' = [fan EXCEPT ![r] = Idle]
      /\ UNCHANGED <<policy, digestKey, kept, tasks, permits, dep, trace, val, input, short>>
  BY DEF RecordWritten, FanoutDone
<1>2. r \in Emitters /\ CallType /\ AuditType
  BY EmitterAssumption DEF Inv
<1>3. /\ o \in Jobs /\ t \in Seq(Spoken) /\ v \in Payloads /\ i \in Payloads
      /\ Good(dep, o, t, v, i)
      /\ input = [input EXCEPT ![r] = i] /\ val = [val EXCEPT ![r] = v]
      /\ trace = [trace EXCEPT ![r] = t]
      /\ short' \in [Requests -> Plugins \cup {"none"}]
  BY <1>1, Rewriting DEF Inv, CallType, CallsGood
<1>4. /\ o.pc = "emit" /\ fan[r].rec.ev = Head(o.due)
      /\ fan[r].policy = "fail_closed" => fan[r].rec.ev \in CallRecords
  BY <1>1 DEF Inv, FanOfCall
<1>5. fan[r] \in [pc : {"fan"}, at : Nat, rec : Records, policy : Policies,
                  failed : SUBSET Sinks, skipped : SUBSET Sinks]
  BY <1>1, <1>2, FanFields
<1>6. job' = [job EXCEPT ![r] = j]
  BY <1>2 DEF RecordWritten, CallType, Jobs
<1>7. /\ l \in LogEntries /\ l.rec = fan[r].rec /\ l.policy = fan[r].policy
      /\ l.failed = fan[r].failed /\ l.skipped = fan[r].skipped /\ l.down = down
  <2>1. down \in SUBSET Gating
    BY DEF NotServingNow
  <2> HIDE DEF down
  <2> QED BY <1>5, <2>1 DEF LogEntries
<1>8. verdict = IF l.policy = "fail_closed" /\ l.failed \cup l.down # {}
                THEN "audit_refused" ELSE o.verdict
  <2> HIDE DEF l, o, due, pc, log, j, t, i, v
  <2> QED BY <1>7 DEF EmissionFailed
<1>9. verdict \in Verdicts
  BY <1>3, <1>8 DEF Jobs, Verdicts
<1> HIDE DEF l, verdict, down
<1>10. o.due \in Seq(Events) /\ o.due # <<>> /\ o.log \in Seq(LogEntries)
  BY <1>3, <1>4 DEF Jobs, Good, Recorded
<1>11. due \in Seq(Events) /\ log \in Seq(LogEntries) /\ pc \in {"run", "emit", "ended"}
  <2>1. log \in Seq(LogEntries)
    BY <1>7, <1>10, Appending
  <2> QED BY <1>10, <2>1
<1>12. pc = IF due # <<>> THEN "emit" ELSE IF verdict = "none" THEN "run" ELSE "ended"
  OBVIOUS
<1> HIDE DEF o, due, log, pc
<1>13. /\ j \in Jobs /\ j.phase = o.phase /\ j.at = o.at /\ j.due = due /\ j.log = log
       /\ j.verdict = verdict /\ j.pc = pc
  BY <1>3, <1>9, <1>11 DEF Jobs
<1> HIDE DEF j, t, i, v
<1>14. Good(dep, j, t, v, i)
  <2>1. l.rec.ev = Head(o.due) /\ (l.policy = "fail_closed" => l.rec.ev \in CallRecords)
    BY <1>4, <1>7
  <2>2. /\ j.due = Tail(o.due) /\ j.log = Append(o.log, l)
        /\ j.verdict = IF l.policy = "fail_closed" /\ l.failed \cup l.down # {}
                       THEN "audit_refused" ELSE o.verdict
        /\ j.pc = IF j.due # <<>> THEN "emit" ELSE IF j.verdict = "none" THEN "run" ELSE "ended"
    BY <1>8, <1>12, <1>13 DEF due, log
  <2> QED BY <1>3, <1>4, <1>7, <1>13, <2>1, <2>2, WrittenGood
<1>15. CallType' /\ CallsGood'
  <2>1. CallMoves(r, j, t, v, i)
    BY <1>1, <1>3, <1>6 DEF CallMoves
  <2> QED BY <1>2, <1>3, <1>13, <1>14, <2>1, CallKept DEF Inv
<1>16. AuditType' /\ PermitsConserved'
  <2>1. Idle \in FanRecords
    BY DEF FanRecords
  <2> QED BY <1>1, <1>2, <2>1 DEF Inv, AuditType, PermitsConserved
<1>17. FanOffers'
  <2>1. Idle.pc # "fan" /\ \A s \in Gating : kept[s] \subseteq kept'[s]
    BY <1>1 DEF Idle
  <2> QED BY <1>1, <1>2, <2>1, FanOffersKept DEF Inv
<1>18. FanOfCall'
  <2> SUFFICES ASSUME NEW z \in Requests
               PROVE  /\ fan'[z].pc # "over"
                      /\ fan'[z].pc = "fan" =>
                             /\ job'[z].pc = "emit" /\ fan'[z].rec.ev = Head(job'[z].due)
                             /\ fan'[z].policy = "fail_closed" => fan'[z].rec.ev \in CallRecords
    BY DEF FanOfCall
  <2>1. z \in Emitters
    BY EmitterAssumption
  <2>2. CASE z = r
    <3>1. fan'[z] = Idle
      BY <1>1, <1>2, <2>2 DEF AuditType
    <3> QED BY <3>1 DEF Idle
  <2>3. CASE z # r
    <3>1. fan'[z] = fan[z] /\ job'[z] = job[z]
      BY <1>1, <1>2, <1>6, <2>1, <2>3 DEF AuditType, CallType
    <3> QED BY <3>1 DEF Inv, FanOfCall
  <2> QED BY <2>2, <2>3
<1>19. LogOffers'
  <2> SUFFICES ASSUME NEW z \in Requests, NEW m \in Within(job'[z].log)
               PROVE  Offered(kept, z, m.rec.ev, m.failed, m.skipped, Len(SinkOrder))
    BY <1>1 DEF LogOffers, Within
  <2>1. CASE z = r /\ m = l
    <3>1. /\ fan[r].at \in 1 .. Len(SinkOrder) + 1
          /\ Offered(kept, r, fan[r].rec.ev, fan[r].failed, fan[r].skipped, fan[r].at - 1)
      BY <1>1, <1>2 DEF Inv, FanOffers
    <3>2. Len(SinkOrder) \in Nat
      BY SinkAssumption
    <3>3. fan[r].at - 1 = Len(SinkOrder)
      BY <1>1, <3>1, <3>2
    <3> QED BY <1>7, <2>1, <3>1, <3>3
  <2>2. CASE z = r /\ m # l
    <3>1. job'[z] = j
      BY <1>2, <1>6, <2>2 DEF CallType
    <3>2. Within(log) = Within(o.log) \cup {l}
      BY <1>7, <1>10, WithinAppend DEF log
    <3>3. m \in Within(job[r].log)
      BY <1>13, <2>2, <3>1, <3>2 DEF o
    <3> QED BY <2>2, <3>3 DEF Inv, LogOffers
  <2>3. CASE z # r
    <3>1. job'[z] = job[z]
      BY <1>2, <1>6, <2>3 DEF CallType
    <3> QED BY <3>1 DEF Inv, LogOffers
  <2> QED BY <2>1, <2>2, <2>3
<1> QED BY <1>15, <1>16, <1>17, <1>18, <1>19 DEF Inv

-------------------------------------------------------------------------------
(* The invariant.                                                           *)

(* It holds of a gateway that has just started. *)
LEMMA Starts == Init => Inv
<1> SUFFICES ASSUME Init PROVE Inv
  OBVIOUS
<1>1. AuditType /\ PermitsConserved
  <2>1. Idle \in FanRecords
    BY DEF FanRecords
  <2>2. <<>> \in Seq(Records) /\ Len(<<>>) = 0 /\ InFlight \in Nat
    BY InFlightAssumption
  <2> QED BY <2>1, <2>2 DEF Init, AuditInit, AuditType, PermitsConserved
<1>2. CallType
  BY NotBegunType, Nothing DEF Init, CallType, Payloads
<1>3. CallsGood
  <2>1. \A v : Good(dep, NotBegun, <<>>, v, v)
    BY NotBegunType, FreshGood
  <2> QED BY <2>1 DEF Init, CallsGood
<1>4. Within(<<>>) = {}
  BY DEF Within
<1>5. FanOffers /\ FanOfCall
  BY EmitterAssumption DEF Init, AuditInit, FanOffers, FanOfCall, Idle
<1>6. LogOffers
  BY <1>4, NotBegunType DEF Init, LogOffers
<1> QED BY <1>1, <1>2, <1>3, <1>5, <1>6 DEF Inv

(* Every step keeps it. *)
LEMMA Kept == Inv /\ [Next]_vars => Inv'
<1> SUFFICES ASSUME Inv, [Next]_vars PROVE Inv'
  OBVIOUS
<1>1. CASE \E r \in Requests : CallStep(r)
  <2>1. PICK r \in Requests : CallStep(r)
    BY <1>1
  <2> QED BY <2>1, BeginStep, SkipStep, IdentityStep, TransformStep, GatePreStep, GatePostStep,
             EndStep, WriteStep, WrittenStep, DispatchStep DEF CallStep
<1>2. CASE \E e \in Emitters : SinkStep(e)
  BY <1>2, SinkStepKept
<1>3. CASE \E e \in Surfaces : SurfaceWrites(e) \/ SurfaceWritten(e)
  BY <1>3, SurfaceStep, SurfaceDone
<1>4. CASE Collects
  BY <1>4, CollectStep
<1>5. CASE Reconfigure \/ \E p \in Registered \cup Sinks : Toggle(p)
  BY <1>5, OperatorStep
<1>6. CASE UNCHANGED vars
  <2>1. /\ UNCHANGED <<dep, callVars>> /\ UNCHANGED <<fan, kept, tasks, permits>>
        /\ policy' = policy /\ digestKey' = digestKey
    BY <1>6 DEF vars, auditVars
  <2>2. AuditType' /\ PermitsConserved'
    BY <2>1 DEF Inv, AuditType, PermitsConserved
  <2>3. CallType' /\ CallsGood' /\ LogOffers'
    BY <2>1, CallsStay
  <2>4. FanOffers' /\ FanOfCall'
    BY <2>1 DEF Inv, FanOffers, FanOfCall, callVars
  <2> QED BY <2>2, <2>3, <2>4 DEF Inv
<1> QED BY <1>1, <1>2, <1>3, <1>4, <1>5, <1>6 DEF Next

(* The inductive invariant of the request path: types, one call at a time,   *)
(* one emission at a time, and what is on record (registry.rs).              *)
THEOREM RequestPathInvariant == Spec => []Inv
BY Starts, Kept, PTL DEF Spec

-------------------------------------------------------------------------------
(* What it gives.                                                           *)

(* The permits of a policy are neither lost nor made up, for any number of   *)
(* sinks under it and any number of emitters (emit_audit_event).             *)
THEOREM PermitsNeverLost == Spec => []PermitsConserved
<1>1. Inv => PermitsConserved
  BY DEF Inv
<1> QED BY <1>1, RequestPathInvariant, PTL

(* No sink holds a digest-listed attribute in the clear, whatever key is set *)
(* when (with_digested_actor_attributes).                                    *)
THEOREM AttributesStayHidden == Spec => []NoPlainAttribute
<1>1. Inv => NoPlainAttribute
  <2> SUFFICES ASSUME Inv PROVE NoPlainAttribute
    OBVIOUS
  <2>1. \A rec \in Records : rec.attr # "plain"
    BY DEF Records
  <2>2. ASSUME NEW s \in Gating, NEW rec \in kept[s] PROVE rec.attr # "plain"
    BY <2>1 DEF Inv, AuditType
  <2>3. ASSUME NEW q \in SinkPolicies, NEW k \in 1 .. Len(tasks[q])
        PROVE  tasks[q][k].attr # "plain"
    <3>1. tasks[q] \in Seq(Records)
      BY DEF Inv, AuditType
    <3>2. tasks[q][k] \in Records
      BY <3>1
    <3> QED BY <2>1, <3>2
  <2> QED BY <2>2, <2>3 DEF NoPlainAttribute
<1> QED BY <1>1, RequestPathInvariant, PTL

(* What a chain decides is a function of what its plugins said              *)
(* (evaluate_tool_gates_pre/_post, apply_transforms_*, resolve_identity).    *)
THEOREM ChainsDecide == Spec => []VerdictFollowsChain
<1>1. Inv => VerdictFollowsChain
  <2> SUFFICES ASSUME Inv, NEW r \in Requests
               PROVE  LET t == trace[r]  ph == job[r].phase  n == Len(t)
                          refusing == {i \in 1..n : Refuses(ph, t[i])}
                      IN  /\ \A i \in 1..n : /\ t[i].by = ChainOf(ph)[i]
                                              /\ t[i].saw = LastWriter(r, i - 1)
                          /\ n > 0 => val[r] = LastWriter(r, n)
                          /\ refusing \subseteq {n}
                          /\ job[r].pc = "ended" /\ ph \in GatePhases =>
                               IF refusing = {}
                               THEN job[r].verdict \in {"allow", "audit_refused"}
                               ELSE job[r].verdict = IF ph = "gate_post" /\ t[n].said.kind = "pending"
                                                     THEN "deny" ELSE t[n].said.kind
    BY DEF VerdictFollowsChain
  <2> DEFINE t == trace[r]
             ph == job[r].phase
             n == Len(t)
  <2>1. \A k : LastWriter(r, k) = Writer(ph, t, input[r], k)
    BY DEF LastWriter, Writer
  <2>2. ChainOf(ph) = ChainIn(dep, ph)
    BY DEF ChainOf, ChainIn
  <2>3. {i \in 1..n : Refuses(ph, t[i])} = Refusing(ph, t)
    BY DEF Refusing
  <2>4. Followed(dep, job[r], t, val[r], input[r]) /\ Judged(job[r], t)
    BY DEF Inv, CallsGood, Good
  <2>5. /\ \A k \in 1 .. n : /\ t[k].by = ChainIn(dep, ph)[k]
                             /\ t[k].saw = Writer(ph, t, input[r], k - 1)
        /\ val[r] = Writer(ph, t, input[r], n)
        /\ Refusing(ph, t) \subseteq {n}
    BY <2>4 DEF Followed
  <2>6. job[r].pc = "ended" /\ ph \in GatePhases =>
            IF Refusing(ph, t) = {}
            THEN job[r].verdict \in {"allow", "audit_refused"}
            ELSE job[r].verdict = IF ph = "gate_post" /\ t[n].said.kind = "pending"
                                  THEN "deny" ELSE t[n].said.kind
    BY <2>4 DEF Judged
  <2> HIDE DEF t, ph, n
  <2>7. /\ \A k \in 1 .. n : t[k].by = ChainOf(ph)[k] /\ t[k].saw = LastWriter(r, k - 1)
        /\ n > 0 => val[r] = LastWriter(r, n)
    BY <2>1, <2>2, <2>5
  <2> QED BY <2>3, <2>5, <2>6, <2>7 DEF t, ph, n
<1> QED BY <1>1, RequestPathInvariant, PTL

(* A gating sink has a place in the order of the sinks. *)
LEMMA OfferedToAll ==
    ASSUME NEW k, NEW of, NEW ev, NEW f, NEW g, Offered(k, of, ev, f, g, Len(SinkOrder)),
           NEW s \in Gating, Accepts(s, ev)
    PROVE  s \in Holding(k, of, ev) \cup f \cup g
<1>1. PICK i \in 1 .. Len(SinkOrder) : s = SinkOrder[i]
  BY SinkAssumption
<1> QED BY <1>1 DEF Offered

(* What is on record of a call whose chain is through. *)
LEMMA OnRecord ==
    ASSUME Inv, NEW r \in Requests, job[r].pc = "ended"
    PROVE  /\ Log(r) = Within(job[r].log)
           /\ {l.rec.ev : l \in Log(r)} = Owed(job[r].phase, trace[r]) \cup CallOwes(job[r])
           /\ Owed(job[r].phase, trace[r]) \cap CallRecords = {}
           /\ \A l \in Log(r) : \A s \in Interested(l.rec.ev) :
                  s \in KeptBy(r, l.rec.ev) \cup l.failed \cup l.skipped
<1>1. Log(r) = Within(job[r].log)
  BY DEF Log, Within
<1> DEFINE on == {l.rec.ev : l \in Within(job[r].log)}
           owed == Owed(job[r].phase, trace[r])
<1>2. Recorded(job[r], trace[r]) /\ Claimed(dep, job[r])
  BY DEF Inv, CallsGood, Good
<1>3. Within(job[r].due) = {}
  <2>1. job[r].due = <<>>
    BY <1>2 DEF Recorded
  <2> QED BY <2>1 DEF Within
<1>4. /\ (on \cup Within(job[r].due)) \ CallRecords = owed
      /\ (on \cup Within(job[r].due)) \cap CallRecords = OwnIn(dep, job[r])
  BY <1>2 DEF Recorded, Claimed
<1>5. OwnIn(dep, job[r]) = CallOwes(job[r])
  BY DEF OwnIn, CallOwes, EmitsIn, Emits
<1>6. on = owed \cup CallOwes(job[r]) /\ owed \cap CallRecords = {}
  <2> HIDE DEF on, owed
  <2> QED BY <1>3, <1>4, <1>5
<1>7. ASSUME NEW l \in Within(job[r].log), NEW s \in Interested(l.rec.ev)
      PROVE  s \in KeptBy(r, l.rec.ev) \cup l.failed \cup l.skipped
  <2>1. Offered(kept, r, l.rec.ev, l.failed, l.skipped, Len(SinkOrder))
    BY <1>7 DEF Inv, LogOffers
  <2>2. s \in Gating /\ Accepts(s, l.rec.ev)
    BY <1>7 DEF Interested
  <2>3. s \in Holding(kept, r, l.rec.ev) \cup l.failed \cup l.skipped
    BY <2>1, <2>2, OfferedToAll
  <2> QED BY <2>3 DEF Holding, KeptBy
<1> QED BY <1>1, <1>6, <1>7

(* An accepted call has its record, wherever the switch asks for one and a   *)
(* sink could be reached; under fail_closed it is with every gating sink     *)
(* that wants it and was not found disabled and then enabled                 *)
(* (emits_tool_call_allowed, emit_audit_event_enforced).                     *)
THEOREM AcceptedIsRecorded == Spec => []AcceptedCallsRecorded
<1>1. Inv => AcceptedCallsRecorded
  <2> SUFFICES ASSUME Inv, NEW r \in Requests, job[r].pc = "ended",
                      job[r].phase \in GatePhases, job[r].verdict = "allow", Emits(job[r].phase)
               PROVE  \/ dep.gates = <<>> /\ ~job[r].reachable /\ job[r].at = 0
                      \/ \E l \in Log(r) :
                            /\ l.rec.ev = CallRecord(job[r].phase)
                            /\ l.policy = "fail_closed" =>
                                  \A s \in Interested(l.rec.ev) :
                                      \/ s \in KeptBy(r, l.rec.ev)
                                      \/ s \in l.skipped /\ s \notin l.down
    BY DEF AcceptedCallsRecorded
  <2>1. CASE job[r].at = 0
    <3>1. PassedBy(dep, job[r])
      BY <2>1 DEF Inv, CallsGood, Good, Claimed
    <3> QED BY <2>1, <3>1 DEF PassedBy, Emits, EmitsIn
  <2>2. CASE job[r].at # 0
    <3>1. CallOwes(job[r]) = {CallRecord(job[r].phase)}
      <4>1. job[r].at > 0
        BY <2>2 DEF Inv, CallType, Jobs
      <4> QED BY <4>1 DEF CallOwes
    <3>2. PICK l \in Log(r) : l.rec.ev = CallRecord(job[r].phase)
      BY <3>1, OnRecord
    <3>3. l.policy = "fail_closed" => l.failed = {} /\ l.down = {}
      BY <3>2, OnRecord DEF Inv, CallsGood, Good, Recorded
    <3>4. \A s \in Interested(l.rec.ev) : s \in KeptBy(r, l.rec.ev) \cup l.failed \cup l.skipped
      BY <3>2, OnRecord
    <3> QED BY <3>2, <3>3, <3>4
  <2> QED BY <2>1, <2>2
<1> QED BY <1>1, RequestPathInvariant, PTL

(* A chain that is through has the record of every rewrite, refusal and      *)
(* charge, and of the call it accepted, on offer to the gating sinks, and no *)
(* record of another kind (tool_gate_event, payment_outcome_event,           *)
(* transform_applied_event, tool_gate_allowed_event,                         *)
(* tool_gate_completed_event).                                               *)
THEOREM ChainsOnRecord == Spec => []ChainOnRecord
<1>1. Inv => ChainOnRecord
  <2> SUFFICES ASSUME Inv, NEW r \in Requests, job[r].pc = "ended"
               PROVE  LET ph   == job[r].phase
                          owed == UNION {EntryOwes(ph, trace[r][i]) : i \in 1..Len(trace[r])}
                      IN  /\ {l.rec.ev : l \in Log(r)} = owed \cup CallOwes(job[r])
                          /\ job[r].verdict = "audit_refused" => CallOwes(job[r]) # {}
                          /\ \A l \in Log(r) : \A s \in Interested(l.rec.ev) :
                                 s \in KeptBy(r, l.rec.ev) \cup l.failed \cup l.skipped
    BY DEF ChainOnRecord
  <2>1. job[r].verdict = "audit_refused" => CallOwes(job[r]) # {}
    <3> SUFFICES ASSUME job[r].verdict = "audit_refused" PROVE CallOwes(job[r]) # {}
      OBVIOUS
    <3>1. PICK l \in Within(job[r].log) : l.rec.ev \in CallRecords
      BY DEF Inv, CallsGood, Good, Recorded
    <3>2. l.rec.ev \in {m.rec.ev : m \in Log(r)}
      <4>1. l \in Log(r)
        BY <3>1, OnRecord
      <4> QED BY <4>1
    <3>3. /\ l.rec.ev \in Owed(job[r].phase, trace[r]) \cup CallOwes(job[r])
          /\ Owed(job[r].phase, trace[r]) \cap CallRecords = {}
      BY <3>2, OnRecord
    <3> QED BY <3>1, <3>3
  <2>2. Owed(job[r].phase, trace[r])
            = UNION {EntryOwes(job[r].phase, trace[r][i]) : i \in 1..Len(trace[r])}
    BY DEF Owed
  <2> QED BY <2>1, <2>2, OnRecord
<1> QED BY <1>1, RequestPathInvariant, PTL
===============================================================================
