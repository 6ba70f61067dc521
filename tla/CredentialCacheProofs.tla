------------------------ MODULE CredentialCacheProofs ------------------------
(***************************************************************************)
(* Proofs about CredentialCache, for every set of keys, requests, issuers, *)
(* subscribers and TTLs, every cap and every max_entries.                  *)
(***************************************************************************)
EXTENDS CredentialCache, FiniteSetTheorems, SequenceTheorems, TLAPS

-------------------------------------------------------------------------------
(* The inductive invariant, beside the properties themselves.               *)

(* A request that is about to insert holds a credential that was issued on   *)
(* its own path and no earlier than the instant the request read first; no   *)
(* request has read an instant that is yet to come.                          *)
IssuedAfterRead ==
    \A r \in Requests :
        /\ rnow[r] <= now
        /\ rpc[r] = "insert" => /\ rcred[r] \in Credential
                                /\ rcred[r].via = rpath[r]
                                /\ rnow[r] <= rcred[r].born

(* Finitely many calls leave finitely many entries and subscribers. *)
FiniteTables == IsFiniteSet(Cached) /\ IsFiniteSet(subs)

-------------------------------------------------------------------------------
(* Operators.                                                               *)

(* A lifetime is a number, and at most the TTL and the cap. *)
LEMMA LifetimeType ==
    ASSUME NEW ttl \in Nat
    PROVE  Lifetime(ttl) \in Nat /\ Lifetime(ttl) <= ttl /\ Lifetime(ttl) <= MaxCacheTtl
BY BoundAssumption DEF Lifetime, Smaller

(* What is left after a removal is what was there, entry by entry. *)
LEMMA WithoutFacts ==
    ASSUME NEW e, NEW K
    PROVE  /\ DOMAIN Without(e, K) = DOMAIN e \ K
           /\ \A k \in DOMAIN e \ K : Without(e, K)[k] = e[k]
BY DEF Without

(* The credential of a request has the fields of one. *)
LEMMA CredentialFields ==
    ASSUME TypeOK, NEW r \in Requests
    PROVE  rcred[r].born \in Nat /\ rcred[r].ttl \in Nat
<1>1. CASE rcred[r] = NoCredential
  BY <1>1 DEF NoCredential
<1>2. CASE rcred[r] \in Credential
  <2>1. rcred[r].born \in 0 .. MaxTime /\ rcred[r].ttl \in Ttls
    BY <1>2 DEF Credential
  <2>2. rcred[r].born \in Nat
    BY <2>1, BoundAssumption
  <2>3. rcred[r].ttl \in Nat
    BY <2>1, BoundAssumption
  <2> QED BY <2>2, <2>3
<1> QED BY <1>1, <1>2 DEF TypeOK

(* The entry an insertion stores is an entry, made no later than the         *)
(* credential in it when the cache's own path stamps it.                     *)
LEMMA FreshFacts ==
    ASSUME TypeOK, IssuedAfterRead, NEW r \in Requests, rpc[r] = "insert"
    PROVE  /\ Fresh(r) \in Entry
           /\ Fresh(r).cred = rcred[r]
           /\ rcred[r].via = "cache"
                  => Fresh(r).expires <= rcred[r].born + Lifetime(rcred[r].ttl)
<1>1. /\ rcred[r] \in Credential /\ rcred[r].via = rpath[r]
      /\ rnow[r] <= rcred[r].born
  BY DEF IssuedAfterRead
<1>2. rcred[r].born \in Nat /\ rcred[r].ttl \in Nat
  BY CredentialFields
<1>3. Lifetime(rcred[r].ttl) \in Nat
  BY <1>2, LifetimeType
<1>4. Stamp(r) \in 0 .. MaxTime /\ (rcred[r].via = "cache" => Stamp(r) = rnow[r])
  BY <1>1 DEF TypeOK, Stamp
<1>5. Stamp(r) + Lifetime(rcred[r].ttl) \in Nat
  BY <1>3, <1>4, BoundAssumption
<1>6. Fresh(r) \in Entry /\ Fresh(r).cred = rcred[r]
      /\ Fresh(r).expires = Stamp(r) + Lifetime(rcred[r].ttl)
  BY <1>1, <1>4, <1>5 DEF Fresh, Entry
<1>7. rcred[r].via = "cache" =>
          Stamp(r) + Lifetime(rcred[r].ttl) <= rcred[r].born + Lifetime(rcred[r].ttl)
  BY <1>1, <1>2, <1>3, <1>4, BoundAssumption
<1> QED BY <1>6, <1>7

-------------------------------------------------------------------------------
(* The entries.  Everything an action does to them is one of three things.   *)

(* A hit touches an entry, a miss or an invalidation drops some, an insert   *)
(* keeps the survivors and adds its own.                                     *)
Touched == \E k \in Cached, t \in 0 .. MaxTime : entries' = [entries EXCEPT ![k].access = t]
Dropped == \E K : entries' = Without(entries, K)
(* Request r's entry is added, at the expense of others. *)
Inserted(r, keep) ==
    /\ Survivors(keep)
    /\ entries' = [k \in keep \cup {rkey[r]} |->
                      IF k = rkey[r] THEN Fresh(r) ELSE entries[k]]

(* No action does anything else to the entries. *)
LEMMA EntriesChange ==
    ASSUME TypeOK, [Next]_vars
    PROVE  \/ UNCHANGED entries
           \/ Touched
           \/ Dropped
           \/ \E r \in Requests, keep \in SUBSET Cached :
                  rpc[r] = "insert" /\ Inserted(r, keep)
<1> USE DEF requestVars, lockVars
<1>1. ASSUME NEW r \in Requests, LookupHit(r) PROVE Touched
  BY <1>1 DEF LookupHit, Valid, Touched, TypeOK
<1>2. ASSUME NEW r \in Requests, LookupMiss(r) PROVE Dropped
  BY <1>2 DEF LookupMiss, Dropped
<1>3. ASSUME NEW r \in Requests, Insert(r)
      PROVE  \E keep \in SUBSET Cached : rpc[r] = "insert" /\ Inserted(r, keep)
  BY <1>3 DEF Insert, Inserted
<1>4. ASSUME NEW K, Revoke(K) PROVE Dropped
  BY <1>4 DEF Revoke, Dropped
<1>5. CASE UNCHANGED entries
  BY <1>5
<1> QED BY <1>1, <1>2, <1>3, <1>4, <1>5
        DEF Next, vars, Request, Tick, Begin, IssueReturns, IssueFails, Invalidate,
            InvalidatePlugin, FireCallback, Subscribe, Unsubscribe

(* What a property of single entries has to be shown of: an entry in the     *)
(* next state is an old one, an old one with another access time, or fresh.  *)
LEMMA EntryOrigin ==
    ASSUME TypeOK, [Next]_vars, NEW k \in Cached'
    PROVE  \/ /\ k \in Cached
              /\ entries'[k].cred = entries[k].cred
              /\ entries'[k].expires = entries[k].expires
              /\ entries'[k] \in Entry
           \/ \E r \in Requests : /\ rpc[r] = "insert"
                                  /\ k = rkey[r] /\ entries'[k] = Fresh(r)
<1>0. \A c \in Cached : entries[c] \in Entry
  BY DEF TypeOK
<1>1. CASE UNCHANGED entries
  BY <1>0, <1>1 DEF Cached
<1>2. CASE Touched
  <2>1. PICK c \in Cached, t \in 0 .. MaxTime : entries' = [entries EXCEPT ![c].access = t]
    BY <1>2 DEF Touched
  <2>2. k \in Cached
    BY <2>1 DEF Cached
  <2>3. CASE k = c
    <3>1. entries'[k] = [entries[k] EXCEPT !.access = t]
      BY <2>1, <2>2, <2>3 DEF Cached
    <3> QED BY <1>0, <2>2, <3>1 DEF Entry
  <2>4. CASE k # c
    <3>1. entries'[k] = entries[k]
      BY <2>1, <2>2, <2>4 DEF Cached
    <3> QED BY <1>0, <2>2, <3>1
  <2> QED BY <2>3, <2>4
<1>3. CASE Dropped
  <2>1. PICK K : entries' = Without(entries, K)
    BY <1>3 DEF Dropped
  <2>2. k \in Cached \ K /\ entries'[k] = entries[k]
    BY <2>1 DEF Without, Cached
  <2> QED BY <1>0, <2>2
<1>4. ASSUME NEW r \in Requests, NEW keep \in SUBSET Cached, rpc[r] = "insert",
             Inserted(r, keep)
      PROVE  \/ k \in Cached /\ entries'[k] = entries[k]
             \/ k = rkey[r] /\ entries'[k] = Fresh(r)
  BY <1>4 DEF Inserted, Cached
<1> QED BY <1>0, <1>1, <1>2, <1>3, <1>4, EntriesChange

-------------------------------------------------------------------------------
(* Types, and what a request knows about its credential.                    *)

(* The queue of callbacks an invalidation starts is a finite sequence over   *)
(* the subscribers of that moment.                                           *)
LEMMA RevokeFiring ==
    ASSUME TypeOK, FiniteTables, NEW K, IsFiniteSet(K), Revoke(K)
    PROVE  firing' \in Seq(subs \X K)
<1>1. Cardinality(subs) \in Nat /\ Cardinality(K) \in Nat
  BY FS_CardinalityType DEF FiniteTables
<1>2. Cardinality(subs) * Cardinality(K) \in Nat
  BY <1>1
<1>3. firing' \in [1 .. Cardinality(subs) * Cardinality(K) -> subs \X K]
  BY DEF Revoke
<1> QED BY <1>2, <1>3

(* An invalidation names one key, or the cached keys of a plugin. *)
LEMMA RevokedKeys ==
    ASSUME TypeOK, FiniteTables
    PROVE  /\ \A k \in Keys : IsFiniteSet({k}) /\ {k} \subseteq Keys
           /\ \A i \in Issuers : /\ IsFiniteSet({k \in Cached : IssuerOf[k] = i})
                                  /\ {k \in Cached : IssuerOf[k] = i} \subseteq Keys
BY FS_Singleton, FS_Subset DEF TypeOK, FiniteTables

(* Tables stay finite. *)
LEMMA NextFinite == TypeOK /\ FiniteTables /\ [Next]_vars => FiniteTables'
<1> SUFFICES ASSUME TypeOK, FiniteTables, [Next]_vars PROVE FiniteTables'
  OBVIOUS
<1>1. IsFiniteSet(Cached')
  <2>1. CASE UNCHANGED entries
    BY <2>1 DEF FiniteTables, Cached
  <2>2. CASE Touched
    <3>1. Cached' = Cached
      BY <2>2 DEF Touched, Cached
    <3> QED BY <3>1 DEF FiniteTables
  <2>3. CASE Dropped
    <3>1. Cached' \in SUBSET Cached
      BY <2>3 DEF Dropped, Without, Cached
    <3> QED BY <3>1, FS_Subset DEF FiniteTables
  <2>4. ASSUME NEW r \in Requests, NEW keep \in SUBSET Cached, Inserted(r, keep)
        PROVE  IsFiniteSet(Cached')
    <3>1. Cached' = keep \cup {rkey[r]}
      BY <2>4 DEF Inserted, Cached
    <3>2. IsFiniteSet(keep)
      BY FS_Subset DEF FiniteTables
    <3> QED BY <3>1, <3>2, FS_AddElement
  <2> QED BY <2>1, <2>2, <2>3, <2>4, EntriesChange
<1>2. \/ UNCHANGED subs
      \/ \E s \in Subscribers : subs' = subs \cup {s} \/ subs' = subs \ {s}
  BY DEF Next, vars, requestVars, lockVars, Request, Tick, Begin, LookupHit, LookupMiss,
         IssueReturns, IssueFails, Insert, Invalidate, InvalidatePlugin, Revoke,
         FireCallback, Subscribe, Unsubscribe
<1>3. IsFiniteSet(subs')
  BY <1>2, FS_AddElement, FS_RemoveElement DEF FiniteTables
<1> QED BY <1>1, <1>3 DEF FiniteTables

(* The part of the type that is about requests. *)
RequestTypes ==
    /\ rpc \in [Requests -> {"idle", "lookup", "issuing", "insert", "served"}]
    /\ rkey \in [Requests -> Keys]
    /\ rpath \in [Requests -> Paths]
    /\ rnow \in [Requests -> 0 .. MaxTime]
    /\ rcred \in [Requests -> Credential \cup {NoCredential}]

(* The part of it that is about subscribers and callbacks. *)
LockTypes == subs \subseteq Subscribers /\ firing \in Seq(Subscribers \X Keys)

(* A request's own steps keep the types of requests. *)
LEMMA RequestKeepsTypes ==
    ASSUME TypeOK, NEW r \in Requests, Request(r)
    PROVE  RequestTypes'
<1> USE DEF TypeOK, RequestTypes
<1>1. ASSUME NEW k \in Keys, NEW path \in Paths, Begin(r, k, path) PROVE RequestTypes'
  BY <1>1 DEF Begin
<1>2. CASE LookupHit(r)
  <2>1. entries[rkey[r]].cred \in Credential
    BY <1>2 DEF LookupHit, Valid, Entry
  <2> QED BY <1>2, <2>1 DEF LookupHit
<1>3. CASE LookupMiss(r)
  BY <1>3 DEF LookupMiss
<1>4. ASSUME NEW ttl \in Ttls, IssueReturns(r, ttl) PROVE RequestTypes'
  <2>1. [born |-> now, ttl |-> ttl, via |-> rpath[r]] \in Credential
    BY DEF Credential
  <2> QED BY <1>4, <2>1 DEF IssueReturns
<1>5. CASE IssueFails(r)
  BY <1>5 DEF IssueFails
<1>6. CASE Insert(r)
  BY <1>6 DEF Insert
<1> QED BY <1>1, <1>2, <1>3, <1>4, <1>5, <1>6 DEF Request

(* Every step keeps the types. *)
LEMMA NextType ==
    TypeOK /\ FiniteTables /\ IssuedAfterRead /\ [Next]_vars => TypeOK'
<1> SUFFICES ASSUME TypeOK, FiniteTables, IssuedAfterRead, [Next]_vars PROVE TypeOK'
  OBVIOUS
<1>1. Cached' \subseteq Keys /\ \A k \in Cached' : entries'[k] \in Entry
  BY EntryOrigin, FreshFacts DEF TypeOK
<1>2. now' \in 0 .. MaxTime
  <2>1. CASE Tick
    BY <2>1, BoundAssumption DEF Tick, TypeOK
  <2>2. CASE UNCHANGED now
    BY <2>2 DEF TypeOK
  <2> QED BY <2>1, <2>2
          DEF Next, vars, Request, Begin, LookupHit, LookupMiss, IssueReturns, IssueFails,
              Insert, Invalidate, InvalidatePlugin, Revoke, FireCallback, Subscribe,
              Unsubscribe
<1>3. RequestTypes'
  <2>1. ASSUME NEW r \in Requests, Request(r) PROVE RequestTypes'
    BY <2>1, RequestKeepsTypes
  <2>2. CASE UNCHANGED requestVars
    BY <2>2 DEF requestVars, RequestTypes, TypeOK
  <2> QED BY <2>1, <2>2 DEF Next, vars, Tick, Invalidate, InvalidatePlugin, Revoke,
                            FireCallback, Subscribe, Unsubscribe
<1>4. LockTypes'
  <2>1. ASSUME NEW K, IsFiniteSet(K), K \subseteq Keys, Revoke(K) PROVE LockTypes'
    <3>1. firing' \in Seq(subs \X K) /\ subs' = subs
      BY <2>1, RevokeFiring DEF Revoke
    <3>2. subs \X K \subseteq Subscribers \X Keys
      BY <2>1 DEF TypeOK, LockTypes
    <3> QED BY <3>1, <3>2, SeqMonotonic DEF TypeOK, LockTypes
  <2>2. ASSUME NEW k \in Keys, Invalidate(k) PROVE LockTypes'
    BY <2>1, <2>2, RevokedKeys DEF Invalidate
  <2>3. ASSUME NEW i \in Issuers, InvalidatePlugin(i) PROVE LockTypes'
    BY <2>1, <2>3, RevokedKeys DEF InvalidatePlugin
  <2>4. CASE FireCallback
    BY <2>4 DEF FireCallback, Unlocked, TypeOK, LockTypes
  <2>5. ASSUME NEW s \in Subscribers, Subscribe(s) \/ Unsubscribe(s) PROVE LockTypes'
    BY <2>5 DEF Subscribe, Unsubscribe, TypeOK, LockTypes
  <2>6. CASE UNCHANGED lockVars
    BY <2>6 DEF lockVars, TypeOK, LockTypes
  <2> QED BY <2>2, <2>3, <2>4, <2>5, <2>6
          DEF Next, vars, Request, Tick, Begin, LookupHit, LookupMiss, IssueReturns,
              IssueFails, Insert
<1> QED BY <1>1, <1>2, <1>3, <1>4 DEF TypeOK, RequestTypes, LockTypes

(* The issuer answers after the request has read the clock. *)
LEMMA NextIssued == TypeOK /\ IssuedAfterRead /\ [Next]_vars => IssuedAfterRead'
<1> SUFFICES ASSUME TypeOK, IssuedAfterRead, [Next]_vars PROVE IssuedAfterRead'
  OBVIOUS
<1> USE DEF IssuedAfterRead, TypeOK
<1>0. now \in Nat /\ \A r \in Requests : rnow[r] \in Nat
  BY BoundAssumption
<1>1. CASE Tick
  BY <1>0, <1>1 DEF Tick, requestVars
<1>2. ASSUME NEW r \in Requests, NEW k \in Keys, NEW path \in Paths, Begin(r, k, path)
      PROVE  IssuedAfterRead'
  BY <1>0, <1>2 DEF Begin
<1>3. ASSUME NEW r \in Requests,
             LookupHit(r) \/ LookupMiss(r) \/ IssueFails(r) \/ Insert(r)
      PROVE  IssuedAfterRead'
  <2>1. /\ rpc'[r] # "insert"
        /\ \A q \in Requests \ {r} : rpc'[q] = rpc[q] /\ rcred'[q] = rcred[q]
        /\ UNCHANGED <<now, rnow, rpath>>
    BY <1>3 DEF LookupHit, LookupMiss, IssueFails, Insert
  <2> QED BY <2>1
<1>4. ASSUME NEW r \in Requests, NEW ttl \in Ttls, IssueReturns(r, ttl)
      PROVE  IssuedAfterRead'
  <2> DEFINE c == [born |-> now, ttl |-> ttl, via |-> rpath[r]]
  <2>1. c \in Credential /\ c.via = rpath[r] /\ c.born = now
    BY DEF Credential
  <2>2. /\ rcred' = [rcred EXCEPT ![r] = c]
        /\ rpc' = [rpc EXCEPT ![r] = "insert"]
        /\ UNCHANGED <<now, rnow, rpath>>
    BY <1>4 DEF IssueReturns
  <2> HIDE DEF c
  <2> QED BY <2>1, <2>2
<1>5. CASE UNCHANGED <<now, requestVars>>
  BY <1>5 DEF requestVars
<1> QED BY <1>1, <1>2, <1>3, <1>4, <1>5
        DEF Next, vars, Request, Invalidate, InvalidatePlugin, Revoke, FireCallback,
            Subscribe, Unsubscribe

(* Every reachable state is well typed, its tables are finite, and nothing   *)
(* is inserted that was issued before its request read the clock.            *)
THEOREM CacheTypeCorrect == Spec => [](TypeOK /\ FiniteTables /\ IssuedAfterRead)
<1>1. Init => TypeOK /\ FiniteTables /\ IssuedAfterRead
  <2> SUFFICES ASSUME Init PROVE TypeOK /\ FiniteTables /\ IssuedAfterRead
    OBVIOUS
  <2>1. Cached = {} /\ subs = {} /\ firing = << >>
    BY DEF Init, Cached
  <2>2. FiniteTables
    BY <2>1, FS_EmptySet DEF FiniteTables
  <2>3. IssuedAfterRead
    BY DEF Init, IssuedAfterRead
  <2>4. now \in 0 .. MaxTime /\ rnow \in [Requests -> 0 .. MaxTime]
    BY BoundAssumption DEF Init
  <2> QED BY <2>1, <2>2, <2>3, <2>4 DEF Init, TypeOK
<1> QED BY <1>1, NextType, NextFinite, NextIssued, PTL DEF Spec

-------------------------------------------------------------------------------
(* The properties.                                                          *)

(* An insertion makes room first, so it never leaves more than max_entries,  *)
(* or one.                                                                   *)
LEMMA NextSize ==
    TypeOK /\ FiniteTables /\ SizeBounded /\ [Next]_vars => SizeBounded'
<1> SUFFICES ASSUME TypeOK, FiniteTables, SizeBounded, [Next]_vars PROVE SizeBounded'
  OBVIOUS
<1> DEFINE bound == IF MaxEntries = 0 THEN 1 ELSE MaxEntries
<1>0. bound \in Nat /\ Cardinality(Cached) \in Nat /\ Cardinality(Cached) <= bound
  BY BoundAssumption, FS_CardinalityType DEF SizeBounded, FiniteTables
<1>1. ASSUME Cached' \in SUBSET Cached PROVE SizeBounded'
  <2>1. Cardinality(Cached') <= Cardinality(Cached) /\ Cardinality(Cached') \in Nat
    BY <1>1, FS_Subset, FS_CardinalityType DEF FiniteTables
  <2>2. Cardinality(Cached') <= bound
    BY <1>0, <2>1
  <2> QED BY <2>2 DEF SizeBounded
<1>2. ASSUME NEW r \in Requests, NEW keep \in SUBSET Cached, Inserted(r, keep)
      PROVE  SizeBounded'
  <2>1. Cached' = keep \cup {rkey[r]}
    BY <1>2 DEF Inserted, Cached
  <2>2. IsFiniteSet(keep) /\ Cardinality(keep) \in Nat
    BY FS_Subset, FS_CardinalityType DEF FiniteTables
  <2>3. Cardinality(keep) + 1 <= bound
    <3>1. CASE MaxEntries = 0
      BY <1>2, <3>1 DEF Inserted, Survivors
    <3>2. CASE MaxEntries # 0
      BY <1>0, <1>2, <2>2, <3>2, BoundAssumption DEF Inserted, Survivors, Smaller
    <3> QED BY <3>1, <3>2
  <2>4. Cardinality(Cached') \in {Cardinality(keep), Cardinality(keep) + 1}
    BY <2>1, <2>2, FS_AddElement
  <2>5. Cardinality(Cached') <= bound
    BY <1>0, <2>2, <2>3, <2>4
  <2> QED BY <2>5 DEF SizeBounded
<1>3. CASE UNCHANGED entries \/ Touched \/ Dropped
  <2>1. Cached' \in SUBSET Cached
    BY <1>3 DEF Touched, Dropped, Without, Cached
  <2> QED BY <1>1, <2>1
<1> QED BY <1>2, <1>3, EntriesChange

(* Inner.entries never exceeds max_entries, whichever inserts race, and      *)
(* admits one entry when that is 0.                                          *)
THEOREM CacheBounded == Spec => []SizeBounded
<1>1. Init => SizeBounded
  BY BoundAssumption, FS_EmptySet DEF Init, SizeBounded, Cached
<1> QED BY <1>1, NextSize, CacheTypeCorrect, PTL DEF Spec

(* Only a fresh entry can bring in a new expiry. *)
LEMMA NextLifetime ==
    TypeOK /\ IssuedAfterRead /\ EntryWithinLifetime /\ [Next]_vars => EntryWithinLifetime'
<1> SUFFICES ASSUME TypeOK, IssuedAfterRead, EntryWithinLifetime, [Next]_vars,
                    NEW k \in Cached', entries'[k].cred.via = "cache"
             PROVE  entries'[k].expires
                        <= entries'[k].cred.born + Lifetime(entries'[k].cred.ttl)
  BY DEF EntryWithinLifetime
<1>1. CASE /\ k \in Cached
           /\ entries'[k].cred = entries[k].cred
           /\ entries'[k].expires = entries[k].expires
  BY <1>1 DEF EntryWithinLifetime
<1>2. ASSUME NEW r \in Requests, rpc[r] = "insert", entries'[k] = Fresh(r)
      PROVE  entries'[k].expires
                 <= entries'[k].cred.born + Lifetime(entries'[k].cred.ttl)
  BY <1>2, FreshFacts
<1> QED BY <1>1, <1>2, EntryOrigin

(* An entry of the cache's own get_or_issue dies with the credential in it   *)
(* or before: issued_at plus the shorter of the TTL and the operator's cap.  *)
THEOREM EntriesDieInTime == Spec => []EntryWithinLifetime
<1>1. Init => EntryWithinLifetime
  BY DEF Init, EntryWithinLifetime, Cached
<1> QED BY <1>1, NextLifetime, CacheTypeCorrect, PTL DEF Spec

(* A request is served by a hit on a live entry or by what it issued itself. *)
LEMMA NextServed ==
    TypeOK /\ IssuedAfterRead /\ EntryWithinLifetime /\ ServedAlive /\ [Next]_vars
        => ServedAlive'
<1> SUFFICES ASSUME TypeOK, IssuedAfterRead, EntryWithinLifetime, ServedAlive, [Next]_vars
             PROVE  ServedAlive'
  OBVIOUS
<1>1. ASSUME NEW r \in Requests, LookupHit(r) PROVE ServedAlive'
  <2> DEFINE e == entries[rkey[r]]
  <2>1. /\ rkey[r] \in Cached /\ e.expires > rnow[r]
        /\ rcred' = [rcred EXCEPT ![r] = e.cred]
        /\ rpc' = [rpc EXCEPT ![r] = "served"]
        /\ UNCHANGED rnow
    BY <1>1 DEF LookupHit, Valid
  <2>2. e \in Entry
    BY <2>1 DEF TypeOK
  <2>3. e.cred \in Credential /\ e.expires \in Nat
    BY <2>2 DEF Entry
  <2>4. e.cred.born \in 0 .. MaxTime /\ e.cred.ttl \in Ttls
    BY <2>3 DEF Credential
  <2>5. e.cred.born \in Nat
    BY <2>4, BoundAssumption
  <2>6. e.cred.ttl \in Nat
    BY <2>4, BoundAssumption
  <2>7. Lifetime(e.cred.ttl) \in Nat
    BY <2>6, LifetimeType
  <2>8. rnow[r] \in Nat
    BY BoundAssumption DEF TypeOK
  <2>9. e.cred.via = "cache" => e.cred.born + Lifetime(e.cred.ttl) >= rnow[r]
    BY <2>1, <2>3, <2>5, <2>7, <2>8 DEF EntryWithinLifetime
  <2> HIDE DEF e
  <2> QED BY <2>1, <2>9 DEF ServedAlive, TypeOK
<1>2. ASSUME NEW r \in Requests, Insert(r) PROVE ServedAlive'
  <2>1. /\ rpc[r] = "insert" /\ rpc' = [rpc EXCEPT ![r] = "served"]
        /\ UNCHANGED <<rnow, rcred>>
    BY <1>2 DEF Insert
  <2>2. rcred[r].born \in Nat /\ rcred[r].ttl \in Nat
    BY CredentialFields
  <2>3. Lifetime(rcred[r].ttl) \in Nat
    BY <2>2, LifetimeType
  <2>4. rnow[r] \in Nat /\ rnow[r] <= rcred[r].born
    BY <2>1, BoundAssumption DEF TypeOK, IssuedAfterRead
  <2>5. rcred[r].born + Lifetime(rcred[r].ttl) >= rnow[r]
    BY <2>2, <2>3, <2>4
  <2> QED BY <2>1, <2>5 DEF ServedAlive, TypeOK
<1>3. ASSUME NEW r \in Requests,
             \/ \E k \in Keys, path \in Paths : Begin(r, k, path)
             \/ LookupMiss(r)
             \/ \E ttl \in Ttls : IssueReturns(r, ttl)
             \/ IssueFails(r)
      PROVE  ServedAlive'
  <2>1. /\ rpc'[r] # "served"
        /\ \A q \in Requests \ {r} : /\ rpc'[q] = rpc[q] /\ rcred'[q] = rcred[q]
                                      /\ rnow'[q] = rnow[q]
    BY <1>3 DEF Begin, LookupMiss, IssueReturns, IssueFails, TypeOK
  <2> QED BY <2>1 DEF ServedAlive
<1>4. CASE UNCHANGED requestVars
  BY <1>4 DEF requestVars, ServedAlive
<1> QED BY <1>1, <1>2, <1>3, <1>4
        DEF Next, vars, Request, Tick, Invalidate, InvalidatePlugin, Revoke, FireCallback,
            Subscribe, Unsubscribe

(* get_or_issue serves a credential only while it is alive at the instant    *)
(* the request read, however long it waited and whoever replaced the entry.  *)
THEOREM ServesAlive == Spec => []ServedAlive
<1>1. Init => ServedAlive
  BY DEF Init, ServedAlive
<1> QED BY <1>1, NextServed, EntriesDieInTime, CacheTypeCorrect, PTL DEF Spec

(* The subscriber list changes only while no callback is outstanding. *)
LEMMA NextFiring ==
    TypeOK /\ FiniteTables /\ NoCallbackAfterUnsubscribe /\ [Next]_vars
        => NoCallbackAfterUnsubscribe'
<1> SUFFICES ASSUME TypeOK, FiniteTables, NoCallbackAfterUnsubscribe, [Next]_vars
             PROVE  NoCallbackAfterUnsubscribe'
  OBVIOUS
<1>1. ASSUME NEW K, IsFiniteSet(K), Revoke(K) PROVE NoCallbackAfterUnsubscribe'
  <2>1. firing' \in Seq(subs \X K) /\ subs' = subs
    BY <1>1, RevokeFiring DEF Revoke
  <2> QED BY <2>1 DEF NoCallbackAfterUnsubscribe
<1>2. ASSUME NEW k \in Keys, Invalidate(k) PROVE NoCallbackAfterUnsubscribe'
  BY <1>1, <1>2, RevokedKeys DEF Invalidate
<1>3. ASSUME NEW i \in Issuers, InvalidatePlugin(i) PROVE NoCallbackAfterUnsubscribe'
  BY <1>1, <1>3, RevokedKeys DEF InvalidatePlugin
<1>4. CASE FireCallback
  <2>1. firing \in Seq(Subscribers \X Keys) /\ firing # << >>
        /\ firing' = Tail(firing) /\ subs' = subs
    BY <1>4 DEF FireCallback, Unlocked, TypeOK
  <2>2. \A i \in DOMAIN Tail(firing) : i + 1 \in DOMAIN firing /\ Tail(firing)[i] = firing[i + 1]
    BY <2>1
  <2> QED BY <2>1, <2>2 DEF NoCallbackAfterUnsubscribe
<1>5. ASSUME NEW s \in Subscribers, Subscribe(s) \/ Unsubscribe(s)
      PROVE  NoCallbackAfterUnsubscribe'
  <2>1. firing' = << >>
    BY <1>5 DEF Subscribe, Unsubscribe, Unlocked
  <2> QED BY <2>1 DEF NoCallbackAfterUnsubscribe
<1>6. CASE UNCHANGED lockVars
  BY <1>6 DEF lockVars, NoCallbackAfterUnsubscribe
<1> QED BY <1>2, <1>3, <1>4, <1>5, <1>6
        DEF Next, vars, Request, Tick, Begin, LookupHit, LookupMiss, IssueReturns,
            IssueFails, Insert

(* A backend whose RevocationSubscription has been dropped is called no      *)
(* more: the drop waits for the lock the callbacks run under.                *)
THEOREM UnsubscribeIsFinal == Spec => []NoCallbackAfterUnsubscribe
<1>1. Init => NoCallbackAfterUnsubscribe
  BY DEF Init, NoCallbackAfterUnsubscribe
<1> QED BY <1>1, NextFiring, CacheTypeCorrect, PTL DEF Spec
===============================================================================
