--------------------------- MODULE CredentialCache ---------------------------
(***************************************************************************)
(* The in-process credential cache (credential_cache.rs): concurrent       *)
(* get_or_issue calls that look up, await the issuer and insert, a TTL and *)
(* a bound on the entries with LRU eviction, invalidation, and revocation  *)
(* subscribers that are called while the cache lock is held.               *)
(*                                                                         *)
(* A request enters through CredentialCache::get_or_issue ("cache", the    *)
(* resolver's way in) or CredentialCacheKind::get_or_issue ("kind").  They *)
(* differ in the instant the entry is stamped with.                        *)
(***************************************************************************)
EXTENDS Naturals, FiniteSets, FiniteSetsExt, Sequences

CONSTANTS
    Keys,           \* (identity_hash, plugin_id, target) triples
    Issuers,        \* credential_issuer plugin ids
    IssuerOf,       \* IssuerOf[k]: the plugin_id in key k
    Requests,       \* tasks inside get_or_issue
    Paths,          \* entry points in use, a subset of {"cache", "kind"}
    Subscribers,    \* backends that subscribe with on_revoked
    Ttls,           \* TTLs an issuer returns
    MaxCacheTtl,    \* operator cap on the TTL
    MaxEntries,     \* max_entries
    MaxTime         \* bound: the clock stops here

ASSUME IssuerAssumption == IssuerOf \in [Keys -> Issuers]
ASSUME PathAssumption   == Paths \subseteq {"cache", "kind"}
ASSUME BoundAssumption  == /\ MaxCacheTtl \in Nat /\ MaxTime \in Nat
                           /\ MaxEntries \in Nat /\ Ttls \subseteq Nat

VARIABLES
    now,        \* the clock
    entries,    \* Inner.entries: a function on the cached keys
    rpc,        \* rpc[r]: where request r is
    rkey,       \* rkey[r]: its key
    rpath,      \* rpath[r]: its entry point
    rnow,       \* rnow[r]: the Instant it read first
    rcred,      \* rcred[r]: the credential it issued or was served
    subs,       \* Inner.subscribers
    firing      \* callbacks still to run before the lock is released

requestVars == <<rpc, rkey, rpath, rnow, rcred>>
lockVars    == <<subs, firing>>
vars == <<now, entries, requestVars, lockVars>>

Smaller(a, b) == IF a < b THEN a ELSE b
Lifetime(ttl) == Smaller(ttl, MaxCacheTtl)
Cached == DOMAIN entries

(* When a credential was issued and the TTL that came with it; `via', the    *)
(* entry point that obtained it, is history.                                 *)
Credential == [born : 0 .. MaxTime, ttl : Ttls, via : Paths]
NoCredential == [born |-> 0, ttl |-> 0, via |-> "none"]

(* The mutex is held while an invalidation runs its callbacks. *)
Unlocked == firing = << >>

Init ==
    /\ now     = 0
    /\ entries = [k \in {} |-> NoCredential]
    /\ rpc     = [r \in Requests |-> "idle"]
    /\ rkey    \in [Requests -> Keys]
    /\ rpath   \in [Requests -> Paths]
    /\ rnow    = [r \in Requests |-> 0]
    /\ rcred   = [r \in Requests |-> NoCredential]
    /\ subs    = {}
    /\ firing  = << >>

Tick ==
    /\ now < MaxTime
    /\ now' = now + 1
    /\ UNCHANGED <<entries, requestVars, lockVars>>

-------------------------------------------------------------------------------
(* get_or_issue.                                                            *)

(* Build the key and read the clock. *)
Begin(r, k, path) ==
    /\ rpc[r] \in {"idle", "served"}
    /\ rpc'   = [rpc EXCEPT ![r] = "lookup"]
    /\ rkey'  = [rkey EXCEPT ![r] = k]
    /\ rpath' = [rpath EXCEPT ![r] = path]
    /\ rnow'  = [rnow EXCEPT ![r] = now]
    /\ rcred' = [rcred EXCEPT ![r] = NoCredential]
    /\ UNCHANGED <<now, entries, lockVars>>

(* Mutant: expires_at is not consulted. *)
BadValid(k, t) == k \in Cached

Valid(k, t) == k \in Cached /\ entries[k].expires > t

(* Hit: touch the entry. *)
LookupHit(r) ==
    /\ rpc[r] = "lookup" /\ Unlocked
    /\ Valid(rkey[r], rnow[r])
    /\ entries' = [entries EXCEPT ![rkey[r]].access = rnow[r]]
    /\ rcred' = [rcred EXCEPT ![r] = entries[rkey[r]].cred]
    /\ rpc' = [rpc EXCEPT ![r] = "served"]
    /\ UNCHANGED <<now, rkey, rpath, rnow, lockVars>>

Without(e, K) == [k \in DOMAIN e \ K |-> e[k]]

(* Miss: an expired entry is dropped here; the issuer is called. *)
LookupMiss(r) ==
    /\ rpc[r] = "lookup" /\ Unlocked
    /\ ~Valid(rkey[r], rnow[r])
    /\ entries' = Without(entries, {rkey[r]})
    /\ rpc' = [rpc EXCEPT ![r] = "issuing"]
    /\ UNCHANGED <<now, rkey, rpath, rnow, rcred, lockVars>>

IssueReturns(r, ttl) ==
    /\ rpc[r] = "issuing"
    /\ rcred' = [rcred EXCEPT ![r] = [born |-> now, ttl |-> ttl, via |-> rpath[r]]]
    /\ rpc' = [rpc EXCEPT ![r] = "insert"]
    /\ UNCHANGED <<now, entries, rkey, rpath, rnow, lockVars>>

IssueFails(r) ==
    /\ rpc[r] = "issuing"
    /\ rpc' = [rpc EXCEPT ![r] = "idle"]
    /\ UNCHANGED <<now, entries, rkey, rpath, rnow, rcred, lockVars>>

(* Mutant: `>' for `>=' in the eviction loop. *)
BadSurvivors(keep) ==
    /\ keep \subseteq Cached
    /\ Cardinality(keep) = Smaller(Cardinality(Cached), MaxEntries)

(* The eviction loop runs before the insertion: least recent first, until    *)
(* there is room for one more or nothing is left; `keep' are the survivors.  *)
Survivors(keep) ==
    /\ keep \subseteq Cached
    /\ Cardinality(keep) =
         IF MaxEntries = 0 THEN 0 ELSE Smaller(Cardinality(Cached), MaxEntries - 1)
    /\ \A k \in Cached \ keep, s \in keep : entries[k].access <= entries[s].access

Stamp(r) == IF rpath[r] = "cache" THEN rnow[r] ELSE now

(* Mutant: the operator's cap is ignored. *)
UncappedFresh(r) ==
    [cred |-> rcred[r], access |-> Stamp(r), expires |-> Stamp(r) + rcred[r].ttl]

(* The entry an insertion stores. *)
Fresh(r) ==
    [cred |-> rcred[r], access |-> Stamp(r),
     expires |-> Stamp(r) + Lifetime(rcred[r].ttl)]

Insert(r) ==
    /\ rpc[r] = "insert" /\ Unlocked
    /\ \E keep \in SUBSET Cached :
          /\ Survivors(keep)
          /\ entries' = [k \in keep \cup {rkey[r]} |->
                           IF k = rkey[r] THEN Fresh(r) ELSE entries[k]]
    /\ rpc' = [rpc EXCEPT ![r] = "served"]
    /\ UNCHANGED <<now, rkey, rpath, rnow, rcred, lockVars>>

-------------------------------------------------------------------------------
(* Invalidation.  The entries go, then every subscriber is called for every  *)
(* key, with the lock held throughout.                                       *)

Revoke(K) ==
    /\ Unlocked
    /\ entries' = Without(entries, K)
    /\ firing' \in {f \in [1 .. Cardinality(subs) * Cardinality(K) -> subs \X K] :
                       \A i, j \in DOMAIN f : i # j => f[i] # f[j]}
    /\ UNCHANGED <<now, requestVars, subs>>

(* invalidate and invalidate_by_hash: subscribers are called for the key     *)
(* whether or not it was cached.                                             *)
Invalidate(k) == Revoke({k})

InvalidatePlugin(i) == Revoke({k \in Cached : IssuerOf[k] = i})

FireCallback ==
    /\ ~Unlocked
    /\ firing' = Tail(firing)
    /\ UNCHANGED <<now, entries, requestVars, subs>>

Subscribe(s) ==
    /\ Unlocked /\ s \notin subs
    /\ subs' = subs \cup {s}
    /\ UNCHANGED <<now, entries, requestVars, firing>>

(* Mutant: the subscriber list is behind a lock of its own. *)
BadUnsubscribe(s) ==
    /\ s \in subs
    /\ subs' = subs \ {s}
    /\ UNCHANGED <<now, entries, requestVars, firing>>

(* Drop of the RevocationSubscription. *)
Unsubscribe(s) ==
    /\ Unlocked /\ s \in subs
    /\ subs' = subs \ {s}
    /\ UNCHANGED <<now, entries, requestVars, firing>>

-------------------------------------------------------------------------------
Request(r) ==
    \/ \E k \in Keys, path \in Paths : Begin(r, k, path)
    \/ LookupHit(r) \/ LookupMiss(r)
    \/ \E ttl \in Ttls : IssueReturns(r, ttl)
    \/ IssueFails(r) \/ Insert(r)

Next ==
    \/ Tick
    \/ \E r \in Requests : Request(r)
    \/ \E k \in Keys : Invalidate(k)
    \/ \E i \in Issuers : InvalidatePlugin(i)
    \/ FireCallback
    \/ \E s \in Subscribers : Subscribe(s) \/ Unsubscribe(s)

Spec == Init /\ [][Next]_vars

-------------------------------------------------------------------------------
Entry == [cred : Credential, access : 0 .. MaxTime, expires : Nat]

TypeOK ==
    /\ now \in 0 .. MaxTime
    /\ Cached \subseteq Keys
    /\ \A k \in Cached : entries[k] \in Entry
    /\ rpc \in [Requests -> {"idle", "lookup", "issuing", "insert", "served"}]
    /\ rkey \in [Requests -> Keys]
    /\ rpath \in [Requests -> Paths]
    /\ rnow \in [Requests -> 0 .. MaxTime]
    /\ rcred \in [Requests -> Credential \cup {NoCredential}]
    /\ subs \subseteq Subscribers
    /\ firing \in Seq(Subscribers \X Keys)

(* The bound on the entries holds at every moment, whichever inserts race; a *)
(* max_entries of 0 still admits one.                                        *)
SizeBounded == Cardinality(Cached) <= IF MaxEntries = 0 THEN 1 ELSE MaxEntries

(* An entry made through the cache's own get_or_issue dies no later than the *)
(* credential in it: issued_at plus the plugin's TTL or the operator's cap,  *)
(* whichever is shorter.  (CredentialCacheKind stamps the entry after the    *)
(* issuer has answered, and its entries may outlive their credential.)       *)
EntryWithinLifetime ==
    \A k \in Cached :
        LET c == entries[k].cred
        IN  c.via = "cache" => entries[k].expires <= c.born + Lifetime(c.ttl)

(* Such a credential is served only while it is alive at the instant its     *)
(* request read the clock, however long the request then waited for the lock *)
(* and whoever replaced the entry meanwhile.                                 *)
ServedAlive ==
    \A r \in Requests :
        rpc[r] = "served" /\ rcred[r].via = "cache"
            => rcred[r].born + Lifetime(rcred[r].ttl) >= rnow[r]

(* No callback into a backend whose unsubscribe has returned. *)
NoCallbackAfterUnsubscribe == \A i \in DOMAIN firing : firing[i][1] \in subs

================================================================================
