\* Two requests over both entry points, room for one entry, one subscriber.
SPECIFICATION Spec
CONSTANTS
    k1 = k1  k2 = k2  i1 = i1  r1 = r1  r2 = r2  s1 = s1
    Issuers = {i1}
    IssuerOf <- OneIssuer
    Keys = {k1, k2}
    Requests = {r1, r2}
    Paths = {"cache", "kind"}
    Subscribers = {s1}
    Ttls = {1, 3}
    MaxCacheTtl = 2
    MaxEntries = 1
    MaxTime = 3
SYMMETRY Symmetric
INVARIANTS SizeBounded EntryWithinLifetime ServedAlive NoCallbackAfterUnsubscribe
