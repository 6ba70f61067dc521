\* Two chain plugins under two requests, an operator and the prober.
SPECIFICATION FairSpec
CONSTANTS
    p1 = p1  p2 = p2  r1 = r1  r2 = r2  a1 = a1  h1 = h1
    Plugins = {p1, p2}
    Chain <- TwoChain
    Requests = {r1, r2}
    Admins = {a1}
    Probers = {h1}
INVARIANTS InflightExact CompletedDrainsOwed WakeupDelivered
PROPERTIES ImplementsContract
