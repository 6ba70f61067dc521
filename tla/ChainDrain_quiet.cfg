\* A request that passed the check before the drain calls after it.
SPECIFICATION Spec
CONSTANTS
    p1 = p1  p2 = p2  r1 = r1  r2 = r2  a1 = a1  h1 = h1
    Plugins = {p1}
    Chain <- OneChain
    Requests = {r1}
    Admins = {a1}
    Probers = {}
INVARIANTS CompletedDrainIsQuiet
