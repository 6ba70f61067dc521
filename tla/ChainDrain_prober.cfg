\* The operator disables between the load and the store of the prober.
SPECIFICATION Spec
CONSTANTS
    p1 = p1  p2 = p2  r1 = r1  r2 = r2  a1 = a1  h1 = h1
    Plugins = {p1}
    Chain <- OneChain
    Requests = {r1}
    Admins = {a1}
    Probers = {h1}
PROPERTIES ProberNeverResurrects
