\* An instance invalidates while a peer's Issued event is under way.
SPECIFICATION Spec
CONSTANTS
    n1 = n1  n2 = n2  t1 = t1  t2 = t2
    Nodes = {n1, n2}
    Tasks = {t1, t2}
    NodeOf <- EachItsNode
    Offsets = {0}
    MaxAge = 1
    MaxTime = 0
    MaxIssued = 1
    MaxLog = 4
INVARIANTS RevokedEverywhere
