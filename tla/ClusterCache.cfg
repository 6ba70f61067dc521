\* Every operation on two instances, over a durable or a best-effort backend.
SPECIFICATION Spec
CONSTANTS
    n1 = n1  n2 = n2  t1 = t1  t2 = t2
    Nodes = {n1, n2}
    Tasks = {t1, t2}
    NodeOf <- EachItsNode
    Offsets = {0, 1, 2}
    MaxAge = 1
    MaxTime = 2
    MaxIssued = 2
    MaxLog = 2
INVARIANTS Converged PresenceAgrees RevokedStaysGone
SYMMETRY Swap
