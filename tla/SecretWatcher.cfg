\* One watch task, two cancel() calls, one of which may be dropped.
SPECIFICATION FairSpec
CONSTANTS
    u1 = u1  c1 = c1  c2 = c2
    None = None
    Reported = {1, 2}
    Numeric = {1}
    Refs = {u1}
    Callers = {c1, c2}
    Droppable = {c1}
    MaxQueue = 2
INVARIANTS LastVersionFannedOut NoCallbackAfterCancel
PROPERTIES PendingIsFannedOut CancelEnds
CHECK_DEADLOCK FALSE
