\* Four kinds of event, a set that overflows at three, a two-sided window of 1.
SPECIFICATION Spec
CONSTANTS
    e1 = e1  e2 = e2  e3 = e3  e4 = e4
    Events = {e1, e2, e3, e4}
    Stamp <- Stamps
    NoId = {e4}
    MaxAge = 1
    Slack = 2
    Cap = 2
    MaxTime = 8
INVARIANTS MapMatchesQueue AppliedOnce
