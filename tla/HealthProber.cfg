\* Two chain plugins; the flag is raised after two failures.
SPECIFICATION FairSpec
CONSTANTS
    p1 = p1  p2 = p2
    Plugins = {p1, p2}
    Listed <- Both
    Probeable = {p1, p2}
    Threshold = 2
INVARIANTS DegradedExplained OneLateProbe
PROPERTIES StopEndsTask HealthyRecovers SickIsFlagged
