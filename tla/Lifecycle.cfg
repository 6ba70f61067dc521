\* Two plugins through their whole lifecycle.
SPECIFICATION LifecycleSpec
CONSTANTS
    p1 = p1  p2 = p2
    Plugins = {p1, p2}
INVARIANTS ServesOnlyLoaded
PROPERTIES NoResurrection
