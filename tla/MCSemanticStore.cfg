SPECIFICATION Spec
CONSTANTS
    w = w
    p = p
    s1 = s1
    s2 = s2
    x1 = x1
    x2 = x2
    i1 = i1
    None = None
    Views = {w, p}
    Standalone = {p}
    Enriched = {w}
    States = {s1, s2}
    Snapshots = {x1, x2}
    Inputs = {i1}
    MaxRevision = 4
    MaxPublications = 4
    MaxStops = 1
INVARIANT LiveStateIsStored
INVARIANT GarbageIsAccounted
PROPERTY ImplementsPublishedViews
PROPERTY GarbageIsReclaimed
CHECK_DEADLOCK FALSE
