CONSTANTS
    Version = {1, 2}
    Digest = {"d", "c"}
    None = None
    Live = Live
    Unknown = Unknown
    Segments <- SegmentSets
    Budget = 3
    MaxViews = 2
    Loader = {l1, l2}
    Request = {r1, r2}
    Demands <- Asked
    MaxChanges = 2
SPECIFICATION Spec
INVARIANTS
    LeasesAreCounted
    ViewsMatchTheirKey
    ViewsAreBounded
PROPERTIES
    LatestIsServed
