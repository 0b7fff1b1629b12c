CONSTANTS
    Segment = {1, 2, 3}
    Size <- Sizes
    Budget = 3
    Opener = {o1, o2, o3}
    Views <- Manifests
SPECIFICATION FairSpec
INVARIANTS
    TypeOK
    PinnedSegmentsStay
    BudgetIsKept
    DownloadsAreNeeded
PROPERTIES
    AttemptsEnd
