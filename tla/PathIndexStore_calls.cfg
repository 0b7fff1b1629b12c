CONSTANTS
    v1 = v1
    v2 = v2
    v3 = v3
    v4 = v4
    v5 = v5
    Key = {k1}
    Entry = {e1}
    NoEntry = NoEntry
    Deleted = Deleted
    Absent = Absent
    Version <- Versions
    NoVersion = NoVersion
    Writer = {w1, w2}
    MaxSegments = 4
    MaxCheckpoints = 2
    MaxAttempts = 2
    NoManifest = NoManifest
    NoCall = NoCall
SPECIFICATION ScenarioSpec
SYMMETRY Symmetry
CHECK_DEADLOCK FALSE
INVARIANTS
    TypeOK
    ManifestsClosed
    PrefixesAreVersions
PROPERTIES
    ObjectsImmutable
    OutcomesAreTrue
    ImplementsIndex
