CONSTANTS
    jar = jar
    page = page
    directory = directory
    a1 = a1
    a2 = a2
    Path <- Paths
    Page <- Pages
    Alias <- Aliases
    Required <- RequiredPages
    Key <- Hashes
    Artifact <- Artifacts
    Entry <- Artifacts
    Remote = Remote
    Unit <- AllUnits
    NoEntry = NoEntry
    Deleted = Deleted
    Absent = Absent
    Version = {0, 1, 2, 3, 4, 5}
    NoVersion = NoVersion
    Profile = {A}
    MaxSegments = 3
    MaxChanges = 1
    NoManifest = NoManifest
    NoInfo = NoInfo
    NoTask = NoTask
SPECIFICATION ChainSpec
CHECK_DEADLOCK FALSE
INVARIANTS
    AdvertisedIndexIsExact
