CONSTANTS
    jar = jar
    page = page
    directory = directory
    a1 = a1
    a2 = a2
    Path <- Paths
    Page <- Pages
    Alias <- Aliases
    Required <- RequiredPages
    Key <- Hashes
    Artifact <- Artifacts
    Entry <- Artifacts
    Remote = Remote
    Unit <- TaskUnits
    NoEntry = NoEntry
    Deleted = Deleted
    Absent = Absent
    Version = {0, 1, 2, 3}
    NoVersion = NoVersion
    Profile = {A, B}
    MaxSegments = 2
    MaxChanges = 3
    NoManifest = NoManifest
    NoInfo = NoInfo
    NoTask = NoTask
SPECIFICATION ScenarioSpec
SYMMETRY Symmetry
CHECK_DEADLOCK FALSE
INVARIANTS
    TypeOK
    AdvertisedIndexIsExact
    IndexedVersionsAreCovered
    LookupsAreBounded
PROPERTIES
    ModifyFailsOnlyForCause
