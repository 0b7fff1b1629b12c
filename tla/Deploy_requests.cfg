CONSTANTS
    pom = pom
    jar = jar
    snapshot = snapshot
    metadata = metadata
    xml = xml
    Repository = {A, B}
    Bytes = {b1, b2}
    NoBytes = NoBytes
    NoPackage = NoPackage
    None = None
    File <- Files
    Pom <- Poms
    Snapshot <- Snapshots
    PomOf <- ReleasePoms
    Metadata <- MetadataFiles
    Unversioned <- UnversionedFiles
    Request = {r1, r2}
    Environments <- Events
    MaxDeploys = 3
SPECIFICATION ScenarioSpec
SYMMETRY Symmetry
CHECK_DEADLOCK FALSE
INVARIANTS
    VersionsAreWhole
    OneUnitPerPath
PROPERTIES
    ReleasesAreFixed
