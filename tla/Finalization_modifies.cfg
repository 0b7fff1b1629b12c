CONSTANTS
    Name <- Names
    Unit <- Units
    Pom = "pom"
    Snapshot <- Snapshots
    Environments <- Sound
    NoFile = NoFile
    Uploaded = Uploaded
    MaxChange = 2
SPECIFICATION Spec
INVARIANTS
    PagesAreExact
    PagesListOnlyContent
    MetadataIsCurrent
    PrefixesAreCurrent
PROPERTIES
    PackagesFollowFiles
