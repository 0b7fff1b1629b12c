CONSTANTS
    jar = jar
    b1 = b1
    b2 = b2
    pom = pom
    directory = directory
    release = release
    None = None
    Package <- Packages
    Uploads <- UploadSet
    Created <- CreationTimes
    Group <- Groups
    Artifact <- Artifacts
    Version <- VersionStrings
    Place <- Places
    Dash <- DashPart
    Dot <- DotPart
    Nothing <- Empty
    Letters <- LetterParts
    Searches <- SearchSet
    Containing <- ContainingPairs
    Orderings <- OrderingSet
    PageSize = 1
    MaxDrafts = 3
    File = {jar, pom}
    Directory = {directory, release}
    Below <- FilesBelow
    Dotted = {release}
    Bytes = {b1, b2}
    Contents <- FileContents
    Url <- Asked
    Distribution <- Distributions
    MaxSeconds = 3
SPECIFICATION Spec
CHECK_DEADLOCK FALSE
INVARIANTS
    CatalogIsExact
    CrawlsMissNothing
    AnswersMatchVersion
    RevalidationIsSound
