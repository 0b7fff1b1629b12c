CONSTANTS
    Path = {p1, p2, p3}
    Environments <- Sound
    NoFilter = NoFilter
    MaxSteps = 5
SPECIFICATION Spec
SYMMETRY Symmetry
\* A model ends when its steps are used up.
CHECK_DEADLOCK FALSE
INVARIANTS
    TypeOK
    NoFalseMiss
    FilterCoversContent
    FilterHasRoom
PROPERTIES
    EachVersionAddsItsPaths
