CONSTANTS
    Path = {p1, p2, p3}
    Environments <- Skipping
    NoFilter = NoFilter
    MaxSteps = 4
SPECIFICATION Spec
SYMMETRY Symmetry
\* A model ends when its steps are used up.
CHECK_DEADLOCK FALSE
PROPERTIES
    EachVersionAddsItsPaths
