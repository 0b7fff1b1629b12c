CONSTANTS
    Segment = {1, 2, 3}
    Size <- Sizes
    Budget = 4
    Opener = {o1, o2}
    Views <- Manifests
SPECIFICATION Spec
PROPERTIES
    WaitersReuseTheFile
