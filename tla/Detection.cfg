SPECIFICATION Spec
CONSTANTS
    Detections <- MCDetections
    Yields <- MCYields
    Sizes <- MCSizes
    Nets <- MCNets
    Side = 12
    Threshold = 1
    NmsNum = 2
    NmsDen = 5
    MinFace = 2
    None = None
CHECK_DEADLOCK FALSE
INVARIANTS
    TypeOK
    KeptAreApart
    DroppedHaveABetter
    EnrolmentIsUnambiguous
    SearchTakesTheMostProminent
    ThumbnailShowsTheFace
    ScalesAlike
