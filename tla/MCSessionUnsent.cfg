SPECIFICATION Spec
CONSTANTS
    MaxTurns = 3
    Large = {2}
    RetainTurns = 1
    RotationTurns = 2
    TocMax = 1
    Hint = {"h1"}
    AutomaticRetrieval = FALSE
    MaxFaults = 1
    MaxCrashes = 1
CHECK_DEADLOCK FALSE
PROPERTY SentIsDurable
