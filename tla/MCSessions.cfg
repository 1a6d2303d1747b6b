SPECIFICATION SessionsSpec
CONSTANTS
    x = x
    y = y
    z = z
    h1 = h1
    h2 = h2
    w1 = w1
    w2 = w2
    p0 = p0
    p1 = p1
    None = None
    MaxTurns = 3
    Large = {3}
    RetainTurns = 1
    RotationTurns = 2
    TocMax = 1
    Hint = {h1, h2}
    AutomaticRetrieval = TRUE
    MaxFaults = 1
    MaxCrashes = 1
SYMMETRY Sym
\* Every part has its bounds, and nothing may be left to do.
CHECK_DEADLOCK FALSE
INVARIANT NothingForgotten
INVARIANT ArchiveKept
INVARIANT CallsSound
PROPERTY NothingTakenBack
