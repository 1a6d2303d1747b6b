SPECIFICATION LiveFairSpec
CONSTANTS
    w1 = w1
    k1 = k1
    k2 = k2
    a = a
    b = b
    s = s
    c1 = c1
    r1 = r1
    x = x
    y = y
    m1 = m1
    m2 = m2
    Doc = {a, b}
    Payload = {k1, k2}
    Session = {s}
    Manifest <- Versions
    PhaseOf <- LivePhaseOf
    Client = {c1}
    Runner = {w1}
    Operations = {"due"}
    DaemonPublishes = TRUE
    Ttl = 1
    MaxTime = 1
    MaxGeneration = 1
    StepsPerWave = 4
    MaxRestarts = 2
    None = None
\* Every part has its bounds, and nothing may be left to do.
CHECK_DEADLOCK FALSE
INVARIANT WaysBackKept
PROPERTY Reclaimed
PROPERTY DaemonProgresses
