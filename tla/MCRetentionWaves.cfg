SPECIFICATION WavesSpec
CONSTANTS
    a = a
    b = b
    k = k
    m = m
    s = s
    c1 = c1
    c2 = c2
    r1 = r1
    r2 = r2
    Doc = {a, b}
    Payload = {k, m}
    Session = {s}
    Manifest <- MCVersions
    PhaseOf <- MCPhaseOf
    Client = {c1}
    Runner = {r1, r2}
    Operations = {"due"}
    DaemonPublishes = FALSE
    Ttl = 1
    MaxTime = 1
    MaxGeneration = 1
    StepsPerWave = 3
    MaxRestarts = 1
    None = None
CHECK_DEADLOCK FALSE
INVARIANT OwnersAgree
PROPERTY ProtectedStay
PROPERTY DeletionOrdered
