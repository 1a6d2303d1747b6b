SPECIFICATION Spec
CONSTANTS
    NoToken = NoToken
    NoPlan = NoPlan
    Legacy = Legacy
    w1 = w1
    w2 = w2
    k1 = k1
    k2 = k2
    k3 = k3
    atomic = atomic
    short = short
    long = long
    TabletCount <- MCTabletCount
    Worker = {w1, w2}
    Token = {k1, k2, k3}
    Plan = {atomic, short, long}
    MaxTablets = 2
    MaxSequence = 2
    RetainPublications = 1
    MaxFaults = 2
SYMMETRY MCSymmetry
CHECK_DEADLOCK FALSE
INVARIANT TypeOK
INVARIANT PublishedComplete
INVARIANT SingleOwner
INVARIANT HeadClaimable
INVARIANT ProcessedMeansVisible
PROPERTY Implements
INVARIANT StageLifecycle
