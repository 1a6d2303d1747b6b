SPECIFICATION RetrievalSpec
CONSTANTS
    s1 = s1
    s2 = s2
    k1 = k1
    k2 = k2
    r1 = r1
    r2 = r2
    r3 = r3
    r4 = r4
    q1 = q1
    q2 = q2
    b1 = b1
    b2 = b2
    None = None
    Doc = {1, 2}
    Session <- SessionOf
    BatchSize = 1
    PageSize = 1
    Others = 1
    ScanLimit = 2
    MaxCrashes = 1
\* Every part has its bounds, and nothing may be left to do.
CHECK_DEADLOCK FALSE
INVARIANT IndexesExact
INVARIANT AnswersSound
INVARIANT SemanticSound
INVARIANT RedactionFinal
PROPERTY FrozenRightly
