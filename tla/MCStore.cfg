SPECIFICATION StoreSpec
CONSTANTS
    Task = {t1, t2, t3, t4}
    None = None
    w1 = w1
    w2 = w2
    k1 = k1
    k2 = k2
    short = short
    long = long
    Legacy = Legacy
CHECK_DEADLOCK FALSE
INVARIANT TypeOK
INVARIANT LeaseExclusion
INVARIANT NoLostWakeup
PROPERTY NoOvertaking
PROPERTY EveryCallReturns
PROPERTY EventuallyPublished
