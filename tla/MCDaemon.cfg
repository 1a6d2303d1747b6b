SPECIFICATION DaemonSpec
CONSTANTS
    r1 = r1
    r2 = r2
    k1 = k1
    k2 = k2
    x = x
    y = y
    a1 = a1
    q1 = q1
    q2 = q2
    e1 = e1
    e2 = e2
    None = None
    Request = {r1, r2}
    ForegroundWaves = 1
    MaxBacklog = 1
    MaxFaults = 1
\* The daemon may be closed for good, and nothing may be left to do.
CHECK_DEADLOCK FALSE
INVARIANT IndexingAttended
INVARIANT MaintenanceRemembers
INVARIANT ServerSound
INVARIANT DerivedViewSound
INVARIANT HandoverSound
PROPERTY NoWayBack
