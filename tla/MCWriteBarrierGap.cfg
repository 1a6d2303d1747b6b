SPECIFICATION Spec
CONSTANTS
    Task = {t1, t2, t3, t4}
    None = None
CHECK_DEADLOCK FALSE
INVARIANT WritesExcluded
