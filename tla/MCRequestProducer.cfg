SPECIFICATION Spec
CONSTANTS
    Timers = {t1, t2, t3}
    Batch = 2
INVARIANTS
    ManualIsManual
PROPERTIES
    AutomaticGoesOn
CHECK_DEADLOCK FALSE
