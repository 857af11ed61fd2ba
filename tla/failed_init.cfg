SPECIFICATION Spec
CONSTANTS
    Probes = {q1}
    MaxTroubles = 0
PROPERTIES
    FailedInitNeverServes
CHECK_DEADLOCK FALSE
