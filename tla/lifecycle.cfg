SPECIFICATION FairSpec
CONSTANTS
    Probes = {q1, q2}
    MaxTroubles = 1
INVARIANTS
    TypeOK
    ServingMeansAttached
    PoolOutlivesJobs
    ExitCodeTells
PROPERTIES
    ImplementsReplica
    ShutdownExits
    OutageExits
    CalmServes
CHECK_DEADLOCK FALSE
