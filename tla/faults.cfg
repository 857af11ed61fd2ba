SPECIFICATION Spec
CONSTANTS
    m1 = m1
    m2 = m2
    alice = alice
    bob = bob
    Messages = {m1}
    Clients = {alice}
    Owner <- AliceOwns
    Procs = {p1, p2}
    NoProc = NoProc
    Calls = {c1, c2}
    MaxAttempts = 2
    MaxStalls = 1
    MaxRequests = 1
    MaxFaults = 1
    MaxLapses = 0
    MaxCrashes = 1
SYMMETRY Symmetric
INVARIANTS
    OneWorker
    NeverForgotten
    CopiesBounded
PROPERTIES
    Implements
    ImplementsReplicas
CHECK_DEADLOCK FALSE
