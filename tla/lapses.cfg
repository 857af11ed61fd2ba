SPECIFICATION Spec
CONSTANTS
    m1 = m1
    m2 = m2
    alice = alice
    bob = bob
    Messages = {m1}
    Clients = {alice, bob}
    Owner <- AliceOwns
    Procs = {p1, p2}
    NoProc = NoProc
    Calls = {c1, c2, c3}
    MaxAttempts = 2
    MaxStalls = 1
    MaxRequests = 1
    MaxFaults = 0
    MaxLapses = 1
    MaxCrashes = 0
SYMMETRY Symmetric
INVARIANTS
    CompletedMeansDelivered
    ContentKept
    RecordInv
    OnlyTheOwner
CHECK_DEADLOCK FALSE
