SPECIFICATION Spec
CONSTANTS
    m1 = m1
    m2 = m2
    alice = alice
    bob = bob
    Messages = {m1, m2}
    Clients = {alice}
    Owner <- AliceOwns
    Procs = {p1}
    NoProc = NoProc
    Calls = {c1, c2, c3}
    MaxAttempts = 1
    MaxStalls = 1
    MaxRequests = 1
    MaxFaults = 0
    MaxLapses = 0
    MaxCrashes = 0
SYMMETRY Symmetric
INVARIANTS
    NeverForgotten
CHECK_DEADLOCK FALSE
