SPECIFICATION Spec
CONSTANTS
    m1 = m1
    m2 = m2
    alice = alice
    bob = bob
    Messages = {m1}
    Clients = {alice}
    Owner <- AliceOwns
    Procs = {p1}
    NoProc = NoProc
    Calls = {c1, c2}
    MaxAttempts = 2
    MaxStalls = 1
    MaxRequests = 0
    MaxFaults = 0
    MaxLapses = 0
    MaxCrashes = 0
SYMMETRY Symmetric
PROPERTIES
    CompletedIsTerminal
CHECK_DEADLOCK FALSE
