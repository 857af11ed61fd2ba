SPECIFICATION Spec
CONSTANTS
    m1 = m1
    m2 = m2
    alice = alice
    bob = bob
    Messages = {m1}
    Clients = {alice}
    Owner <- AliceOwns
    Procs = {p1}
    NoProc = NoProc
    Calls = {c1, c2, c3}
    MaxAttempts = 2
    MaxStalls = 0
    MaxRequests = 2
    MaxFaults = 0
    MaxLapses = 0
    MaxCrashes = 0
SYMMETRY Symmetric
INVARIANTS
    TypeOK
    HistoriesAgree
    SentOnce
    WorkHasContent
PROPERTIES
    CancelledIsNotSent
CHECK_DEADLOCK FALSE
