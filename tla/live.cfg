SPECIFICATION FairSpec
CONSTANTS
    m1 = m1
    m2 = m2
    alice = alice
    bob = bob
    Messages = {m1}
    Clients = {alice}
    Owner <- AliceOwns
    Procs = {p1}
    NoProc = NoProc
    Calls = {c1, c2}
    MaxAttempts = 2
    MaxStalls = 1
    MaxRequests = 1
    MaxFaults = 0
    MaxLapses = 0
    MaxCrashes = 2
PROPERTIES
    EventuallySettled
    JobsEnd
    ContentPurged
CHECK_DEADLOCK FALSE
