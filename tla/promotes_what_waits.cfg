SPECIFICATION Spec
CONSTANTS
    Messages = {m1}
    Trxns = {t1}
    Clients = {alice}
    Tags = {news}
    MaxNamed = 1
    MaxWithOdd = 1
INVARIANTS
    PromotesWhatWaits
CHECK_DEADLOCK FALSE
