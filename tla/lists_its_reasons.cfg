SPECIFICATION SubmissionSpec
CONSTANTS
    Messages = {m1, m2}
    Trxns = {t1, t2}
    Clients = {alice, bob}
    Tags = {news}
    MaxNamed = 2
    MaxWithOdd = 1
    NoClient = NoClient
    Addresses = {"minister", "citizen"}
    GovAddresses = {"minister"}
    Strings <- MCStrings
    Names = {"name"}
    renderString <- MCRender
    Posts <- FollowedPosts
    Clock = {1, 2}
    MaxDate = 2
INVARIANT ListsItsReasons
CHECK_DEADLOCK FALSE
