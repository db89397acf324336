SPECIFICATION PartSpec
CONSTANTS
    a = a
    b = b
    c = c
    p1 = p1
    p2 = p2
    p3 = p3
    NoPid = NoPid
    Name <- ThreeNames
    Pid <- ThreePids
    Node <- TwoNodes
    NodeOf <- Homes
    Size <- Sizes
    MaxEntries = 3
    MaxBytes = 9
    Nodes = {1, 2, 3}
    GlobalName = {"a"}
    GlobalPid = {11, 21}
    NoOwner = 0
    HomeOf <- MCHomeOf
    Stripe <- OneStripe
    MaxGlobal = 1
    MaxPending = 4
    MaxRequests = 2
    MaxRemovals = 1
    MaxExits = 0
    Syncing = {}
    Clients = {1}
    MaxQueries = 1
    MaxTokens = 3
    MaxControlRequests = 5
INVARIANTS
    NamesExact
    
    ControlSafe
CHECK_DEADLOCK FALSE
