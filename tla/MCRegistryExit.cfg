SPECIFICATION CoordSpec
CONSTANTS
    Nodes = {1, 2}
    GlobalName = {a}
    GlobalPid = {21}
    NoOwner = NoOwner
    HomeOf <- MCHomeOf
    Stripe <- MCStripe
    MaxGlobal = 1
    MaxPending = 4
    MaxRequests = 1
    MaxRemovals = 0
    MaxExits = 1
    Syncing = {}
INVARIANT
    ExitSchedulesCleanup
CHECK_DEADLOCK FALSE
