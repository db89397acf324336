CONSTANTS
  Nodes = {1, 2, 3}
  GlobalName = {a}
  GlobalPid = {21}
  NoOwner = NoOwner
  HomeOf <- MCHomeOf
  Stripe <- MCStripe
  MaxGlobal = 1
  MaxPending = 4
  MaxRequests = 2
  MaxRemovals = 1
  MaxExits = 1
  Syncing = {}
SPECIFICATION CoordSpec
INVARIANT CleanupProved
CHECK_DEADLOCK FALSE
