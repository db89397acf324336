CONSTANTS
    c1 = c1
    c2 = c2
    c3 = c3
    r1 = r1
    r2 = r2
    Calls = {c1, c2, c3}
    Routes = {r1, r2}
    RouteOf <- MCRouteOf
    Shard <- MCOneShard
    LaneOf <- MCLaneOf
    MaxMessages = 3
    MaxAcks = 2
    QueueCap = 2
    LaneCap = 2
    MaxGen = 3
    MaxQueues = 4
    MaxLeaves = 1
SPECIFICATION MCSpec
PROPERTY EverySendEnds
CHECK_DEADLOCK FALSE
