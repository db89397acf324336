SPECIFICATION PartSpec
CONSTANTS
    N = 2
    Window = 1
    Life = 1
    Ttl = 3
    Capacities = {1, 2}
    MaxTries = 2
    Calls = {"c1", "c2", "c3"}
    Routes = {"r1", "r2"}
    RouteOf <- MCRouteOf
    Shard <- MCShard
    LaneOf <- MCLaneOf
    MaxMessages = 3
    MaxAcks = 2
    QueueCap = 2
    LaneCap = 2
    MaxGen = 3
    MaxQueues = 4
    MaxLeaves = 1
    Bad = "bad"
    Peers = {"p1"}
    CertEnvs <- MCCertEnvs
    Envs = {"e1", "e2", "e3"}
    ServerEnvs = {"e2", "e3"}
    Streams = {1, 2}
    Ids = {"i1", "i2"}
    MaxSize = 2
    MaxConnections = 1
    MaxStreams = 2
    MaxInFlight = 2
    MaxBytes = 4
    Timeout = 2
INVARIANTS
    AtMostOnce
    DeliverySafe
    RoutesSafe
    
PROPERTIES
    
    
    StreamCallsReturn
CHECK_DEADLOCK FALSE
