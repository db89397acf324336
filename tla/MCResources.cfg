SPECIFICATION PartSpec
CONSTANTS
    Env = {e1, e2}
    Spawner = {p1, p2, p3}
    EnvLimit = 2
    NodeLimit = 2
    Ids = {1, 2, 3}
    Capacity = 2
    Delays = {0, 1}
    MaxTime = 2
    Procs = {"a", "b"}
    MaxRefs = 3
    MaxSecrets = 3
INVARIANTS
    NothingLeaks
    AdmissionSafe
    HandlesExact
    CredentialsSafe
PROPERTIES
    OnlyOwnerCloses
    TimersExact
CHECK_DEADLOCK FALSE
