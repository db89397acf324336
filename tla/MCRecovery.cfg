SPECIFICATION PartSpec
CONSTANTS
    Process = {p1, p2}
    MaxVersion = 3
    N = 2
    Policy <- MCPolicy
    Patient = {2}
    Strategies = {"OneForOne", "OneForAll", "RestForOne"}
    MaxRestarts = 3
    MaxSeconds = 1
    MaxProcs = 5
    MaxTime = 2
INVARIANTS
    ReloadSafe
    RestartsSafe
PROPERTIES
    
    PermanentRevived
    NamesRepaired
CHECK_DEADLOCK FALSE
