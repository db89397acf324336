SPECIFICATION PartSpec
CONSTANTS
    Proc <- ThreeProcesses
    ExitTag = {none, t1}
    NoTag = none
    LinkCapacity = 1
    MaxToken = 2
    Emitters = {e1}
    Flushers = {f1, f2}
    Capacity = 1
    MaxEvents = 1
    MaxFlushes = 2
    Callers = {c1, c2}
    Kinds <- MCKinds
    Handlers = {h1}
INVARIANTS
    NoDanglingLink
    NoMissedDeath
    UnlinkIsFinal
    RelationsExact
    ServersSafe
    FlushIsTrue
PROPERTIES
    LinkContractKept
    LinkProgress
    OperationsReturn
CHECK_DEADLOCK FALSE
