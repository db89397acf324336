SPECIFICATION PartSpec
CONSTANTS
    Id = {i1, i2}
    Task = {t1, t2}
    Registry = {r1}
    NoRegistry = NoRegistry
    MaxEnvironments = 1
    MaxGeneration = 4
    MaxProcs = 3
    Handles = {1}
    Names = {}
    RegistryCap = 1
    Dirs = {"sub", "etc"}
    Below <- MCBelow
    Root <- MCRoot
    Receiver <- MCReceiver
    Settings <- MCSettings
    MaxEdits = 3
    Distributed = TRUE
    StartCalls = FALSE
INVARIANTS
    LiveIsRegistered
    SlotsSafe
    Attenuation
    SpawnsSafe

    
CHECK_DEADLOCK FALSE
