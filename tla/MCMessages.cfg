SPECIFICATION PartSpec
CONSTANTS
    Sender = {s1, s2}
    SignalCapacity = 2
    MailCapacity = 2
    ObserverCapacity = 2
    Tag = {t1, t2}
    NoTag = NoTag
    Capacity = 3
    MaxMessages = 4
    DirectPush = FALSE
INVARIANTS
    PermitsConserved
    
    NoStrandedMessage
PROPERTIES
    KillTakesEffect
    ImplementsSelectiveReceive
