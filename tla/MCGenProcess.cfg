SPECIFICATION GenSpec
CONSTANTS
    Callers = {c1, c2}
    Kinds <- UntimedServer
    Handlers = {h1}
PROPERTIES
    EveryOperationReturns
CHECK_DEADLOCK FALSE
