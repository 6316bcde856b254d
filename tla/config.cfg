SPECIFICATION Spec
CONSTANTS
    U16Max = 255
    U32Max = 511
    UsizeMax = 4095
    DefaultQueue = 4
    DefaultMessageSize = 256
    DefaultBufferedBytes = 256
    Arguments <- Boundaries
    Omitted = Omitted
INVARIANTS TypeOK RunsWithoutPanic EveryFrameFits
CHECK_DEADLOCK FALSE
