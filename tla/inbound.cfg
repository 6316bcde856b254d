SPECIFICATION Spec
CONSTANTS
    r1 = r1  r2 = r2    c1 = c1
    Senders = {}
    Receivers = {r1, r2}
    Closers = {c1}
    Size <- UnitSize
    InboundSizes = {1, 2}
    MaxQueue = 1
    MaxBufferedBytes = 2
    MaxMessageSize = 2
    ControlCapacity = 1
    PeerEvents = {}
    MaxData = 3
    MaxPings = 1
    WriteFaults = FALSE
    MayAbandon = FALSE
    MayCancel = TRUE
SYMMETRY Symmetry
INVARIANTS InboundBudget InboundInOrder OneReceiver
PROPERTIES ImplementsNativeReceive
CHECK_DEADLOCK FALSE
