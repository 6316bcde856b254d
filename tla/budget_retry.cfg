SPECIFICATION Spec
CONSTANTS
    s1 = s1  s2 = s2
    Senders = {s1, s2}
    Receivers = {}
    Closers = {}
    Size <- UnitSize
    InboundSizes = {1}
    MaxQueue = 1
    MaxBufferedBytes = 1
    MaxMessageSize = 1
    ControlCapacity = 1
    PeerEvents = {}
    MaxData = 0
    MaxPings = 0
    WriteFaults = FALSE
    MayAbandon = FALSE
    MayCancel = FALSE
PROPERTY BudgetRefusalJustified
CHECK_DEADLOCK FALSE
