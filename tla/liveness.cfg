SPECIFICATION FairSpec
CONSTANTS
    c1 = c1  r1 = r1
    Senders = {}
    Receivers = {r1}
    Closers = {c1}
    Size <- UnitSize
    InboundSizes = {1}
    MaxQueue = 1
    MaxBufferedBytes = 1
    MaxMessageSize = 1
    ControlCapacity = 1
    PeerEvents = {"Normal", "End"}
    MaxData = 0
    MaxPings = 0
    WriteFaults = TRUE
    MayAbandon = FALSE
    MayCancel = TRUE
PROPERTIES ClosingEnds TasksEnd ReceiveEnds
CHECK_DEADLOCK FALSE
