SPECIFICATION FairSpec
CONSTANTS
    s1 = s1  r1 = r1
    Senders = {s1}
    Receivers = {r1}
    Closers = {}
    Size <- UnitSize
    InboundSizes = {1}
    MaxQueue = 1
    MaxBufferedBytes = 1
    MaxMessageSize = 1
    ControlCapacity = 1
    PeerEvents = {"End"}
    MaxData = 1
    MaxPings = 0
    WriteFaults = TRUE
    MayAbandon = TRUE
    MayCancel = TRUE
INVARIANTS FlowInv OneOutcome NoFallbackOutcome
PROPERTIES ReceiveEnds
CHECK_DEADLOCK FALSE
