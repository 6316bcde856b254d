SPECIFICATION FairSpec
CONSTANTS
    s1 = s1  c1 = c1
    Senders = {s1}
    Receivers = {}
    Closers = {c1}
    Size <- UnitSize
    InboundSizes = {1}
    MaxQueue = 1
    MaxBufferedBytes = 1
    MaxMessageSize = 1
    ControlCapacity = 1
    PeerEvents = {"Normal"}
    MaxData = 0
    MaxPings = 0
    WriteFaults = FALSE
    MayAbandon = FALSE
    MayCancel = FALSE
PROPERTY AdmittedSendResolves
CHECK_DEADLOCK FALSE
