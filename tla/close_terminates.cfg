SPECIFICATION FairSpec
CONSTANTS
      c1 = c1  c2 = c2
    Senders = {}
    Receivers = {}
    Closers = {c1, c2}
    Size <- UnitSize
    InboundSizes = {1}
    MaxQueue = 1
    MaxBufferedBytes = 1
    MaxMessageSize = 1
    ControlCapacity = 1
    PeerEvents = {"Normal"}
    MaxData = 0
    MaxPings = 0
    WriteFaults = TRUE
    MayAbandon = FALSE
    MayCancel = FALSE
PROPERTY CloseTerminates
CHECK_DEADLOCK FALSE
