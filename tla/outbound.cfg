SPECIFICATION Spec
CONSTANTS
    s1 = s1  s2 = s2  s3 = s3  c1 = c1
    Senders = {s1, s2, s3}
    Receivers = {}
    Closers = {c1}
    Size <- MixedSize
    InboundSizes = {1}
    MaxQueue = 1
    MaxBufferedBytes = 2
    MaxMessageSize = 2
    ControlCapacity = 1
    PeerEvents = {}
    MaxData = 0
    MaxPings = 0
    WriteFaults = TRUE
    MayAbandon = FALSE
    MayCancel = FALSE
SYMMETRY SmallSymmetry
INVARIANTS OutboundBudget WireTellsResults
CHECK_DEADLOCK FALSE
