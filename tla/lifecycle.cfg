SPECIFICATION Spec
CONSTANTS
    c1 = c1  c2 = c2  s1 = s1  r1 = r1
    Senders = {}
    Receivers = {}
    Closers = {c1, c2}
    Size <- UnitSize
    InboundSizes = {1}
    MaxQueue = 1
    MaxBufferedBytes = 1
    MaxMessageSize = 1
    ControlCapacity = 1
    PeerEvents = {"Normal", "End", "Error"}
    MaxData = 0
    MaxPings = 0
    WriteFaults = TRUE
    MayAbandon = TRUE
    MayCancel = FALSE
SYMMETRY Symmetry
INVARIANTS TypeOK RemoteCloseIsRemote WakeInv EndsAfterOutcome CloseReturnsAfterCleanup OutcomeInv CleanupInv
PROPERTIES OutcomeKept ImplementsLifecycle
CHECK_DEADLOCK FALSE
