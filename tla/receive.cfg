SPECIFICATION FairSpec
CONSTANTS
    w1 = w1  w2 = w2    r1 = r1  r2 = r2
    Waiters = {w1, w2}
    Receivers = {r1, r2}
    NoReceive = NoReceive
    Outcomes <- PeerOutcomes
    MaxData = 2
    MayDiscard = TRUE
    MayCancelNative = TRUE
INVARIANTS TypeOK FlagHasOwner Lossless NativeNeverRefuses AbandonedIsSilent ReceiveInv
PROPERTIES ReceiveReturns DropReleases
CHECK_DEADLOCK FALSE
