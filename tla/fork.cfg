SPECIFICATION FairSpec
CONSTANTS
    p1 = p1  p2 = p2  p3 = p3    n1 = n1  n2 = n2  n3 = n3
    Processes = {p1, p2}
    Main = p1
    NoProcess = NoProcess
    Pids = {n1, n2}
    NoPid = NoPid
    Connections = {c1}
    MayRecycle = FALSE
INVARIANTS TypeOK Quarantine FailsClosed NoOrphan OwnerInv
PROPERTIES UnwantedConnectEnds
CHECK_DEADLOCK FALSE
