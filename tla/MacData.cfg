SPECIFICATION FairSpec
CONSTANTS
    PTs = {pt1}
    FT = ft
    None = none
    Lengths <- FewDatagrams
    AppDataLenMax = 2
    QueueDepth = 2
    Typed = {"FT", "SCAN", "STOP"}
    Faults = {"no_memory", "failed", "release"}
INVARIANTS TypeOK Backlog InOrder KnownPeers
PROPERTIES Forwarded
CHECK_DEADLOCK FALSE
