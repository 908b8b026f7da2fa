SPECIFICATION Spec
CONSTANTS
    S = 3
    HalfH = 30
    L = 1
    Ops = 4
    FtDelays <- MCFtDelays
    PtDelays <- MCPtDelays
    MaxFrames = 5
INVARIANTS TypeOK SlotsAgree Spaced Aligned
PROPERTIES StaysInSync
\* The bound on frames stops the model.
CHECK_DEADLOCK FALSE
