SPECIFICATION FairSpec
CONSTANTS
    MaxTx = 1
    MaxRx = 2
    Rearms = TRUE
    Faults = {"bad_header"}
PROPERTIES BadFrameDropped
\* With its bounds on datagrams and frames used up the driver is idle.
CHECK_DEADLOCK FALSE
