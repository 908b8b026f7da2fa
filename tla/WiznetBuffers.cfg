SPECIFICATION RingFairSpec
CONSTANTS
    MaxTx = 3
    MaxRx = 3
    Rearms = TRUE
    Faults = {"malloc", "spi_write", "bad_header"}
    MemSize = 8
    PtrMod = 8
    TxLen <- TxSizes
    RxLen <- RxSizes
INVARIANTS TypeOK NoLostInterrupt ChipNotOverrun FramesIntact DatagramsIntact
PROPERTIES StartedTxProgress FramesTaken
\* With its bounds on datagrams and frames used up the driver is idle.
CHECK_DEADLOCK FALSE
