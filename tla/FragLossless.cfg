SPECIFICATION FairSpec
CONSTANTS
    MaxDatagrams = 3
    Sizes <- MCSizes
    SlotBytes <- MCSlotBytes
    Lossy = FALSE
    AllocFails = FALSE
INVARIANTS StreamInv IntactDelivery
PROPERTIES ImplementsPipe AllDelivered
