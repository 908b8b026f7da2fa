SPECIFICATION Spec
CONSTANTS
    MaxDatagrams = 3
    Sizes <- MCLossySizes
    SlotBytes <- MCLossySlotBytes
    Lossy = TRUE
    AllocFails = FALSE
INVARIANTS CompletesExactly
