SPECIFICATION FairSpec
CONSTANTS
    SlotsPerFrame = 2
    CounterRange = 8
    MaxOps = 7
    MaxFaultyOps = 5
    FaultSets = {{}, {"early_error"}, {"schedule", "early_error"}}
INVARIANTS TypeOK CounterInv NeverDeaf UplinkPending CancelHandshake
PROPERTIES SettlesInSilence
\* A PT gone deaf stops.
CHECK_DEADLOCK FALSE
