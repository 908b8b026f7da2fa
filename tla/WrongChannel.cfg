SPECIFICATION FairSpec
CONSTANTS
    Scripts <- OnePt
    Faults = {"release", "rx_failure", "no_response", "rejected", "refuse_scan", "refuse_subscribe", "status"}
    MaxFaults = 2
    Carriers = {FALSE}
    Prompt = TRUE
    QueueDepth = 5
    MaxRetries = 3
INVARIANTS RecoversOnChannel

CHECK_DEADLOCK FALSE
