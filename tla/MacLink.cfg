SPECIFICATION FairSpec
CONSTANTS
    Scripts <- OnePt
    Faults = {"release", "rx_failure", "no_response", "rejected", "refuse_scan", "refuse_subscribe", "status"}
    MaxFaults = 7
    Carriers = {TRUE, FALSE}
    Prompt = TRUE
    QueueDepth = 5
    MaxRetries = 3
INVARIANTS TypeOK
PROPERTIES OneAssociation LinkRecovers
CHECK_DEADLOCK FALSE
