SPECIFICATION FairSpec
CONSTANTS
    Scripts <- AllCommands
    Faults = {"release", "rx_failure", "late", "refuse_wait", "refuse_associate", "unheard", "subscribe_error", "refuse_release"}
    MaxFaults = 1
    Carriers = {TRUE, FALSE}
    Prompt = TRUE
    QueueDepth = 3
    MaxRetries = 2
PROPERTIES ThreadsReturn
CHECK_DEADLOCK FALSE
