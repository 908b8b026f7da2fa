SPECIFICATION BootFairSpec
CONSTANTS
    Ops = 120
    MaxEvents = 3
    Faults = {"beacon_error", "ul_error"}
    StartFaults = {"refused", "error"}
    ModemMcs = 4
    Typed = {0, 4, 5}
INVARIANTS BootTypeOK RadioReady DownlinkToCome
PROPERTIES ScheduleOrder FramesGoOn
