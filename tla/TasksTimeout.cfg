CONSTANTS
    MaxTicks = 3
    ErrBudget = 2
    Events <- MCEvents
    Devices = {"tun"}
    MaxEvents = 3
    MaxReadErrors = 0
    ProxyMayFail = FALSE
SPECIFICATION SafetySpec
PROPERTIES
    CapSparesStarted
CHECK_DEADLOCK FALSE
