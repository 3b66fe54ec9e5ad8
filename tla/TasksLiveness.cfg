CONSTANTS
    MaxTicks = 3
    ErrBudget = 2
    Events <- MCFewEvents
    Devices = {"tun"}
    MaxEvents = 2
    MaxReadErrors = 1
    ProxyMayFail = FALSE
SPECIFICATION Spec
PROPERTIES
    DeadSessionReported
    TerminalEndsStopped
    ActivationDecided
    StoppedIsExplained
    PollingEnds
CHECK_DEADLOCK FALSE
