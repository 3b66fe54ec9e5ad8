CONSTANTS
    MaxTicks = 3
    ErrBudget = 2
    Events <- MCEvents
    Devices = {"tun", "ovpn"}
    MaxEvents = 3
    MaxReadErrors = 0
    ProxyMayFail = FALSE
SPECIFICATION SafetySpec
INVARIANTS
    FailureOncePerSession
CHECK_DEADLOCK FALSE
