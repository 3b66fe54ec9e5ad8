CONSTANTS
    MaxTicks = 3
    ErrBudget = 2
    Events <- MCEvents
    Devices = {"tun", "ovpn"}
    MaxEvents = 3
    MaxReadErrors = 1
    ProxyMayFail = TRUE
SPECIFICATION SafetySpec
INVARIANTS
    TypeOK
    Ip4ConfigOnce
    TaskFailureOnce
PROPERTIES
    TeardownIsSilent
    BlipTolerated
CHECK_DEADLOCK FALSE
