CONSTANTS
    Connects = {c1, c2}
    Disconnects = {d1, d2}
    None = None
    Persist = FALSE
    Signals = FALSE
    Reports = {"Starting", "Stopped"}
SPECIFICATION Spec
INVARIANTS
    TypeOK
    SessionsAccounted
    ConfigsAccounted
    TasksOwned
    NotStuckStarting
PROPERTIES
    SilentAbortHasOwner
    DisconnectLeavesNothing
    CallsAreAtomic
    OnlyOpenVpn3Blocks
CHECK_DEADLOCK FALSE
