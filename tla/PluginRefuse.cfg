CONSTANTS
    Connects = {c1, c2}
    Disconnects = {d1}
    None = None
    Persist = TRUE
    Signals = FALSE
    Reports = {"Starting", "Started"}
SPECIFICATION SafetySpec
INVARIANTS
    LiveSessionNotStopped
CHECK_DEADLOCK FALSE
