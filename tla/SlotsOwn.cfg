CONSTANTS
    Sessions = {s1, s2}
    Names = {"username", "password"}
    Calls = {n1}
    Settings <- MCSettings
    None = None
    MaxSignals = 1
SPECIFICATION SafetySpec
INVARIANTS
    OwnPromptsOnly
CHECK_DEADLOCK FALSE
