CONSTANTS
    Sessions = {s1}
    Names = {"username", "password"}
    Calls = {n1}
    Settings <- MCSettings
    None = None
    MaxSignals = 1
SPECIFICATION Spec
PROPERTIES
    PromptSettled
CHECK_DEADLOCK FALSE
