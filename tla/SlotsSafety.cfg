CONSTANTS
    Sessions = {s1, s2}
    Names = {"username", "password"}
    Calls = {n1, n2}
    Settings <- MCSettings
    None = None
    MaxSignals = 1
SPECIFICATION SafetySpec
SYMMETRY Symmetry
INVARIANTS
    TypeOK
    PromptsAccounted
    SecretsNeedSession
CHECK_DEADLOCK FALSE
