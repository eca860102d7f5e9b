SPECIFICATION Spec
CONSTANTS
    None = None
    Runs = {a, b}
    Existing = {a}
    Inputs = {i, j}
    Callers = {k1, k2}
    ActiveLimits = {1, 2}
    DailyLimits = {1, 2}
    Limits <- MCLimits
    Default <- MCDefault
    Ceiling <- MCCeiling
    Lowered <- MCLowered
    Cost = 1
    LastDay = 2
    MaxCalls = 3
    MaxVersion = 4
    MaxRevision = 2
    QuotaCommands = {q1, q2}
SYMMETRY Symmetry
CHECK_DEADLOCK FALSE
INVARIANTS
    RequestsFaithful
PROPERTIES
    KeepsLedger
