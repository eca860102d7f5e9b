CONSTANTS
    Solutions = {s}
    Drafts = {d}
    Judges = {j}
    Commands = {c1, c2, c3}
    Callers = {k1, k2}
    Contents = {x}
    Existing = {j}
    Earlier = earlier
    Original = original
    MaxCalls = 4
    MaxRevision = 2
    None = None
SPECIFICATION Spec
SYMMETRY Symmetry
CHECK_DEADLOCK FALSE
INVARIANTS
    CommandsFaithful
    NoLostEdit
    PreparedAsSaved
