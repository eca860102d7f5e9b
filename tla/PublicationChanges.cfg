SPECIFICATION Spec
CONSTANTS
    exact = exact
    global = global
    r1 = r1
    r2 = r2
    None = None
    Selectors = {exact, global}
    Specificity <- MCSpecificity
    Runs = {r1, r2}
    SelectorOf <- MCSelectorOf
    Commands = {c1, c2, c3}
    Callers = {k1, k2}
    Sessions = {s1}
    MaxCalls = 3
    MaxReviews = 2
SYMMETRY Symmetry
CHECK_DEADLOCK FALSE
INVARIANTS
    CatalogTrue
    AcceptedKeeps
PROPERTIES
    MovedOntoApproved
    RootBindsCurrent
