SPECIFICATION Spec
CONSTANTS
    Commands = {c1, c2}
    Grants = {g1, g2}
    CommandLines <- GrantLines
    ReasonFlag = TRUE
    MaxCallbacks = 0
INVARIANTS
    TypeOK
    GateHeld
    VerdictsStand
    WaitsSettle
SYMMETRY Alike
CHECK_DEADLOCK FALSE
