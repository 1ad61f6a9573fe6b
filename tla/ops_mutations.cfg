SPECIFICATION Spec
CONSTANTS
    Commands = {c1, c2}
    Grants = {g1}
    CommandLines <- MutatorLines
    ReasonFlag = FALSE
    MaxCallbacks = 0
INVARIANTS
    MutationsReported
CHECK_DEADLOCK FALSE
