SPECIFICATION PerseveringSpec
CONSTANTS
    Creates = {"create1"}
    Destroys = {"destroy1", "destroy2"}
    Versions <- TwoVersions
    InitialResources <- AnythingThere
    InitialMarks <- EitherMark
    MaxFaults = 0
INVARIANTS
    NetworkGone
PROPERTIES
    DestroyConverges
CHECK_DEADLOCK FALSE
