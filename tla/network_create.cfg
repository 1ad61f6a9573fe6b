SPECIFICATION FairSpec
CONSTANTS
    Creates = {"create1", "create2"}
    Destroys = {}
    Versions <- MCVersions
    InitialResources <- AnythingThere
    InitialMarks <- EitherMark
    MaxFaults = 2
INVARIANTS
    TypeOK
    NetworkDelivers
PROPERTIES
    WorkersConnected
CHECK_DEADLOCK FALSE
