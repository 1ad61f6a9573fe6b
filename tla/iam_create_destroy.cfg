SPECIFICATION LeftoversSpec
CONSTANTS
    Clients = {"create1", "destroy1"}
    Creates = {"create1"}
    Destroys = {"destroy1"}
    Infras = {"i1"}
    InfraOf <- SameInfra
    Definitions <- TwoDefinitions
    RolesOf <- MCRolesOf
    SubjectsOf <- MCSubjectsOf
    Grants <- MCGrants
    Foreign <- AdminGrants
    InitialPools <- SomePools
    InitialProviders <- SomeProviders
    Faults = {"permission", "iamNotReady"}
    MaxFaults = 1
    MaxWrites = 3
    MaxEdits = 1
INVARIANTS
    CreateDelivers
    DestroyDelivers
PROPERTIES
    GetModifySetIsAtomic
    ReverseOrder
    RunsEnd
CHECK_DEADLOCK FALSE
