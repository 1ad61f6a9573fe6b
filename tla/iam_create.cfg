SPECIFICATION PerseveringSpec
CONSTANTS
    Clients = {"create1", "create2"}
    Creates = {"create1", "create2"}
    Destroys = {}
    Infras = {"i1"}
    InfraOf <- SameInfra
    Definitions <- OneDefinition
    RolesOf <- MCRolesOf
    SubjectsOf <- MCSubjectsOf
    Grants <- MCGrants
    Foreign <- AdminGrants
    InitialPools <- AnyPool
    InitialProviders <- AnyProvider
    Faults = {"permission", "iamNotReady", "unavailable"}
    MaxFaults = 1
    MaxWrites = 6
    MaxEdits = 2
INVARIANTS
    TypeOK
PROPERTIES
    CreateConverges
CHECK_DEADLOCK FALSE
