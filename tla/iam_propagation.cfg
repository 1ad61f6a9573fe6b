SPECIFICATION Spec
CONSTANTS
    Clients = {"create1", "destroy1"}
    Creates = {"create1"}
    Destroys = {"destroy1"}
    Infras = {"i1"}
    InfraOf <- SameInfra
    Definitions <- OneDefinition
    RolesOf <- MCRolesOf
    SubjectsOf <- MCSubjectsOf
    Grants <- MCGrants
    Foreign <- AdminGrants
    InitialPools <- NoPool
    InitialProviders <- NoProvider
    Faults = {"permission", "unavailable"}
    MaxFaults = 1
    MaxWrites = 4
    MaxEdits = 2
PROPERTIES
    TransientErrorsAreRetried
CHECK_DEADLOCK FALSE
