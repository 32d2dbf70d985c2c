SPECIFICATION Spec
CONSTANTS
    NameOrder <- MCNameOrder
    HashesSortLikeNames = TRUE
    HostFiles <- MCHostFiles
    Clients = {e1, e2}
    MAX_CONCURRENT_BUILDS = 1
    Naming <- EveryNaming
    Workloads <- MCWorkloads
    Dictionary <- MCDictionary
    e1 = e1
    e2 = e2
    Served <- MCServed
    MaxFaults = 1
    MaxRestarts = 1
INVARIANTS StoreSound SandboxRight
PROPERTIES PathsStable RequestsEnd
CHECK_DEADLOCK FALSE
