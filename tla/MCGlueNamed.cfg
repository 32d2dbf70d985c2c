SPECIFICATION Spec
CONSTANTS
    NameOrder <- MCNameOrder
    HashesSortLikeNames = TRUE
    HostFiles <- MCHostFiles
    Clients = {e1, e2}
    MAX_CONCURRENT_BUILDS = 1
    Naming <- OnlyNamed
    Workloads <- OneBuild
    Dictionary <- MCDictionary
    e1 = e1
    e2 = e2
    Served <- MCServed
    MaxFaults = 0
    MaxRestarts = 0
INVARIANT BuildGivesNode

CHECK_DEADLOCK FALSE
