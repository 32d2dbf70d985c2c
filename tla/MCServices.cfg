SPECIFICATION MCSpec
CONSTANTS
    Parts = {"remote", "composition", "bridge"}
    Dirs <- MCDirs
    Entries <- MCEntries
    SizeOf <- MCSizeOf
    Depth <- MCDepth
    Uploaders = {c1}
    Putters = {c1}
    BatchPutters = {}
    Readers = {r1}
    MaxPuts = 3
    Stores <- MCStores
    Threads = {"t1", "t2"}
    Scenarios <- MCScenarios
    Users = {"up", "other", "reader"}
    NarSizes <- MCNarSizes
    ServerKey = "server"
    RootNodesCapacity = 1
    NearCapacity = 1
    CellRefs = 1
    MaxFaults = 1
    MaxRestarts_ = 1
    Setups <- MCSetups
CHECK_DEADLOCK FALSE
INVARIANTS
    UploadMeansStored
    DownloadComplete
    AcknowledgedIsServed
    DownloadsVerified
    CacheConsistent
PROPERTIES
    InstancesShared
    CallsReturn
