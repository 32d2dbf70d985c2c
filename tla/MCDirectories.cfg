SPECIFICATION DirectoriesSpec
CONSTANTS
    Dirs <- MCDirs
    Entries <- MCEntries
    SizeOf <- MCSizeOf
    Depth <- MCDepth
    Clients = {c1, c2}
    Putters = {c1, c2, p1}
    BatchPutters = {p1}
    Readers = {c1, c2}
    One = c1
    Other = c2
    MaxStream = 3
    Threads = {t1, t2}
    Thread = t1
    Names <- MCNames
    Nodes <- MCNodes
    RootNames <- MCRootNames
    RootNode <- MCRootNode
    EntriesOf <- MCEntriesOf
    ChildNames <- MCChildNames
    MaxEntries = 5
    ChannelSize = 2
    ReplyCapacity = 2
INVARIANTS
    PutterNeverPanics
    StoreClosed
    StoredSizesAgree
    TraversalComplete
    ClosedMeansStored
    CacheSound
    InodesRight
    ListingRight
PROPERTIES
    SentRootToLeaves
    InodesStable
    DirectoriesAnswer
CHECK_DEADLOCK FALSE
