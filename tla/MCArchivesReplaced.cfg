SPECIFICATION MCSpec
CONSTANTS
    Parts = {"archive"}
    Paths <- MCPaths
    Root = "r"
    Parent <- MCParent
    DirPaths <- MCDirPaths
    Orders <- MCOrders
    SizeOf <- MCSizeOf
    Threshold = 3
    MaxBuffer = 2
    Items <- ReplacedDirectories
    MaxAdds = 9
    Block = 4
    Packets <- MCPackets
    Chunks = {1, 2}
    Bufs = {1, 3}
    MaxWire = 1
    PadTo = 2
    NarModes = {"sync", "async"}
    Strings = {1, 2}
    FileBytes = {1}
    MaxInput = 18
    Trees <- MCTrees
    Roots <- MCRoots
    DirsOf <- MCDirsOf
    BlobOf <- MCBlobOf
    ReadSizes = {1, 4}
    SeekTargets <- MCSeeks
    MaxCalls = 4
    MaxBlobFaults = 1
CHECK_DEADLOCK FALSE
INVARIANT StreamLegal
