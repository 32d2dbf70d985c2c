SPECIFICATION Spec
CONSTANTS
    c1 = c1
    c2 = c2
    Chunks = {c1, c2}
    Blobs <- MCBlobSet
    Writers = {w1, w2}
    Readers = {r1}
    Threads = {t1, t2}
    Layouts <- MCLayouts
    MaxSize = 3
    MaxRequests = 2
    Nodes = {1, 2, 3, 4}
    ChildLists <- MCChildLists
    ObjectPutters = {o1, o2}
    ObjectReaders = {s1}
INVARIANTS
    IndexComplete
    ReadComplete
    ReadExactUnlessFailed
    ClosureReadsBack
CHECK_DEADLOCK FALSE
