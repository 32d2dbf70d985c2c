--------------------------- MODULE MCDirectories ----------------------------
(* Directories, stored and mounted: a backend with its putters and readers, *)
(* the Cache in front of one, the handlers of the filesystem over a root    *)
(* with a directory (of a file and an empty directory) and the same file    *)
(* again, executable there, and one directory handle read to its end.  They *)
(* share no state; each behaviour runs one of them.                         *)
EXTENDS DirectoryCache, FuseFs, FuseListing

CONSTANTS
    One, Other,   \* the clients; Other asks for all of "top"
    Thread        \* one of the threads

-----------------------------------------------------------------------------
(* Four directories: a leaf, a parent of it, a root referring to both (the *)
(* leaf is shared), and a directory announcing a wrong size for the leaf.  *)
MCDirs == {"leaf", "mid", "top", "bad"}

Ref(d, n) == [digest |-> d, size |-> n]

MCEntries ==
    [d \in MCDirs |->
        CASE d = "leaf" -> <<>>
          [] d = "mid"  -> <<Ref("leaf", 0)>>
          [] d = "top"  -> <<Ref("leaf", 0), Ref("mid", 1)>>
          [] d = "bad"  -> <<Ref("mid", 1), Ref("leaf", 5)>>]

MCSizeOf ==
    [d \in MCDirs |-> CASE d = "leaf" -> 0 [] d = "mid" -> 1 [] d = "top" -> 3 [] d = "bad" -> 8]

MCDepth ==
    [d \in MCDirs |-> CASE d = "leaf" -> 2 [] d = "mid" -> 1 [] d = "top" -> 0 [] d = "bad" -> 0]

-----------------------------------------------------------------------------
(* The mount. *)
MCRootNames == <<"dir", "tool">>

MCRootNode == [n \in {"dir", "tool"} |->
    IF n = "dir" THEN Node("directory", "D", FALSE) ELSE Node("file", "F", TRUE)]

MCEntriesOf == [c \in {"D", "E"} |->
    IF c = "E" THEN <<>>
    ELSE <<[name |-> "data", node |-> Node("file", "F", FALSE)],
           [name |-> "empty", node |-> Node("directory", "E", FALSE)]>>]

MCNames == {"dir", "tool", "data", "empty"}

MCNodes == {MCRootNode[n] : n \in {"dir", "tool"}} \cup {MCEntriesOf["D"][i].node : i \in {1, 2}}

MCChildNames == {"data", "no such name"}

-----------------------------------------------------------------------------
VARIABLE about   \* what the behaviour is about

all == <<allvars, fsvars, lvars, about>>

Service == about = "service" /\ UNCHANGED <<cvars, fsvars, lvars, about>>
Cache == about = "cache" /\ UNCHANGED <<fsvars, lvars, about>>
Handlers == about = "handlers" /\ UNCHANGED <<allvars, lvars, about>>
Listing == about = "listing" /\ UNCHANGED <<allvars, fsvars, about>>

DirectoriesInit ==
    /\ about \in {"service", "cache", "handlers", "listing"}
    /\ CacheInit /\ FsInit /\ ListingInit
    /\ root[Other] = "top" /\ op[Other] = "get_recursive"
    /\ about # "cache" => op = [c \in Clients |-> "get_recursive"]
    /\ about \in {"handlers", "listing"} => root = [r \in Readers |-> "top"]
    /\ about # "listing" => kind = "root" /\ count = 0 /\ faulty = 0

ServiceNext ==
    \/ \E p \in Putters \ {Other} : PutterNext(p)
    \/ \E r \in Readers \ {Other} : ReaderNext(r)

DirectoriesNext ==
    (Service /\ ServiceNext) \/ (Cache /\ CacheNext) \/ (Handlers /\ FsNext) \/ (Listing /\ ListingNext)

(* The runtime keeps polling a traversal that can proceed; near answers,   *)
(* and a stream of far ends or fails (a drain is a loop without await).    *)
StoresProgress ==
    /\ WF_all(Service /\ \E d \in Dirs : TraverseStep(One, d))
    /\ \A c \in Clients : WF_all(Cache /\ CacheProgress(c))

(* The threads keep running, the services answer, and a lock that is free  *)
(* again and again is obtained (parking_lot is eventually fair).           *)
MountProgress ==
    /\ \A t \in Threads : SF_all(Handlers /\ Serve(t))
    /\ WF_all(Listing /\ TaskStep) /\ WF_all(Listing /\ CallStep)

DirectoriesSpec ==
    DirectoriesInit /\ [][DirectoriesNext]_all /\ StoresProgress /\ MountProgress

-----------------------------------------------------------------------------
(* Whoever waits is answered: a get_recursive ends (no directory is queued *)
(* again once it was sent), a request to the Cache is answered wherever    *)
(* far stops, every request of the kernel is, whatever the other thread    *)
(* does and whoever waits for the locks, every readdir returns, and the    *)
(* task that feeds the listing of the root ends with its handle.  The      *)
(* clients and the threads are alike: one of each is followed.             *)
Waits ==
    \/ about = "service" /\ rpc[One] = "running"
    \/ about = "cache" /\ cpc[One] \notin {"idle", "done"}
    \/ about = "handlers" /\ th[Thread].pc # "idle"
    \/ about = "listing" /\ (call = "reading" \/ (handle = "released" /\ task = "running"))

DirectoriesAnswer == Waits ~> ~Waits
=============================================================================
