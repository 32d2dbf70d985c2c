------------------------------- MODULE FuseFs -------------------------------
(***************************************************************************)
(* The request handlers of the FUSE/virtiofs filesystem (castore           *)
(* fs/mod.rs), run by several threads, and the inode tracker they share    *)
(* (fs/inode_tracker.rs, fs/inodes.rs).  A handler is cut where it takes   *)
(* or releases a lock and where it waits for a service; a lock that is     *)
(* taken, used and released in one expression is one step.                 *)
(***************************************************************************)
EXTENDS Integers, Sequences, Functions

CONSTANTS
    Threads,
    Names,        \* the names of nodes
    Nodes,        \* the castore nodes of the mount
    RootNames,    \* the basenames in the root, in the order they are listed
    RootNode,     \* RootNode[n]: the node get_by_basename and list() give
    EntriesOf,    \* EntriesOf[c]: the entries of directory c
    ChildNames    \* the names requested below the root

All == "all names"   \* the name requested by a readdir

Listed == Range(RootNames)
NamedNode == [name : Names, node : Nodes]

\* Directories that EntriesOf does not have are holes in the store.
ASSUME MountAssumption ==
    /\ RootNames \in Seq(Names) /\ RootNode \in [Listed -> Nodes]
    /\ \A c \in DOMAIN EntriesOf : EntriesOf[c] \in Seq(NamedNode)

-----------------------------------------------------------------------------
(* The inode tracker as a value: data per inode, the lookup tables by      *)
(* contents, and the next inode.  Inode 1 is the root of the mount.        *)
FirstInode == 2

\* A castore node: the kind, the digest (or the target of a symlink), the
\* executable bit of a file.
Node(k, c, x) == [kind |-> k, contents |-> c, executable |-> x]

\* InodeData::from_node: directories start sparse.
FromNode(n) == [node |-> n, state |-> "Sparse", children |-> <<>>]

IsPopulated(data) == data.state = "Populated"

\* The three lookup tables: regular files by digest whether executable or
\* not, symlinks by target, directories by digest.
Key(n) == <<n.kind, n.contents>>

DefaultTracker == [data |-> <<>>, table |-> [k \in {} |-> 0], next |-> FirstInode]

Known(tr, ino) == ino \in FirstInode .. tr.next - 1

\* data is kept as a sequence: inode FirstInode is its first element.
Get(tr, ino) == tr.data[ino - FirstInode + 1]

InsertAndIncrement(tr, n) ==
    [data  |-> Append(tr.data, FromNode(n)),
     table |-> [k \in DOMAIN tr.table \cup {Key(n)} |->
                  IF k = Key(n) THEN tr.next ELSE tr.table[k]],
     next  |-> tr.next + 1]

Replace(tr, ino, data) ==
    [data  |-> [tr.data EXCEPT ![ino - FirstInode + 1] = data],
     table |-> tr.table,
     next  |-> tr.next]

PutNode_overwrites(tr, n) ==
    IF Key(n) \in DOMAIN tr.table THEN Replace(tr, tr.table[Key(n)], FromNode(n))
    ELSE InsertAndIncrement(tr, n)

\* put: contents that already have an inode keep it, and the data it was
\* first given.
PutNode(tr, n) == IF Key(n) \in DOMAIN tr.table THEN tr ELSE InsertAndIncrement(tr, n)

InodeOf(tr, n) == tr.table[Key(n)]

\* root_nodes.insert
WithName(names, n, ino) == [m \in DOMAIN names \cup {n} |-> IF m = n THEN ino ELSE names[m]]

-----------------------------------------------------------------------------
VARIABLES
    rootNodes,   \* root_nodes: basename -> inode
    tracker,     \* inode_tracker
    held,        \* held[t]: the locks thread t holds between two steps
    th,          \* th[t]: the request thread t serves
    told         \* what the kernel was told: <<inode, node>>

fsvars == <<rootNodes, tracker, held, th, told>>

Idle == [pc |-> "idle"]

FsInit ==
    /\ rootNodes = [n \in {} |-> 0]
    /\ tracker = DefaultTracker
    /\ held = [t \in Threads |-> {}]
    /\ th = [t \in Threads |-> Idle]
    /\ told = {}

-----------------------------------------------------------------------------
(* The locks (parking_lot): a queued writer holds new readers back.        *)
Holds(k) == \E t \in Threads : k \in held[t]
WriterQueued(pcs, t) == \E u \in Threads \ {t} : th[u].pc \in pcs

CanReadRoot(t) == ~ Holds("root write") /\ ~ WriterQueued({"lock", "register"}, t)
CanReadTracker(t) == ~ Holds("tracker write") /\ ~ WriterQueued({"insert", "populate", "allot"}, t)
CanWriteRoot == ~ Holds("root write") /\ ~ Holds("root read")
CanWriteTracker == ~ Holds("tracker write") /\ ~ Holds("tracker read")

\* The kernel uses inodes it was told.
Inodes == {x[1] : x \in told}

MoveTo(t, r) == th' = [th EXCEPT ![t] = r]
Reply(t, inos) == th' = [th EXCEPT ![t] = Idle] /\ told' = told \cup inos
ReplyError(t) == MoveTo(t, Idle) /\ UNCHANGED told
Panic(t) == MoveTo(t, [pc |-> "panicked"]) /\ UNCHANGED told

\* Reply with the data the tracker has for the inode; get(ino).unwrap().
ReplyData(t, ino) ==
    IF Known(tracker, ino) THEN Reply(t, {<<ino, Get(tracker, ino).node>>}) ELSE Panic(t)

-----------------------------------------------------------------------------
(* lookup in the root: name_in_root_to_ino_and_data.                       *)
LookupRoot(t, n) ==
    /\ th[t].pc = "idle"
    /\ MoveTo(t, [pc |-> "lookup", name |-> n])
    /\ UNCHANGED <<rootNodes, tracker, held, told>>

RootNameKnown(t) ==
    /\ th[t].pc = "lookup" /\ CanReadRoot(t)
    /\ LET n == th[t].name IN
          MoveTo(t, IF n \in DOMAIN rootNodes THEN [pc |-> "known", ino |-> rootNodes[n]]
                                              ELSE [pc |-> "fetch", name |-> n])
    /\ UNCHANGED <<rootNodes, tracker, held, told>>

ReplyKnown(t) ==
    /\ th[t].pc = "known" /\ CanReadTracker(t)
    /\ ReplyData(t, th[t].ino)
    /\ UNCHANGED <<rootNodes, tracker, held>>

\* block_on(get_by_basename): EIO, ENOENT, or the node.
FetchRootNode(t) ==
    /\ th[t].pc = "fetch"
    /\ \/ ReplyError(t)
       \/ /\ th[t].name \in Listed
          /\ MoveTo(t, [pc |-> "again", name |-> th[t].name])
          /\ UNCHANGED told
    /\ UNCHANGED <<rootNodes, tracker, held>>

\* "check if someone else beat us": the read lock is kept for the reply.
CheckBeaten(t) ==
    /\ th[t].pc = "again" /\ CanReadRoot(t)
    /\ LET n == th[t].name IN
          IF n \in DOMAIN rootNodes
          THEN /\ held' = [held EXCEPT ![t] = {"root read"}]
               /\ MoveTo(t, [pc |-> "beaten", ino |-> rootNodes[n]])
          ELSE /\ MoveTo(t, [pc |-> "lock", name |-> n])
               /\ UNCHANGED held
    /\ UNCHANGED <<rootNodes, tracker, told>>

ReplyBeaten(t) ==
    /\ th[t].pc = "beaten" /\ CanReadTracker(t)
    /\ ReplyData(t, th[t].ino)
    /\ held' = [held EXCEPT ![t] = {}]
    /\ UNCHANGED <<rootNodes, tracker>>

LockRoot(t) ==
    /\ th[t].pc = "lock" /\ CanWriteRoot
    /\ held' = [held EXCEPT ![t] = {"root write"}]
    /\ MoveTo(t, [pc |-> "insert", name |-> th[t].name])
    /\ UNCHANGED <<rootNodes, tracker, told>>

\* Both write locks: the inode, the name, and a reply made from the node
\* itself, not from what the tracker holds.
InsertRoot(t) ==
    /\ th[t].pc = "insert" /\ CanWriteTracker
    /\ LET n == th[t].name
           tr == PutNode(tracker, RootNode[n])
           ino == InodeOf(tr, RootNode[n]) IN
          /\ tracker' = tr
          /\ rootNodes' = WithName(rootNodes, n, ino)
          /\ Reply(t, {<<ino, RootNode[n]>>})
    /\ held' = [held EXCEPT ![t] = {}]

-----------------------------------------------------------------------------
(* lookup and readdir below the root: get_directory_children first.        *)
Lookup(t, ino, n) ==
    /\ th[t].pc = "idle" /\ ino \in Inodes
    /\ MoveTo(t, [pc |-> "children", ino |-> ino, name |-> n])
    /\ UNCHANGED <<rootNodes, tracker, held, told>>

Readdir(t, ino) == Lookup(t, ino, All)

ReadChildren(t) ==
    /\ th[t].pc = "children" /\ CanReadTracker(t)
    /\ IF ~ Known(tracker, th[t].ino) THEN Panic(t)
       ELSE IF Get(tracker, th[t].ino).node.kind # "directory" THEN ReplyError(t)
       ELSE /\ MoveTo(t, IF IsPopulated(Get(tracker, th[t].ino))
                       THEN [pc |-> "pick", name |-> th[t].name,
                             children |-> Get(tracker, th[t].ino).children]
                       ELSE [pc |-> "get", ino |-> th[t].ino, name |-> th[t].name])
            /\ UNCHANGED told
    /\ UNCHANGED <<rootNodes, tracker, held>>

EntriesAt(ino) == EntriesOf[Get(tracker, ino).node.contents]

\* block_on(directory_service.get): an error, a hole, or the directory.
GetDirectory(t) ==
    /\ th[t].pc = "get"
    /\ \/ ReplyError(t)
       \/ /\ Get(tracker, th[t].ino).node.contents \in DOMAIN EntriesOf
          /\ MoveTo(t, [pc |-> "populate", ino |-> th[t].ino, name |-> th[t].name])
          /\ UNCHANGED told
    /\ UNCHANGED <<rootNodes, tracker, held>>

LockTracker(t) ==
    /\ th[t].pc = "populate" /\ CanWriteTracker
    /\ held' = [held EXCEPT ![t] = {"tracker write"}]
    /\ MoveTo(t, [pc |-> "children inodes", ino |-> th[t].ino, name |-> th[t].name, children |-> <<>>])
    /\ UNCHANGED <<rootNodes, tracker, told>>

\* The write lock is kept until all children, in their order, have inodes ...
AllotChild_unknown(t) ==
    /\ th[t].pc = "children inodes" /\ Len(th[t].children) < Len(EntriesAt(th[t].ino))
    /\ LET e == EntriesAt(th[t].ino)[Len(th[t].children) + 1]
           child == [name |-> e.name, node |-> e.node, ino |-> tracker.next] IN
          MoveTo(t, [pc |-> "children inodes", ino |-> th[t].ino, name |-> th[t].name,
                     children |-> Append(th[t].children, child)])
    /\ UNCHANGED <<rootNodes, tracker, held, told>>

AllotChild(t) ==
    /\ th[t].pc = "children inodes" /\ Len(th[t].children) < Len(EntriesAt(th[t].ino))
    /\ LET e == EntriesAt(th[t].ino)[Len(th[t].children) + 1]
           tr == PutNode(tracker, e.node)
           child == [name |-> e.name, node |-> e.node, ino |-> InodeOf(tr, e.node)] IN
          /\ tracker' = tr
          /\ MoveTo(t, [pc |-> "children inodes", ino |-> th[t].ino, name |-> th[t].name,
                        children |-> Append(th[t].children, child)])
    /\ UNCHANGED <<rootNodes, held, told>>

\* ... and the directory has become Populated with them.
PopulateDirectory(t) ==
    /\ th[t].pc = "children inodes" /\ Len(th[t].children) = Len(EntriesAt(th[t].ino))
    /\ tracker' = Replace(tracker, th[t].ino,
          [node |-> Get(tracker, th[t].ino).node, state |-> "Populated", children |-> th[t].children])
    /\ MoveTo(t, [pc |-> "pick", name |-> th[t].name, children |-> th[t].children])
    /\ held' = [held EXCEPT ![t] = {}]
    /\ UNCHANGED <<rootNodes, told>>

\* The child with that name, with the tracker's data; a listing replies
\* with the nodes of the directory itself.
PickChild(t) ==
    /\ th[t].pc = "pick" /\ (th[t].name # All => CanReadTracker(t))
    /\ LET named == {c \in Range(th[t].children) : c.name = th[t].name} IN
          IF th[t].name = All THEN Reply(t, {<<c.ino, c.node>> : c \in Range(th[t].children)})
          ELSE IF named = {} THEN ReplyError(t)
          ELSE ReplyData(t, (CHOOSE c \in named : TRUE).ino)
    /\ UNCHANGED <<rootNodes, tracker, held>>

-----------------------------------------------------------------------------
(* readdir of the root: one entry of the listing after the other.          *)
\* The reply may also end before the last entry: the buffer is full.
NextEntry(pos) == IF pos = Len(RootNames) THEN {Idle} ELSE {Idle, [pc |-> "list", pos |-> pos + 1]}

ListRoot(t) ==
    /\ th[t].pc = "idle"
    /\ \E r \in NextEntry(0) : MoveTo(t, r)
    /\ UNCHANGED <<rootNodes, tracker, held, told>>

ListKnown(t) ==
    /\ th[t].pc = "list" /\ CanReadRoot(t)
    /\ LET n == RootNames[th[t].pos] IN
          \/ /\ n \in DOMAIN rootNodes
             /\ \E r \in NextEntry(th[t].pos) : MoveTo(t, r)
             /\ told' = told \cup {<<rootNodes[n], RootNode[n]>>}
          \/ /\ n \notin DOMAIN rootNodes
             /\ MoveTo(t, [pc |-> "allot", pos |-> th[t].pos])
             /\ UNCHANGED told
    /\ UNCHANGED <<rootNodes, tracker, held>>

\* A new inode under the tracker's lock, then the name under the root's.
Allot(t) ==
    /\ th[t].pc = "allot" /\ CanWriteTracker
    /\ LET node == RootNode[RootNames[th[t].pos]]
           tr == PutNode(tracker, node) IN
          /\ tracker' = tr
          /\ MoveTo(t, [pc |-> "register", pos |-> th[t].pos, ino |-> InodeOf(tr, node)])
    /\ UNCHANGED <<rootNodes, held, told>>

Register(t) ==
    /\ th[t].pc = "register" /\ CanWriteRoot
    /\ LET n == RootNames[th[t].pos] IN
          /\ rootNodes' = WithName(rootNodes, n, th[t].ino)
          /\ told' = told \cup {<<th[t].ino, RootNode[n]>>}
    /\ \E r \in NextEntry(th[t].pos) : MoveTo(t, r)
    /\ UNCHANGED <<tracker, held>>

-----------------------------------------------------------------------------
(* getattr; and open, which keeps the tracker locked for reading while it  *)
(* waits for the blob service.                                             *)
Getattr(t, ino) ==
    /\ th[t].pc = "idle" /\ CanReadTracker(t) /\ ino \in Inodes
    /\ IF Known(tracker, ino) THEN Reply(t, {<<ino, Get(tracker, ino).node>>}) ELSE ReplyError(t)
    /\ UNCHANGED <<rootNodes, tracker, held>>

Open(t, ino) ==
    /\ th[t].pc = "idle" /\ CanReadTracker(t) /\ ino \in Inodes
    /\ IF ~ Known(tracker, ino) THEN Panic(t) /\ UNCHANGED held
       ELSE /\ Get(tracker, ino).node.kind = "file"
            /\ held' = [held EXCEPT ![t] = {"tracker read"}]
            /\ MoveTo(t, [pc |-> "open"])
            /\ UNCHANGED told
    /\ UNCHANGED <<rootNodes, tracker>>

BlobOpened(t) ==
    /\ th[t].pc = "open"
    /\ held' = [held EXCEPT ![t] = {}]
    /\ MoveTo(t, Idle)
    /\ UNCHANGED <<rootNodes, tracker, told>>

-----------------------------------------------------------------------------
Request(t) ==
    \/ ListRoot(t)
    \/ \E n \in Listed \cup {"no such name"} : LookupRoot(t, n)
    \/ \E ino \in Inodes : Readdir(t, ino) \/ Getattr(t, ino) \/ Open(t, ino)
                           \/ \E n \in ChildNames : Lookup(t, ino, n)

Serve(t) ==
    \/ RootNameKnown(t) \/ ReplyKnown(t) \/ FetchRootNode(t) \/ CheckBeaten(t) \/ ReplyBeaten(t)
    \/ LockRoot(t) \/ InsertRoot(t)
    \/ ReadChildren(t) \/ GetDirectory(t) \/ LockTracker(t) \/ AllotChild(t)
    \/ PopulateDirectory(t) \/ PickChild(t)
    \/ ListKnown(t) \/ Allot(t) \/ Register(t)
    \/ BlobOpened(t)

FsNext == \E t \in Threads : Request(t) \/ Serve(t)

FsSpec == FsInit /\ [][FsNext]_fsvars

-----------------------------------------------------------------------------
(* Things with the same contents have the same inode, and no two contents  *)
(* share one: what the kernel was told of an inode has its contents.       *)
SameContentsSameInode ==
    /\ \A x, y \in told : x[1] = y[1] <=> Key(x[2]) = Key(y[2])
    /\ \A i, j \in DOMAIN tracker.data :
          Key(tracker.data[i].node) = Key(tracker.data[j].node) => i = j

(* Names lead to inodes the tracker knows, with their contents, whichever  *)
(* handlers raced to register them: a name in the root to its node         *)
(* ("inode_tracker MUST also contain the data"), the children of a         *)
(* populated directory to the entries of that directory.                   *)
NamesResolve ==
    /\ \A n \in DOMAIN rootNodes :
          /\ Known(tracker, rootNodes[n])
          /\ Key(Get(tracker, rootNodes[n]).node) = Key(RootNode[n])
    /\ \A d \in Range(tracker.data) : IsPopulated(d) =>
          /\ Len(d.children) = Len(EntriesOf[d.node.contents])
          /\ \A i \in DOMAIN d.children :
                LET c == d.children[i] IN
                   /\ c.name = EntriesOf[d.node.contents][i].name
                   /\ Known(tracker, c.ino)
                   /\ Key(Get(tracker, c.ino).node) = Key(c.node)

(* However handlers race to register them, names lead to the inodes of     *)
(* their contents, and each content has one inode.                         *)
InodesRight == NamesResolve /\ SameContentsSameInode

(* An inode keeps its node, a populated directory its children, and a name *)
(* in the root its inode, for the life of the mount.                       *)
InodesStable ==
    [][/\ \A i \in DOMAIN tracker.data :
             /\ tracker'.data[i].node = tracker.data[i].node
             /\ IsPopulated(tracker.data[i]) => tracker'.data[i] = tracker.data[i]
       /\ \A n \in DOMAIN rootNodes : rootNodes'[n] = rootNodes[n]]_fsvars
=============================================================================
