----------------------------- MODULE FuseProofs -----------------------------
(***************************************************************************)
(* For every mount and any number of threads: an inode belongs to one      *)
(* content, and every name that was given one leads to its content.  For   *)
(* directories of every size, channels and reply buffers of every          *)
(* capacity: what the kernel has received of a listing.                    *)
(***************************************************************************)
EXTENDS FuseFs, FuseListing, TLAPS

Child == [name : Names, node : Nodes, ino : Nat]
Data == [node : Nodes, state : {"Sparse", "Populated"}, children : Seq(Child)]

(* The inode is that of the content of the node.                           *)
Leads(tr, ino, n) == n \in Nodes /\ Known(tr, ino) /\ Key(Get(tr, ino).node) = Key(n)

\* The first children of directory c, in order, with inodes.
ChildrenOf(tr, c, children) ==
    /\ c \in DOMAIN EntriesOf /\ children \in Seq(Child)
    /\ Len(children) <= Len(EntriesOf[c])
    /\ \A i \in 1..Len(children) :
          /\ children[i].name = EntriesOf[c][i].name
          /\ children[i].node = EntriesOf[c][i].node
          /\ Leads(tr, children[i].ino, children[i].node)

(* The tables find the inode of every content that has one, and no other;  *)
(* populated directories have all their children.                          *)
TablesRight(tr) ==
    /\ \A i \in 1..Len(tr.data) :
          /\ Key(tr.data[i].node) \in DOMAIN tr.table
          /\ tr.table[Key(tr.data[i].node)] = i + FirstInode - 1
    /\ \A k \in DOMAIN tr.table :
          /\ Known(tr, tr.table[k])
          /\ Key(Get(tr, tr.table[k]).node) = k

ChildrenRight(tr) ==
    \A i \in 1..Len(tr.data) : tr.data[i].state = "Populated" =>
        /\ ChildrenOf(tr, tr.data[i].node.contents, tr.data[i].children)
        /\ Len(tr.data[i].children) = Len(EntriesOf[tr.data[i].node.contents])

TrackerOK(tr) ==
    /\ tr.data \in Seq(Data) /\ tr.next = FirstInode + Len(tr.data)
    /\ TablesRight(tr)
    /\ ChildrenRight(tr)

(* What a handler knows at each of its steps.                              *)
ThreadOK(tr, r) ==
    /\ r.pc \in {"idle", "lookup", "known", "fetch", "again", "beaten", "lock", "insert", "children", "get",
                 "populate", "children inodes", "pick", "list", "allot", "register", "open"}
    /\ r.pc \in {"again", "lock", "insert"} => r.name \in Listed
    /\ r.pc \in {"known", "beaten", "children", "get", "populate", "children inodes"} => Known(tr, r.ino)
    /\ r.pc = "populate" => Get(tr, r.ino).node.contents \in DOMAIN EntriesOf
    /\ r.pc = "children inodes" => ChildrenOf(tr, Get(tr, r.ino).node.contents, r.children)
    /\ r.pc = "pick" => /\ r.children \in Seq(Child)
                        /\ \A i \in 1..Len(r.children) : Leads(tr, r.children[i].ino, r.children[i].node)
    /\ r.pc \in {"list", "allot", "register"} => r.pos \in 1..Len(RootNames)
    /\ r.pc = "register" => Leads(tr, r.ino, RootNode[RootNames[r.pos]])

RootOK(tr, names) == \A n \in DOMAIN names : n \in Listed /\ Leads(tr, names[n], RootNode[n])

ToldOK(tr, pairs) == \A x \in pairs : Leads(tr, x[1], x[2])

FsInv ==
    /\ TrackerOK(tracker)
    /\ DOMAIN th = Threads /\ \A t \in Threads : ThreadOK(tracker, th[t])
    /\ RootOK(tracker, rootNodes)
    /\ ToldOK(tracker, told)

-----------------------------------------------------------------------------
(* tr2 has the inodes of tr, for the same nodes.                           *)
Extends(tr, tr2) ==
    \A ino : Known(tr, ino) => Known(tr2, ino) /\ Get(tr2, ino).node = Get(tr, ino).node

(* What was right stays right while inodes are only added.                 *)
LEMMA LeadsKept ==
    ASSUME NEW tr, NEW tr2, Extends(tr, tr2), NEW ino, NEW n, Leads(tr, ino, n)
    PROVE  Leads(tr2, ino, n)
  BY DEF Leads, Extends

(* ... of the children of a directory ...                                  *)
LEMMA ChildrenKept ==
    ASSUME NEW tr, NEW tr2, Extends(tr, tr2), NEW c, NEW children, ChildrenOf(tr, c, children)
    PROVE  ChildrenOf(tr2, c, children)
  BY LeadsKept DEF ChildrenOf

(* ... of what a handler knows ...                                         *)
LEMMA ThreadKept ==
    ASSUME NEW tr, NEW tr2, Extends(tr, tr2), NEW r, ThreadOK(tr, r)
    PROVE  ThreadOK(tr2, r)
  <1>1. Known(tr, r.ino) => Known(tr2, r.ino) /\ Get(tr2, r.ino).node = Get(tr, r.ino).node
    BY DEF Extends
  <1>2. r.pc = "children inodes" => ChildrenOf(tr2, Get(tr2, r.ino).node.contents, r.children)
    <2> SUFFICES ASSUME r.pc = "children inodes"
                 PROVE  ChildrenOf(tr2, Get(tr2, r.ino).node.contents, r.children)
      BY Zenon
    <2>1. Known(tr, r.ino) /\ ChildrenOf(tr, Get(tr, r.ino).node.contents, r.children)
      BY Zenon DEF ThreadOK
    <2>2. ChildrenOf(tr2, Get(tr, r.ino).node.contents, r.children)
      BY <2>1, ChildrenKept, Zenon
    <2> QED BY <1>1, <2>1, <2>2, Zenon
  <1>3. r.pc = "pick" =>
           /\ r.children \in Seq(Child)
           /\ \A i \in 1..Len(r.children) : Leads(tr2, r.children[i].ino, r.children[i].node)
    BY LeadsKept DEF ThreadOK
  <1>4. r.pc = "register" => Leads(tr2, r.ino, RootNode[RootNames[r.pos]])
    BY LeadsKept DEF ThreadOK
  <1> QED BY <1>1, <1>2, <1>3, <1>4, Zenon DEF ThreadOK

-----------------------------------------------------------------------------
(* The data of an inode.                                                   *)
LEMMA KnownData ==
    ASSUME NEW tr, TrackerOK(tr), NEW ino, Known(tr, ino)
    PROVE  /\ ino \in Nat /\ ino - FirstInode + 1 \in 1..Len(tr.data)
           /\ Get(tr, ino) \in Data /\ Get(tr, ino).node \in Nodes
           /\ Leads(tr, ino, Get(tr, ino).node)
  <1>1. Len(tr.data) \in Nat /\ \A i \in 1..Len(tr.data) : tr.data[i] \in Data
    BY DEF TrackerOK
  <1>2. ino \in Nat /\ ino - FirstInode + 1 \in 1..Len(tr.data)
    BY <1>1 DEF Known, TrackerOK, FirstInode
  <1>3. Get(tr, ino) \in Data
    BY <1>1, <1>2 DEF Get
  <1>4. Get(tr, ino).node \in Nodes
    BY <1>3 DEF Data
  <1> QED BY <1>2, <1>3, <1>4 DEF Leads

(* One inode for each content: "put" promises no more, and all that names  *)
(* rely on follows from it.                                                *)
LEMMA OneInode ==
    ASSUME NEW tr, TrackerOK(tr), NEW i, NEW n, Leads(tr, i, n), NEW j, NEW m, Leads(tr, j, m)
    PROVE  i = j <=> Key(n) = Key(m)
  <1>1. /\ i \in Nat /\ i - FirstInode + 1 \in 1..Len(tr.data)
        /\ j \in Nat /\ j - FirstInode + 1 \in 1..Len(tr.data)
    BY KnownData DEF Leads
  <1>2. tr.table[Key(n)] = i /\ tr.table[Key(m)] = j
    <2>1. tr.table[Key(Get(tr, i).node)] = (i - FirstInode + 1) + FirstInode - 1
      BY <1>1 DEF TrackerOK, TablesRight, Get
    <2>2. tr.table[Key(Get(tr, j).node)] = (j - FirstInode + 1) + FirstInode - 1
      BY <1>1 DEF TrackerOK, TablesRight, Get
    <2> QED BY <1>1, <2>1, <2>2 DEF Leads, FirstInode
  <1> QED BY <1>2 DEF Leads

(* The tracker of a new mount.                                             *)
LEMMA DefaultOK == TrackerOK(DefaultTracker)
  <1> DEFINE tr == DefaultTracker
  <1>1. tr.data = <<>> /\ tr.next = FirstInode /\ tr.table = [k \in {} |-> 0]
    BY DEF DefaultTracker
  <1>2. tr.data \in Seq(Data) /\ Len(tr.data) = 0 /\ DOMAIN tr.table = {}
    BY <1>1
  <1>3. TablesRight(tr) /\ ChildrenRight(tr)
    BY <1>2 DEF TablesRight, ChildrenRight
  <1> QED BY <1>1, <1>2, <1>3 DEF TrackerOK, FirstInode

(* put adds an inode at most, and leads to the content.                    *)
LEMMA PutOK ==
    ASSUME NEW tr, TrackerOK(tr), NEW n \in Nodes
    PROVE  /\ TrackerOK(PutNode(tr, n)) /\ Extends(tr, PutNode(tr, n))
           /\ Leads(PutNode(tr, n), InodeOf(PutNode(tr, n), n), n)
           /\ \A i \in 1..Len(tr.data) : PutNode(tr, n).data[i] = tr.data[i]
  <1>1. CASE Key(n) \in DOMAIN tr.table
    <2>1. PutNode(tr, n) = tr
      BY <1>1, Zenon DEF PutNode
    <2>2. Leads(tr, InodeOf(tr, n), n)
      BY <1>1 DEF Leads, InodeOf, TrackerOK, TablesRight
    <2> QED BY <2>1, <2>2 DEF Extends
  <1>2. CASE Key(n) \notin DOMAIN tr.table
    <2> DEFINE L == Len(tr.data)
               d == FromNode(n)
               tr2 == InsertAndIncrement(tr, n)
    <2>1. PutNode(tr, n) = tr2
      BY <1>2 DEF PutNode
    <2>2. d \in Data /\ d.node = n /\ d.state = "Sparse"
      <3>1. <<>> \in Seq(Child)
        OBVIOUS
      <3> QED BY <3>1 DEF FromNode, Data
    <2>3. /\ tr2.data = Append(tr.data, d) /\ tr2.next = tr.next + 1
          /\ DOMAIN tr2.table = DOMAIN tr.table \cup {Key(n)}
          /\ tr2.table[Key(n)] = tr.next
          /\ \A k \in DOMAIN tr.table : tr2.table[k] = tr.table[k]
      BY <1>2 DEF InsertAndIncrement
    <2> HIDE DEF d, tr2
    <2>4. tr.data \in Seq(Data) /\ tr.next = FirstInode + L /\ L \in Nat
      BY DEF TrackerOK
    <2>5. /\ tr2.data \in Seq(Data) /\ Len(tr2.data) = L + 1
          /\ tr2.data[L + 1] = d /\ \A i \in 1..L : tr2.data[i] = tr.data[i]
      BY <2>2, <2>3, <2>4
    <2> HIDE DEF L
    <2>6. tr2.next = FirstInode + Len(tr2.data)
      BY <2>3, <2>4, <2>5 DEF FirstInode
    <2>7. Extends(tr, tr2)
      <3> SUFFICES ASSUME NEW ino, Known(tr, ino)
                   PROVE  Known(tr2, ino) /\ Get(tr2, ino).node = Get(tr, ino).node
        BY DEF Extends
      <3>1. ino \in Nat /\ ino - FirstInode + 1 \in 1..L
        BY KnownData DEF L
      <3>2. Known(tr2, ino)
        BY <2>3, <2>4, <3>1 DEF Known, FirstInode
      <3> QED BY <2>5, <3>1, <3>2 DEF Get
    <2>8. Known(tr2, tr.next) /\ Get(tr2, tr.next) = d
      <3>1. tr.next - FirstInode + 1 = L + 1
        BY <2>4 DEF FirstInode
      <3> QED BY <2>3, <2>4, <2>5, <3>1 DEF Known, Get, FirstInode
    <2>9. Leads(tr2, tr.next, n)
      BY <2>2, <2>8 DEF Leads
    <2>10. ASSUME NEW i \in 1..Len(tr2.data)
           PROVE  /\ Key(tr2.data[i].node) \in DOMAIN tr2.table
                  /\ tr2.table[Key(tr2.data[i].node)] = i + FirstInode - 1
      <3>1. CASE i = L + 1
        BY <2>2, <2>3, <2>4, <2>5, <3>1, SMTT(40) DEF FirstInode
      <3>2. CASE i # L + 1
        <4>1. i \in 1..L
          BY <2>4, <2>5, <3>2
        <4> QED BY <2>3, <2>5, <4>1 DEF TrackerOK, TablesRight, L
      <3> QED BY <3>1, <3>2
    <2>11. ASSUME NEW k \in DOMAIN tr2.table
           PROVE  Known(tr2, tr2.table[k]) /\ Key(Get(tr2, tr2.table[k]).node) = k
      <3>1. CASE k = Key(n)
        BY <2>2, <2>3, <2>8, <3>1, Zenon
      <3>2. CASE k # Key(n)
        BY <2>3, <2>7, <3>2, Zenon DEF TrackerOK, TablesRight, Extends
      <3> QED BY <3>1, <3>2, Zenon
    <2>12. ChildrenRight(tr2)
      <3> SUFFICES ASSUME NEW i \in 1..Len(tr2.data), tr2.data[i].state = "Populated"
                   PROVE  /\ ChildrenOf(tr2, tr2.data[i].node.contents, tr2.data[i].children)
                          /\ Len(tr2.data[i].children) = Len(EntriesOf[tr2.data[i].node.contents])
        BY DEF ChildrenRight
      <3>1. i \in 1..L /\ tr2.data[i] = tr.data[i]
        BY <2>2, <2>4, <2>5, SMTT(40)
      <3>2. /\ ChildrenOf(tr, tr.data[i].node.contents, tr.data[i].children)
            /\ Len(tr.data[i].children) = Len(EntriesOf[tr.data[i].node.contents])
        BY <3>1, Zenon DEF TrackerOK, ChildrenRight, L
      <3> QED BY <2>7, <3>1, <3>2, ChildrenKept
    <2>13. TrackerOK(tr2)
      BY <2>5, <2>6, <2>10, <2>11, <2>12 DEF TrackerOK, TablesRight
    <2>14. InodeOf(tr2, n) = tr.next
      BY <2>3 DEF InodeOf
    <2> QED BY <2>1, <2>5, <2>7, <2>9, <2>13, <2>14 DEF L
  <1> QED BY <1>1, <1>2

(* Sequences are equal if their elements are.                              *)
LEMMA SameSequence ==
    ASSUME NEW S, NEW s \in Seq(S), NEW u \in Seq(S), Len(s) = Len(u),
           \A i \in 1..Len(s) : s[i] = u[i]
    PROVE  s = u
  OBVIOUS

(* replace keeps the node of the inode, and gives a directory all of its   *)
(* children: the ones it already had, if it had any.                       *)
LEMMA ReplaceOK ==
    ASSUME NEW tr, TrackerOK(tr), NEW ino, Known(tr, ino), NEW children,
           ChildrenOf(tr, Get(tr, ino).node.contents, children),
           Len(children) = Len(EntriesOf[Get(tr, ino).node.contents]),
           NEW tr2, tr2 = Replace(tr, ino, [node |-> Get(tr, ino).node, state |-> "Populated",
                                            children |-> children])
    PROVE  /\ TrackerOK(tr2) /\ Extends(tr, tr2)
           /\ \A i \in 1..Len(tr.data) :
                 /\ tr2.data[i].node = tr.data[i].node
                 /\ tr.data[i].state = "Populated" => tr2.data[i] = tr.data[i]
  <1> DEFINE n == Get(tr, ino).node
             d == [node |-> n, state |-> "Populated", children |-> children]
             x == ino - FirstInode + 1
             L == Len(tr.data)
  <1>1. x \in 1..L /\ n \in Nodes /\ tr.data \in Seq(Data) /\ L \in Nat /\ n = tr.data[x].node
    BY KnownData, SMTT(40) DEF TrackerOK, Get
  <1>2. d \in Data /\ d.node = n /\ d.state = "Populated" /\ d.children = children
    BY <1>1 DEF Data, ChildrenOf
  <1>3. tr2.data = [tr.data EXCEPT ![x] = d] /\ tr2.table = tr.table /\ tr2.next = tr.next
    BY Zenon DEF Replace
  <1> HIDE DEF d, x, n
  <1>4. /\ tr2.data \in Seq(Data) /\ Len(tr2.data) = L /\ tr2.data[x] = d
        /\ \A i \in 1..L : i # x => tr2.data[i] = tr.data[i]
    BY <1>1, <1>2, <1>3, SMTT(40)
  <1> HIDE DEF L
  <1>5. \A i \in 1..L : tr2.data[i].node = tr.data[i].node
    BY <1>1, <1>2, <1>4, Zenon
  <1>6. Extends(tr, tr2)
    <2> SUFFICES ASSUME NEW j, Known(tr, j)
                 PROVE  Known(tr2, j) /\ Get(tr2, j).node = Get(tr, j).node
      BY DEF Extends
    <2>1. j - FirstInode + 1 \in 1..L
      BY KnownData, Zenon DEF L
    <2> QED BY <1>3, <1>5, <2>1, Zenon DEF Known, Get
  <1>7. TablesRight(tr2)
    <2>1. \A k \in DOMAIN tr.table : Known(tr2, tr.table[k]) /\ Key(Get(tr2, tr.table[k]).node) = k
      BY <1>6 DEF TrackerOK, TablesRight, Extends
    <2> QED BY <1>3, <1>4, <1>5, <2>1, SMTT(40) DEF TrackerOK, TablesRight, L
  <1>8. ASSUME NEW i \in 1..L, tr.data[i].state = "Populated"
        PROVE  tr2.data[i] = tr.data[i]
    <2>1. CASE i # x
      BY <1>4, <2>1
    <2>2. CASE i = x
      <3> DEFINE old == tr.data[x].children
      <3>1. tr.data[x] \in Data /\ tr.data[x].node = n /\ tr.data[x].state = "Populated"
        BY <1>1, <1>8, <2>2 DEF L
      <3>2. ChildrenOf(tr, n.contents, old) /\ Len(old) = Len(EntriesOf[n.contents])
        BY <1>1, <1>8, <2>2 DEF TrackerOK, ChildrenRight, L
      <3>3. ChildrenOf(tr, n.contents, children) /\ Len(children) = Len(EntriesOf[n.contents])
        BY Zenon DEF n
      <3>4. old \in Seq(Child) /\ children \in Seq(Child) /\ Len(old) = Len(children)
        BY <3>2, <3>3, Zenon DEF ChildrenOf
      <3>5. ASSUME NEW j \in 1..Len(old) PROVE old[j] = children[j]
        <4>1. /\ old[j].name = children[j].name /\ old[j].node = children[j].node
              /\ Leads(tr, old[j].ino, old[j].node) /\ Leads(tr, children[j].ino, children[j].node)
          BY <3>2, <3>3, <3>4, Zenon DEF ChildrenOf
        <4>2. old[j].ino = children[j].ino
          BY <4>1, OneInode
        <4>3. old[j] \in Child /\ children[j] \in Child
          BY <3>4
        <4> QED BY <4>1, <4>2, <4>3, SMTT(40) DEF Child
      <3>6. old = children
        BY <3>4, <3>5, SameSequence, Zenon
      <3>7. tr.data[x] = d
        BY <1>2, <3>1, <3>6 DEF Data
      <3> QED BY <1>4, <2>2, <3>7, SMTT(40)
    <2> QED BY <2>1, <2>2
  <1>9. ChildrenRight(tr2)
    <2> SUFFICES ASSUME NEW i \in 1..Len(tr2.data), tr2.data[i].state = "Populated"
                 PROVE  /\ ChildrenOf(tr2, tr2.data[i].node.contents, tr2.data[i].children)
                        /\ Len(tr2.data[i].children) = Len(EntriesOf[tr2.data[i].node.contents])
      BY Zenon DEF ChildrenRight
    <2>1. CASE i = x
      <3>1. ChildrenOf(tr2, n.contents, children)
        BY <1>6, ChildrenKept DEF n
      <3> QED BY <1>2, <1>4, <2>1, <3>1, Zenon DEF n
    <2>2. CASE i # x
      <3>1. i \in 1..L /\ tr2.data[i] = tr.data[i]
        BY <1>4, <2>2, SMTT(40)
      <3>2. /\ ChildrenOf(tr, tr.data[i].node.contents, tr.data[i].children)
            /\ Len(tr.data[i].children) = Len(EntriesOf[tr.data[i].node.contents])
        BY <3>1, Zenon DEF TrackerOK, ChildrenRight, L
      <3> QED BY <1>6, <3>1, <3>2, ChildrenKept
    <2> QED BY <2>1, <2>2, Zenon
  <1>10. TrackerOK(tr2)
    BY <1>3, <1>4, <1>7, <1>9, Zenon DEF TrackerOK, L
  <1> QED BY <1>5, <1>6, <1>8, <1>10, Zenon DEF L

(* A name in the root gets the inode of its node, if it has none yet.      *)
LEMMA Registered ==
    ASSUME NEW tr, TrackerOK(tr), NEW names, RootOK(tr, names),
           NEW n \in Listed, NEW ino, Leads(tr, ino, RootNode[n]),
           NEW names2, names2 = WithName(names, n, ino)
    PROVE  RootOK(tr, names2) /\ \A m \in DOMAIN names : names2[m] = names[m]
  <1>1. RootOK(tr, names2)
    BY Zenon DEF RootOK, WithName
  <1>2. n \in DOMAIN names => names[n] = ino
    BY OneInode DEF RootOK
  <1> QED BY <1>1, <1>2, Zenon DEF WithName

-----------------------------------------------------------------------------
\* What one step keeps of inodes that are already given.
DataKept(tr, tr2) ==
    \A i \in 1..Len(tr.data) :
        /\ tr2.data[i].node = tr.data[i].node
        /\ tr.data[i].state = "Populated" => tr2.data[i] = tr.data[i]

StableStep ==
    /\ \A i \in DOMAIN tracker.data :
          /\ tracker'.data[i].node = tracker.data[i].node
          /\ IsPopulated(tracker.data[i]) => tracker'.data[i] = tracker.data[i]
    /\ \A n \in DOMAIN rootNodes : rootNodes'[n] = rootNodes[n]

(* A step of a thread is right if its own state and what it adds are.      *)
LEMMA StepOK ==
    ASSUME FsInv, NEW t \in Threads, NEW r, th' = [th EXCEPT ![t] = r],
           NEW tr, tracker' = tr, TrackerOK(tr), Extends(tracker, tr), DataKept(tracker, tr),
           ThreadOK(tr, r),
           NEW names, rootNodes' = names, RootOK(tr, names),
           \A n \in DOMAIN rootNodes : names[n] = rootNodes[n],
           NEW new, told' = told \cup new, ToldOK(tr, new)
    PROVE  FsInv' /\ StableStep
  <1>1. \A u \in Threads : ThreadOK(tr, th[u])
    BY ThreadKept, Zenon DEF FsInv
  <1>2. DOMAIN th' = Threads /\ th'[t] = r /\ \A u \in Threads : u # t => th'[u] = th[u]
    BY Zenon DEF FsInv
  <1>3. \A u \in Threads : ThreadOK(tr, th'[u])
    BY <1>1, <1>2, Zenon
  <1>4. ToldOK(tr, told')
    <2>1. \A x \in told : Leads(tr, x[1], x[2])
      BY LeadsKept, Zenon DEF FsInv, ToldOK
    <2> QED BY <2>1, Zenon DEF ToldOK
  <1>5. FsInv'
    BY <1>2, <1>3, <1>4, Zenon DEF FsInv
  <1>6. DOMAIN tracker.data = 1..Len(tracker.data)
    BY SMTT(40) DEF FsInv, TrackerOK
  <1>7. StableStep
    BY <1>6 DEF StableStep, DataKept, IsPopulated
  <1> QED BY <1>5, <1>7, Zenon

(* ... and most steps only move the thread, or tell the kernel something.  *)
LEMMA MoveOK ==
    ASSUME FsInv, NEW t \in Threads, NEW r, th' = [th EXCEPT ![t] = r], ThreadOK(tracker, r),
           tracker' = tracker, rootNodes' = rootNodes,
           NEW new, told' = told \cup new, ToldOK(tracker, new)
    PROVE  FsInv' /\ StableStep
  <1>1. PICK tr : tr = tracker
    OBVIOUS
  <1>2. PICK names : names = rootNodes
    BY Zenon
  <1>3. TrackerOK(tr) /\ RootOK(tr, names) /\ ThreadOK(tr, r) /\ ToldOK(tr, new)
    BY <1>1, <1>2, Zenon DEF FsInv
  <1>4. Extends(tracker, tr) /\ DataKept(tracker, tr)
    BY <1>1 DEF Extends, DataKept
  <1> QED BY <1>1, <1>2, <1>3, <1>4, StepOK, Zenon

(* ... and nothing at all when the request fails.                          *)
LEMMA MoveOnlyOK ==
    ASSUME FsInv, NEW t \in Threads, NEW r, th' = [th EXCEPT ![t] = r], ThreadOK(tracker, r),
           tracker' = tracker, rootNodes' = rootNodes, told' = told
    PROVE  FsInv' /\ StableStep
  <1>1. PICK new : new = {}
    BY Zenon
  <1>2. told' = told \cup new /\ ToldOK(tracker, new)
    BY <1>1, Zenon DEF ToldOK
  <1> QED BY <1>2, MoveOK, Zenon

(* An idle thread knows nothing.                                           *)
LEMMA IdleOK ==
    ASSUME NEW tr PROVE ThreadOK(tr, Idle)
  BY DEF ThreadOK, Idle

(* A reply with the tracker's data of an inode that it has.                *)
LEMMA ReplyDataOK ==
    ASSUME FsInv, NEW t \in Threads, NEW ino, Known(tracker, ino),
           ReplyData(t, ino), tracker' = tracker, rootNodes' = rootNodes
    PROVE  FsInv' /\ StableStep
  <1>1. PICK new : new = {<<ino, Get(tracker, ino).node>>}
    BY Zenon
  <1>2. th' = [th EXCEPT ![t] = Idle] /\ told' = told \cup new
    BY <1>1 DEF ReplyData, Reply
  <1>3. Leads(tracker, ino, Get(tracker, ino).node)
    BY KnownData DEF FsInv
  <1>4. ToldOK(tracker, new)
    BY <1>1, <1>3 DEF ToldOK
  <1> QED BY <1>2, <1>4, IdleOK, MoveOK, Zenon

(* A request that fails.                                                   *)
LEMMA ReplyErrorOK ==
    ASSUME FsInv, NEW t \in Threads, ReplyError(t), tracker' = tracker, rootNodes' = rootNodes
    PROVE  FsInv' /\ StableStep
  BY IdleOK, MoveOnlyOK, Zenon DEF ReplyError, MoveTo

-----------------------------------------------------------------------------
(* lookup of a name in the root.                                           *)
LEMMA LookupRootOK ==
    ASSUME FsInv, NEW t \in Threads,
           \/ \E n \in Listed \cup {"no such name"} : LookupRoot(t, n)
           \/ RootNameKnown(t) \/ ReplyKnown(t) \/ FetchRootNode(t)
    PROVE  FsInv' /\ StableStep
  <1>1. TrackerOK(tracker) /\ ThreadOK(tracker, th[t]) /\ RootOK(tracker, rootNodes)
    BY Zenon DEF FsInv
  <1>2. ASSUME NEW n, LookupRoot(t, n) PROVE FsInv' /\ StableStep
    <2>1. ThreadOK(tracker, [pc |-> "lookup", name |-> n])
      BY Zenon DEF ThreadOK
    <2> QED BY <1>2, <2>1, MoveOnlyOK, Zenon DEF LookupRoot, MoveTo
  <1>3. CASE RootNameKnown(t)
    <2>1. PICK r : r = IF th[t].name \in DOMAIN rootNodes THEN [pc |-> "known", ino |-> rootNodes[th[t].name]]
                       ELSE [pc |-> "fetch", name |-> th[t].name]
      BY ZenonT(40)
    <2>2. th' = [th EXCEPT ![t] = r] /\ tracker' = tracker /\ rootNodes' = rootNodes /\ told' = told
      BY <1>3, <2>1, SMTT(40) DEF RootNameKnown, MoveTo
    <2>3. ThreadOK(tracker, r)
      <3>1. CASE th[t].name \in DOMAIN rootNodes
        <4>1. r = [pc |-> "known", ino |-> rootNodes[th[t].name]]
          BY <2>1, <3>1, Zenon
        <4>2. Known(tracker, rootNodes[th[t].name])
          BY <1>1, <3>1, ZenonT(40) DEF RootOK, Leads
        <4> QED BY <4>1, <4>2, Zenon DEF ThreadOK
      <3>2. CASE th[t].name \notin DOMAIN rootNodes
        <4>1. r = [pc |-> "fetch", name |-> th[t].name]
          BY <2>1, <3>2, Zenon
        <4> QED BY <4>1, Zenon DEF ThreadOK
      <3> QED BY <3>1, <3>2, ZenonT(40)
    <2> QED BY <2>2, <2>3, MoveOnlyOK, Zenon
  <1>4. CASE ReplyKnown(t)
    <2>1. Known(tracker, th[t].ino)
      BY <1>1, <1>4, SMTT(40) DEF ReplyKnown, ThreadOK
    <2> QED BY <1>4, <2>1, ReplyDataOK, Zenon DEF ReplyKnown
  <1>5. CASE FetchRootNode(t)
    <2>1. CASE ReplyError(t)
      BY <1>5, <2>1, ReplyErrorOK, SMTT(40) DEF FetchRootNode
    <2>2. CASE th[t].name \in Listed /\ MoveTo(t, [pc |-> "again", name |-> th[t].name]) /\ UNCHANGED told
      <3>1. ThreadOK(tracker, [pc |-> "again", name |-> th[t].name])
        BY <2>2, Zenon DEF ThreadOK
      <3> QED BY <1>5, <2>2, <3>1, MoveOnlyOK, ZenonT(40) DEF FetchRootNode, MoveTo
    <2> QED BY <1>5, <2>1, <2>2, ZenonT(40) DEF FetchRootNode
  <1> QED BY <1>2, <1>3, <1>4, <1>5, Zenon

(* ... which another thread may have registered meanwhile ...              *)
LEMMA BeatenOK ==
    ASSUME FsInv, NEW t \in Threads, CheckBeaten(t) \/ ReplyBeaten(t) \/ LockRoot(t)
    PROVE  FsInv' /\ StableStep
  <1>1. TrackerOK(tracker) /\ ThreadOK(tracker, th[t]) /\ RootOK(tracker, rootNodes)
    BY DEF FsInv
  <1>2. CASE CheckBeaten(t)
    <2>1. PICK n : n = th[t].name
      BY Zenon
    <2>2. tracker' = tracker /\ rootNodes' = rootNodes /\ told' = told
      BY <1>2, Zenon DEF CheckBeaten
    <2>3. CASE n \in DOMAIN rootNodes
      <3>1. th' = [th EXCEPT ![t] = [pc |-> "beaten", ino |-> rootNodes[n]]]
        BY <1>2, <2>1, <2>3, Zenon DEF CheckBeaten, MoveTo
      <3>2. Known(tracker, rootNodes[n])
        BY <1>1, <2>3, Zenon DEF RootOK, Leads
      <3>3. ThreadOK(tracker, [pc |-> "beaten", ino |-> rootNodes[n]])
        BY <3>2 DEF ThreadOK
      <3> QED BY <2>2, <3>1, <3>3, MoveOnlyOK, Zenon
    <2>4. CASE n \notin DOMAIN rootNodes
      <3>1. th' = [th EXCEPT ![t] = [pc |-> "lock", name |-> n]]
        BY <1>2, <2>1, <2>4 DEF CheckBeaten, MoveTo
      <3>2. ThreadOK(tracker, [pc |-> "lock", name |-> n])
        BY <1>1, <1>2, <2>1, Zenon DEF ThreadOK, CheckBeaten
      <3> QED BY <2>2, <3>1, <3>2, MoveOnlyOK, ZenonT(40)
    <2> QED BY <2>3, <2>4
  <1>3. CASE ReplyBeaten(t)
    <2>1. Known(tracker, th[t].ino)
      BY <1>1, <1>3, Zenon DEF ReplyBeaten, ThreadOK
    <2> QED BY <1>3, <2>1, ReplyDataOK, SMTT(40) DEF ReplyBeaten
  <1>4. CASE LockRoot(t)
    <2>1. ThreadOK(tracker, [pc |-> "insert", name |-> th[t].name])
      BY <1>1, <1>4, ZenonT(40) DEF ThreadOK, LockRoot
    <2> QED BY <1>4, <2>1, MoveOnlyOK, ZenonT(40) DEF LockRoot, MoveTo
  <1> QED BY <1>2, <1>3, <1>4

(* Adding an inode keeps the data of the others.                           *)
LEMMA PutKeeps ==
    ASSUME FsInv, NEW n \in Nodes, NEW tr, tr = PutNode(tracker, n)
    PROVE  /\ TrackerOK(tr) /\ Extends(tracker, tr) /\ DataKept(tracker, tr)
           /\ Leads(tr, InodeOf(tr, n), n) /\ RootOK(tr, rootNodes)
  <1>1. /\ TrackerOK(tr) /\ Extends(tracker, tr) /\ Leads(tr, InodeOf(tr, n), n)
        /\ \A i \in 1..Len(tracker.data) : tr.data[i] = tracker.data[i]
    BY PutOK, Zenon DEF FsInv
  <1>2. DataKept(tracker, tr)
    BY <1>1, Zenon DEF DataKept
  <1>3. RootOK(tr, rootNodes)
    BY <1>1, LeadsKept DEF RootOK, FsInv
  <1> QED BY <1>1, <1>2, <1>3, ZenonT(40)

(* ... or is registered under both write locks.                            *)
LEMMA InsertRootOK ==
    ASSUME FsInv, NEW t \in Threads, InsertRoot(t)
    PROVE  FsInv' /\ StableStep
  <1>1. PICK n : n = th[t].name
    OBVIOUS
  <1>2. n \in Listed
    BY <1>1, Zenon DEF FsInv, ThreadOK, InsertRoot
  <1>3. RootNode[n] \in Nodes
    BY <1>2, MountAssumption
  <1>4. PICK tr : tr = PutNode(tracker, RootNode[n])
    OBVIOUS
  <1>5. PICK ino : ino = InodeOf(tr, RootNode[n])
    OBVIOUS
  <1>6. PICK names : names = WithName(rootNodes, n, ino)
    OBVIOUS
  <1>7. PICK new : new = {<<ino, RootNode[n]>>}
    BY Zenon
  <1>8. /\ tracker' = tr /\ rootNodes' = names /\ told' = told \cup new
        /\ th' = [th EXCEPT ![t] = Idle]
    BY <1>1, <1>4, <1>5, <1>6, <1>7, Zenon DEF InsertRoot, Reply
  <1>9. /\ TrackerOK(tr) /\ Extends(tracker, tr) /\ DataKept(tracker, tr)
        /\ Leads(tr, ino, RootNode[n]) /\ RootOK(tr, rootNodes)
    BY <1>3, <1>4, <1>5, PutKeeps, Zenon
  <1>10. RootOK(tr, names) /\ \A m \in DOMAIN rootNodes : names[m] = rootNodes[m]
    BY <1>2, <1>6, <1>9, Registered
  <1>11. ToldOK(tr, new)
    BY <1>7, <1>9, SMTT(40) DEF ToldOK
  <1> QED BY <1>8, <1>9, <1>10, <1>11, IdleOK, StepOK, Zenon

-----------------------------------------------------------------------------
(* The kernel only asks for inodes that the tracker knows.                 *)
LEMMA ToldKnown ==
    ASSUME FsInv, NEW ino \in Inodes PROVE Known(tracker, ino)
  BY DEF FsInv, ToldOK, Leads, Inodes

(* Requests below the root, until the directory was fetched ...            *)
LEMMA ReadChildrenOK ==
    ASSUME FsInv, NEW t \in Threads,
           \/ \E ino \in Inodes : Readdir(t, ino) \/ \E n \in ChildNames : Lookup(t, ino, n)
           \/ ReadChildren(t) \/ GetDirectory(t)
    PROVE  FsInv' /\ StableStep
  <1>1. TrackerOK(tracker) /\ ThreadOK(tracker, th[t])
    BY SMTT(40) DEF FsInv
  <1>2. ASSUME NEW ino \in Inodes, NEW n, Lookup(t, ino, n) PROVE FsInv' /\ StableStep
    <2>1. Known(tracker, ino)
      BY ToldKnown, Zenon
    <2>2. ThreadOK(tracker, [pc |-> "children", ino |-> ino, name |-> n])
      BY <2>1, Zenon DEF ThreadOK
    <2> QED BY <1>2, <2>2, MoveOnlyOK, Zenon DEF Lookup, MoveTo
  <1>3. CASE ReadChildren(t)
    <2>1. PICK ino : ino = th[t].ino
      BY SMTT(40)
    <2>2. Known(tracker, ino) /\ tracker' = tracker /\ rootNodes' = rootNodes
      BY <1>1, <1>3, <2>1, Zenon DEF ReadChildren, ThreadOK
    <2>3. CASE ReplyError(t)
      BY <2>2, <2>3, ReplyErrorOK, SMTT(40)
    <2>4. CASE /\ IsPopulated(Get(tracker, ino)) /\ UNCHANGED told
               /\ th' = [th EXCEPT ![t] = [pc |-> "pick", name |-> th[t].name,
                                            children |-> Get(tracker, ino).children]]
      <3>1. PICK r : r = [pc |-> "pick", name |-> th[t].name, children |-> Get(tracker, ino).children]
        BY ZenonT(40)
      <3>2. ino - FirstInode + 1 \in 1..Len(tracker.data)
        BY <1>1, <2>2, KnownData, Zenon
      <3>3. ChildrenOf(tracker, Get(tracker, ino).node.contents, Get(tracker, ino).children)
        BY <1>1, <2>4, <3>2, SMTT(40) DEF TrackerOK, ChildrenRight, Get, IsPopulated
      <3>4. ThreadOK(tracker, r)
        BY <3>1, <3>3, Zenon DEF ThreadOK, ChildrenOf
      <3> QED BY <2>2, <2>4, <3>1, <3>4, MoveOnlyOK, Zenon
    <2>5. CASE /\ UNCHANGED told
               /\ th' = [th EXCEPT ![t] = [pc |-> "get", ino |-> ino, name |-> th[t].name]]
      <3>1. ThreadOK(tracker, [pc |-> "get", ino |-> ino, name |-> th[t].name])
        BY <2>2, Zenon DEF ThreadOK
      <3> QED BY <2>2, <2>5, <3>1, MoveOnlyOK, ZenonT(40)
    <2> QED BY <1>3, <2>1, <2>2, <2>3, <2>4, <2>5 DEF ReadChildren, MoveTo
  <1>4. CASE GetDirectory(t)
    <2>1. CASE ReplyError(t)
      BY <1>4, <2>1, ReplyErrorOK, ZenonT(40) DEF GetDirectory
    <2>2. CASE /\ Get(tracker, th[t].ino).node.contents \in DOMAIN EntriesOf
               /\ MoveTo(t, [pc |-> "populate", ino |-> th[t].ino, name |-> th[t].name])
               /\ UNCHANGED told
      <3>1. Known(tracker, th[t].ino)
        BY <1>1, <1>4, Zenon DEF GetDirectory, ThreadOK
      <3>2. ThreadOK(tracker, [pc |-> "populate", ino |-> th[t].ino, name |-> th[t].name])
        BY <2>2, <3>1, Zenon DEF ThreadOK
      <3> QED BY <1>4, <2>2, <3>2, MoveOnlyOK, ZenonT(40) DEF GetDirectory, MoveTo
    <2> QED BY <1>4, <2>1, <2>2 DEF GetDirectory
  <1> QED BY <1>2, <1>3, <1>4, Zenon DEF Readdir

(* ... while its children get their inodes ...                             *)
LEMMA AllotChildOK ==
    ASSUME FsInv, NEW t \in Threads, LockTracker(t) \/ AllotChild(t)
    PROVE  FsInv' /\ StableStep
  <1>1. TrackerOK(tracker) /\ ThreadOK(tracker, th[t])
    BY DEF FsInv
  <1>2. PICK ino : ino = th[t].ino
    OBVIOUS
  <1>3. PICK c : c = Get(tracker, ino).node.contents
    OBVIOUS
  <1>4. CASE LockTracker(t)
    <2>1. PICK r : r = [pc |-> "children inodes", ino |-> ino, name |-> th[t].name, children |-> <<>>]
      BY Zenon
    <2>2. th' = [th EXCEPT ![t] = r] /\ tracker' = tracker /\ rootNodes' = rootNodes /\ told' = told
      BY <1>2, <1>4, <2>1, Zenon DEF LockTracker, MoveTo
    <2>3. Known(tracker, ino) /\ c \in DOMAIN EntriesOf
      BY <1>1, <1>2, <1>3, <1>4, Zenon DEF LockTracker, ThreadOK
    <2>4. <<>> \in Seq(Child) /\ Len(<<>>) = 0 /\ Len(EntriesOf[c]) \in Nat
      BY <2>3, MountAssumption
    <2>5. ChildrenOf(tracker, c, <<>>)
      BY <2>3, <2>4, SMTT(40) DEF ChildrenOf
    <2>6. ThreadOK(tracker, r)
      BY <1>3, <2>1, <2>3, <2>5, Zenon DEF ThreadOK
    <2> QED BY <2>2, <2>6, MoveOnlyOK, Zenon
  <1>5. CASE AllotChild(t)
    <2>1. PICK children : children = th[t].children
      OBVIOUS
    <2>2. Known(tracker, ino) /\ ChildrenOf(tracker, c, children) /\ EntriesAt(ino) = EntriesOf[c]
      BY <1>1, <1>2, <1>3, <1>5, <2>1, Zenon DEF AllotChild, ThreadOK, EntriesAt
    <2>3. PICK e : e = EntriesOf[c][Len(children) + 1]
      OBVIOUS
    <2>4. PICK tr : tr = PutNode(tracker, e.node)
      OBVIOUS
    <2>5. PICK child : child = [name |-> e.name, node |-> e.node, ino |-> InodeOf(tr, e.node)]
      BY Zenon
    <2>6. PICK more : more = Append(children, child)
      BY ZenonT(40)
    <2>7. PICK r : r = [pc |-> "children inodes", ino |-> ino, name |-> th[t].name, children |-> more]
      BY Zenon
    <2>8. /\ Len(children) < Len(EntriesOf[c])
          /\ th' = [th EXCEPT ![t] = r] /\ tracker' = tr /\ rootNodes' = rootNodes /\ told' = told
      BY <1>2, <1>5, <2>1, <2>2, <2>3, <2>4, <2>5, <2>6, <2>7, Zenon DEF AllotChild, MoveTo
    <2>9. /\ EntriesOf[c] \in Seq(NamedNode) /\ Len(EntriesOf[c]) \in Nat
          /\ children \in Seq(Child) /\ Len(children) \in Nat
      <3>1. c \in DOMAIN EntriesOf /\ children \in Seq(Child)
        BY <2>2, Zenon DEF ChildrenOf
      <3> QED BY <3>1, MountAssumption, SMTT(40)
    <2>10. e \in NamedNode /\ e.name \in Names /\ e.node \in Nodes
      <3>1. Len(children) + 1 \in 1..Len(EntriesOf[c])
        BY <2>8, <2>9
      <3>2. e \in NamedNode
        BY <2>3, <2>9, <3>1
      <3> QED BY <3>2 DEF NamedNode
    <2>11. /\ TrackerOK(tr) /\ Extends(tracker, tr) /\ DataKept(tracker, tr)
           /\ Leads(tr, InodeOf(tr, e.node), e.node) /\ RootOK(tr, rootNodes)
      BY <2>4, <2>10, PutKeeps, Zenon
    <2>12. InodeOf(tr, e.node) \in Nat
      BY <2>11, KnownData, Zenon DEF Leads
    <2>13. /\ child \in Child /\ child.name = e.name /\ child.node = e.node
           /\ Leads(tr, child.ino, child.node)
      BY <2>5, <2>10, <2>11, <2>12, Zenon DEF Child
    <2>14. /\ more \in Seq(Child) /\ Len(more) = Len(children) + 1 /\ more[Len(children) + 1] = child
           /\ \A i \in 1..Len(children) : more[i] = children[i]
      BY <2>6, <2>9, <2>13
    <2>15. ChildrenOf(tr, c, children)
      BY <2>2, <2>11, ChildrenKept, Zenon
    <2>16. ChildrenOf(tr, c, more)
      <3>1. ASSUME NEW i \in 1..Len(more)
            PROVE  /\ more[i].name = EntriesOf[c][i].name
                   /\ more[i].node = EntriesOf[c][i].node
                   /\ Leads(tr, more[i].ino, more[i].node)
        <4>1. CASE i = Len(children) + 1
          BY <2>3, <2>13, <2>14, <4>1, Zenon
        <4>2. CASE i # Len(children) + 1
          <5>1. i \in 1..Len(children)
            BY <2>9, <2>14, <4>2
          <5> QED BY <2>14, <2>15, <5>1 DEF ChildrenOf
        <4> QED BY <4>1, <4>2, Zenon
      <3>2. Len(more) <= Len(EntriesOf[c])
        BY <2>8, <2>9, <2>14, SMTT(40)
      <3> QED BY <2>14, <2>15, <3>1, <3>2, Zenon DEF ChildrenOf
    <2>17. Known(tr, ino) /\ Get(tr, ino).node.contents = c
      BY <1>3, <2>2, <2>11, ZenonT(40) DEF Extends
    <2>18. ThreadOK(tr, r)
      BY <2>7, <2>16, <2>17, Zenon DEF ThreadOK
    <2>19. PICK names : names = rootNodes
      OBVIOUS
    <2>20. PICK new : new = {}
      BY Zenon
    <2>21. told' = told \cup new /\ ToldOK(tr, new)
      BY <2>8, <2>20 DEF ToldOK
    <2> QED BY <2>8, <2>11, <2>18, <2>19, <2>21, StepOK, Zenon
  <1> QED BY <1>4, <1>5

(* ... and when it has them all.                                           *)
LEMMA PopulateOK ==
    ASSUME FsInv, NEW t \in Threads, PopulateDirectory(t)
    PROVE  FsInv' /\ StableStep
  <1>1. TrackerOK(tracker) /\ ThreadOK(tracker, th[t])
    BY DEF FsInv
  <1>2. PICK ino : ino = th[t].ino
    OBVIOUS
  <1>3. PICK children : children = th[t].children
    OBVIOUS
  <1>4. PICK tr : tr = Replace(tracker, ino, [node |-> Get(tracker, ino).node, state |-> "Populated",
                                              children |-> children])
    OBVIOUS
  <1>5. PICK r : r = [pc |-> "pick", name |-> th[t].name, children |-> children]
    BY ZenonT(40)
  <1>6. th' = [th EXCEPT ![t] = r] /\ tracker' = tr /\ rootNodes' = rootNodes /\ told' = told
    BY <1>2, <1>3, <1>4, <1>5, Zenon DEF PopulateDirectory, MoveTo
  <1>7. /\ Known(tracker, ino) /\ ChildrenOf(tracker, Get(tracker, ino).node.contents, children)
        /\ Len(children) = Len(EntriesOf[Get(tracker, ino).node.contents])
    BY <1>1, <1>2, <1>3, Zenon DEF PopulateDirectory, ThreadOK, EntriesAt
  <1>8. TrackerOK(tr) /\ Extends(tracker, tr) /\ DataKept(tracker, tr)
    <2>1. TrackerOK(tracker)
      BY <1>1, Zenon DEF FsInv
    <2>2. /\ TrackerOK(tr) /\ Extends(tracker, tr)
          /\ \A i \in 1..Len(tracker.data) :
                /\ tr.data[i].node = tracker.data[i].node
                /\ tracker.data[i].state = "Populated" => tr.data[i] = tracker.data[i]
      BY <1>4, <1>7, <2>1, ReplaceOK, SMTT(40)
    <2> QED BY <2>2, Zenon DEF DataKept
  <1>9. ChildrenOf(tr, Get(tracker, ino).node.contents, children)
    BY <1>7, <1>8, ChildrenKept
  <1>10. ThreadOK(tr, r)
    BY <1>5, <1>9, Zenon DEF ThreadOK, ChildrenOf
  <1>11. RootOK(tr, rootNodes)
    BY <1>8, LeadsKept, Zenon DEF RootOK, FsInv
  <1>12. PICK names : names = rootNodes
    OBVIOUS
  <1>13. PICK new : new = {}
    BY Zenon
  <1>14. told' = told \cup new /\ ToldOK(tr, new)
    BY <1>6, <1>13 DEF ToldOK
  <1> QED BY <1>6, <1>8, <1>10, <1>11, <1>12, <1>14, StepOK, Zenon

(* The reply with one child, or with all.                                  *)
LEMMA PickChildOK ==
    ASSUME FsInv, NEW t \in Threads, PickChild(t)
    PROVE  FsInv' /\ StableStep
  <1>1. PICK children : children = th[t].children
    OBVIOUS
  <1>2. /\ children \in Seq(Child) /\ tracker' = tracker /\ rootNodes' = rootNodes
        /\ \A i \in 1..Len(children) : Leads(tracker, children[i].ino, children[i].node)
    BY <1>1, ZenonT(40) DEF FsInv, ThreadOK, PickChild
  <1>3. \A c \in Range(children) : Leads(tracker, c.ino, c.node)
    BY <1>2 DEF Range
  <1>4. CASE th[t].name = All
    <2>1. PICK new : new = {<<c.ino, c.node>> : c \in Range(children)}
      BY Zenon
    <2>2. th' = [th EXCEPT ![t] = Idle] /\ told' = told \cup new
      BY <1>1, <1>4, <2>1, ZenonT(40) DEF PickChild, Reply
    <2>3. ToldOK(tracker, new)
      <3>1. ASSUME NEW x \in new PROVE Leads(tracker, x[1], x[2])
        <4>1. PICK c \in Range(children) : x = <<c.ino, c.node>>
          BY <2>1, <3>1, Zenon
        <4>2. x[1] = c.ino /\ x[2] = c.node
          BY <4>1
        <4> QED BY <1>3, <4>1, <4>2, Zenon
      <3> QED BY <3>1, Zenon DEF ToldOK
    <2> QED BY <1>2, <2>2, <2>3, IdleOK, MoveOK, ZenonT(40)
  <1>5. CASE th[t].name # All
    <2>1. PICK named : named = {c \in Range(children) : c.name = th[t].name}
      BY Zenon
    <2>2. CASE named = {}
      <3>1. ReplyError(t)
        BY <1>1, <1>5, <2>1, <2>2, Zenon DEF PickChild
      <3> QED BY <1>2, <3>1, ReplyErrorOK
    <2>3. CASE named # {}
      <3>1. PICK c : c = CHOOSE x \in named : TRUE
        OBVIOUS
      <3>2. c \in named
        BY <2>3, <3>1, Zenon
      <3>3. Known(tracker, c.ino)
        BY <1>3, <2>1, <3>2, SMTT(40) DEF Leads
      <3>4. ReplyData(t, c.ino)
        BY <1>1, <1>5, <2>1, <2>3, <3>1, Zenon DEF PickChild
      <3> QED BY <1>2, <3>3, <3>4, ReplyDataOK
    <2> QED BY <2>2, <2>3
  <1> QED BY <1>4, <1>5

-----------------------------------------------------------------------------
(* Where the listing goes after an entry.                                  *)
LEMMA NextEntryOK ==
    ASSUME NEW tr, NEW pos \in 0..Len(RootNames), NEW r \in NextEntry(pos)
    PROVE  ThreadOK(tr, r)
  <1>1. Len(RootNames) \in Nat
    BY MountAssumption
  <1>2. CASE r = Idle
    BY <1>2, IdleOK, SMTT(40)
  <1>3. CASE r = [pc |-> "list", pos |-> pos + 1] /\ pos # Len(RootNames)
    <2>1. r.pc = "list" /\ r.pos = pos + 1 /\ pos + 1 \in 1..Len(RootNames)
      BY <1>1, <1>3
    <2> QED BY <2>1, Zenon DEF ThreadOK
  <1> QED BY <1>2, <1>3 DEF NextEntry

(* The name listed at a position.                                          *)
LEMMA ListedName ==
    ASSUME NEW pos \in 1..Len(RootNames)
    PROVE  /\ RootNames[pos] \in Listed /\ RootNode[RootNames[pos]] \in Nodes
           /\ pos \in 0..Len(RootNames)
  <1>1. Len(RootNames) \in Nat /\ DOMAIN RootNames = 1..Len(RootNames)
    BY MountAssumption, SMTT(40)
  <1>2. RootNames[pos] \in Listed
    BY <1>1, SMTT(40) DEF Listed, Range
  <1> QED BY <1>1, <1>2, MountAssumption

(* Listing the root: names that are known already ...                      *)
LEMMA ListKnownOK ==
    ASSUME FsInv, NEW t \in Threads, ListRoot(t) \/ ListKnown(t)
    PROVE  FsInv' /\ StableStep
  <1>1. CASE ListRoot(t)
    <2>1. 0 \in 0..Len(RootNames)
      BY MountAssumption
    <2>2. PICK r \in NextEntry(0) : th' = [th EXCEPT ![t] = r]
      BY <1>1, Zenon DEF ListRoot, MoveTo
    <2>3. ThreadOK(tracker, r)
      BY <2>1, NextEntryOK
    <2> QED BY <1>1, <2>2, <2>3, MoveOnlyOK, Zenon DEF ListRoot
  <1>2. CASE ListKnown(t)
    <2>1. PICK pos : pos = th[t].pos
      BY SMTT(40)
    <2>2. pos \in 1..Len(RootNames) /\ tracker' = tracker /\ rootNodes' = rootNodes
      BY <1>2, <2>1, Zenon DEF ListKnown, FsInv, ThreadOK
    <2>3. PICK n : n = RootNames[pos]
      OBVIOUS
    <2>4. CASE n \in DOMAIN rootNodes
      <3>1. PICK new : new = {<<rootNodes[n], RootNode[n]>>}
        BY Zenon
      <3>2. PICK r \in NextEntry(pos) : th' = [th EXCEPT ![t] = r]
        BY <1>2, <2>1, <2>3, <2>4, SMTT(40) DEF ListKnown, MoveTo
      <3>3. told' = told \cup new
        BY <1>2, <2>1, <2>3, <2>4, <3>1, ZenonT(40) DEF ListKnown
      <3>4. ThreadOK(tracker, r)
        BY <2>2, ListedName, NextEntryOK, SMTT(40)
      <3>5. ToldOK(tracker, new)
        <4>1. ASSUME NEW x \in new PROVE x[1] = rootNodes[n] /\ x[2] = RootNode[n]
          BY <3>1, <4>1
        <4>2. Leads(tracker, rootNodes[n], RootNode[n])
          BY <2>4, Zenon DEF RootOK, FsInv
        <4> QED BY <4>1, <4>2, Zenon DEF ToldOK
      <3> QED BY <2>2, <3>2, <3>3, <3>4, <3>5, MoveOK, ZenonT(40)
    <2>5. CASE n \notin DOMAIN rootNodes
      <3>1. th' = [th EXCEPT ![t] = [pc |-> "allot", pos |-> pos]] /\ told' = told
        BY <1>2, <2>1, <2>3, <2>5, Zenon DEF ListKnown, MoveTo
      <3>2. ThreadOK(tracker, [pc |-> "allot", pos |-> pos])
        BY <2>2, Zenon DEF ThreadOK
      <3> QED BY <2>2, <3>1, <3>2, MoveOnlyOK, ZenonT(40)
    <2> QED BY <2>4, <2>5
  <1> QED BY <1>1, <1>2

(* ... names that get an inode ...                                         *)
LEMMA AllotOK ==
    ASSUME FsInv, NEW t \in Threads, Allot(t)
    PROVE  FsInv' /\ StableStep
  <1>1. PICK pos : pos = th[t].pos
    OBVIOUS
  <1>2. pos \in 1..Len(RootNames)
    BY <1>1, Zenon DEF Allot, FsInv, ThreadOK
  <1>3. PICK node : node = RootNode[RootNames[pos]]
    OBVIOUS
  <1>4. node \in Nodes
    BY <1>2, <1>3, ListedName
  <1>5. PICK tr : tr = PutNode(tracker, node)
    OBVIOUS
  <1>6. PICK r : r = [pc |-> "register", pos |-> pos, ino |-> InodeOf(tr, node)]
    BY ZenonT(40)
  <1>7. th' = [th EXCEPT ![t] = r] /\ tracker' = tr /\ rootNodes' = rootNodes /\ told' = told
    BY <1>1, <1>3, <1>5, <1>6, Zenon DEF Allot, MoveTo
  <1>8. /\ TrackerOK(tr) /\ Extends(tracker, tr) /\ DataKept(tracker, tr)
        /\ Leads(tr, InodeOf(tr, node), node) /\ RootOK(tr, rootNodes)
    BY <1>4, <1>5, PutKeeps, SMTT(40)
  <1>9. ThreadOK(tr, r)
    BY <1>2, <1>3, <1>6, <1>8, ZenonT(40) DEF ThreadOK
  <1>10. PICK names : names = rootNodes
    OBVIOUS
  <1>11. PICK new : new = {}
    BY Zenon
  <1>12. told' = told \cup new /\ ToldOK(tr, new)
    BY <1>7, <1>11 DEF ToldOK
  <1> QED BY <1>7, <1>8, <1>9, <1>10, <1>12, StepOK, Zenon

(* ... and, after the tracker's lock was released, their entry in the map. *)
LEMMA RegisterOK ==
    ASSUME FsInv, NEW t \in Threads, Register(t)
    PROVE  FsInv' /\ StableStep
  <1>1. PICK pos : pos = th[t].pos
    OBVIOUS
  <1>2. PICK ino : ino = th[t].ino
    OBVIOUS
  <1>3. PICK n : n = RootNames[pos]
    OBVIOUS
  <1>4. pos \in 1..Len(RootNames) /\ Leads(tracker, ino, RootNode[n]) /\ n \in Listed
    BY <1>1, <1>2, <1>3, ListedName, ZenonT(40) DEF Register, FsInv, ThreadOK
  <1>5. PICK tr : tr = tracker
    OBVIOUS
  <1>6. PICK names : names = WithName(rootNodes, n, ino)
    OBVIOUS
  <1>7. PICK new : new = {<<ino, RootNode[n]>>}
    BY Zenon
  <1>8. PICK r \in NextEntry(pos) : th' = [th EXCEPT ![t] = r]
    BY <1>1, ZenonT(40) DEF Register, MoveTo
  <1>9. tracker' = tr /\ rootNodes' = names /\ told' = told \cup new
    BY <1>1, <1>2, <1>3, <1>5, <1>6, <1>7, Zenon DEF Register
  <1>10. TrackerOK(tr) /\ Extends(tracker, tr) /\ DataKept(tracker, tr) /\ RootOK(tr, rootNodes)
    BY <1>5, Zenon DEF FsInv, Extends, DataKept
  <1>11. RootOK(tr, names) /\ \A m \in DOMAIN rootNodes : names[m] = rootNodes[m]
    BY <1>4, <1>5, <1>6, <1>10, Registered
  <1>12. ToldOK(tr, new)
    BY <1>4, <1>5, <1>7, SMTT(40) DEF ToldOK
  <1>13. ThreadOK(tr, r)
    BY <1>4, <1>8, ListedName, NextEntryOK
  <1> QED BY <1>8, <1>9, <1>10, <1>11, <1>12, <1>13, StepOK, Zenon

(* getattr and open.                                                       *)
LEMMA OpenOK ==
    ASSUME FsInv, NEW t \in Threads,
           \/ \E ino \in Inodes : Getattr(t, ino) \/ Open(t, ino)
           \/ BlobOpened(t)
    PROVE  FsInv' /\ StableStep
  <1>1. ASSUME NEW ino \in Inodes, Getattr(t, ino) PROVE FsInv' /\ StableStep
    <2>1. Known(tracker, ino)
      BY ToldKnown, SMTT(40)
    <2>2. ReplyData(t, ino)
      BY <1>1, <2>1, ZenonT(40) DEF Getattr, ReplyData
    <2> QED BY <1>1, <2>1, <2>2, ReplyDataOK, Zenon DEF Getattr
  <1>2. ASSUME NEW ino \in Inodes, Open(t, ino) PROVE FsInv' /\ StableStep
    <2>1. Known(tracker, ino)
      BY ToldKnown
    <2>2. ThreadOK(tracker, [pc |-> "open"])
      BY Zenon DEF ThreadOK
    <2> QED BY <1>2, <2>1, <2>2, MoveOnlyOK, ZenonT(40) DEF Open, MoveTo
  <1>3. CASE BlobOpened(t)
    BY <1>3, IdleOK, MoveOnlyOK, Zenon DEF BlobOpened, MoveTo
  <1> QED BY <1>1, <1>2, <1>3, SMTT(40)

-----------------------------------------------------------------------------
(* Whatever the threads do, the invariant is kept and inodes are stable.   *)
LEMMA FsPreserved ==
    ASSUME FsInv, [FsNext]_fsvars
    PROVE  FsInv' /\ [StableStep]_fsvars
  <1>1. ASSUME NEW t \in Threads, Request(t) PROVE FsInv' /\ StableStep
    BY <1>1, LookupRootOK, ReadChildrenOK, ListKnownOK, OpenOK, Zenon DEF Request
  <1>2. ASSUME NEW t \in Threads, Serve(t) PROVE FsInv' /\ StableStep
    BY <1>2, LookupRootOK, BeatenOK, InsertRootOK, ReadChildrenOK, AllotChildOK, PopulateOK, PickChildOK,
       ListKnownOK, AllotOK, RegisterOK, OpenOK, Zenon DEF Serve
  <1>3. CASE UNCHANGED fsvars
    BY <1>3, Zenon DEF fsvars, FsInv
  <1> QED BY <1>1, <1>2, <1>3, Zenon DEF FsNext

(* A new mount.                                                            *)
LEMMA FsStarts ==
    ASSUME FsInit PROVE FsInv
  <1>1. TrackerOK(tracker)
    BY DefaultOK DEF FsInit
  <1>2. DOMAIN th = Threads /\ \A t \in Threads : ThreadOK(tracker, th[t])
    BY IdleOK DEF FsInit
  <1>3. DOMAIN rootNodes = {} /\ told = {}
    BY DEF FsInit
  <1> QED BY <1>1, <1>2, <1>3 DEF FsInv, RootOK, ToldOK

(* The tables, the names, the children of directories, what handlers hold  *)
(* between their locks and what the kernel was told agree about inodes.    *)
THEOREM FsInvariance == FsSpec => []FsInv
  BY FsStarts, FsPreserved, PTL DEF FsSpec

(* However many handlers race: names lead to the inodes of their contents  *)
(* and each content has one inode.                                         *)
THEOREM InodesCorrect == FsSpec => []InodesRight
  <1>1. ASSUME FsInv PROVE InodesRight
    <2>1. TrackerOK(tracker) /\ tracker.data \in Seq(Data) /\ DOMAIN tracker.data = 1..Len(tracker.data)
      BY <1>1, SMTT(40) DEF FsInv, TrackerOK
    <2>2. \A n \in DOMAIN rootNodes :
             /\ Known(tracker, rootNodes[n])
             /\ Key(Get(tracker, rootNodes[n]).node) = Key(RootNode[n])
      BY <1>1, Zenon DEF FsInv, RootOK, Leads
    <2>3. ASSUME NEW d \in Range(tracker.data), IsPopulated(d)
          PROVE  /\ Len(d.children) = Len(EntriesOf[d.node.contents])
                 /\ \A i \in DOMAIN d.children :
                       /\ d.children[i].name = EntriesOf[d.node.contents][i].name
                       /\ Known(tracker, d.children[i].ino)
                       /\ Key(Get(tracker, d.children[i].ino).node) = Key(d.children[i].node)
      <3>1. PICK i \in 1..Len(tracker.data) : d = tracker.data[i]
        BY <2>1, Zenon DEF Range
      <3>2. /\ ChildrenOf(tracker, d.node.contents, d.children)
            /\ Len(d.children) = Len(EntriesOf[d.node.contents])
        BY <2>1, <2>3, <3>1, Zenon DEF TrackerOK, ChildrenRight, IsPopulated
      <3>3. DOMAIN d.children = 1..Len(d.children)
        BY <3>2, SMTT(40) DEF ChildrenOf
      <3> QED BY <3>2, <3>3, Zenon DEF ChildrenOf, Leads
    <2>4. NamesResolve
      BY <2>2, <2>3, ZenonT(40) DEF NamesResolve
    <2>5. \A x, y \in told : x[1] = y[1] <=> Key(x[2]) = Key(y[2])
      <3> SUFFICES ASSUME NEW x \in told, NEW y \in told
                   PROVE  x[1] = y[1] <=> Key(x[2]) = Key(y[2])
        BY Zenon
      <3>1. TrackerOK(tracker) /\ Leads(tracker, x[1], x[2]) /\ Leads(tracker, y[1], y[2])
        BY <1>1, Zenon DEF FsInv, ToldOK
      <3>2. PICK i, n, j, m : i = x[1] /\ n = x[2] /\ j = y[1] /\ m = y[2]
        BY Zenon
      <3>3. i = j <=> Key(n) = Key(m)
        BY <3>1, <3>2, OneInode, SMTT(40)
      <3> QED BY <3>2, <3>3, Zenon
    <2>6. ASSUME NEW i \in DOMAIN tracker.data, NEW j \in DOMAIN tracker.data,
                 Key(tracker.data[i].node) = Key(tracker.data[j].node)
          PROVE  i = j
      <3>1. i + FirstInode - 1 = j + FirstInode - 1
        <4>1. TablesRight(tracker) /\ i \in 1..Len(tracker.data) /\ j \in 1..Len(tracker.data)
          BY <1>1, <2>1, Zenon DEF FsInv, TrackerOK
        <4>2. /\ tracker.table[Key(tracker.data[i].node)] = i + FirstInode - 1
              /\ tracker.table[Key(tracker.data[j].node)] = j + FirstInode - 1
          BY <4>1, Zenon DEF TablesRight
        <4> QED BY <2>6, <4>2, Zenon
      <3>2. i \in Nat /\ j \in Nat
        BY <2>1, SMTT(40)
      <3> QED BY <3>1, <3>2, SMTT(40) DEF FirstInode
    <2>7. SameContentsSameInode
      BY <2>5, <2>6, Zenon DEF SameContentsSameInode
    <2> QED BY <2>4, <2>7, Zenon DEF InodesRight
  <1> QED BY <1>1, FsInvariance, PTL

(* An inode keeps its node, a populated directory its children (also when  *)
(* two threads populate it), and a name in the root its inode.             *)
THEOREM InodesKept == FsSpec => InodesStable
  <1>1. ASSUME FsInv, [FsNext]_fsvars PROVE [StableStep]_fsvars
    BY <1>1, FsPreserved
  <1> QED BY <1>1, FsInvariance, PTL DEF FsSpec, InodesStable, StableStep

-----------------------------------------------------------------------------
(* Listings of directories.                                                *)

Ascending(s) == \A i, j \in 1..Len(s) : i < j => s[i] < s[j]

\* All entries of s are among the first n.
AtMost(s, n) == \A i \in 1..Len(s) : s[i] <= n

\* The entries that have been received from the channel are 1..Received.
Received == produced - Len(queue)

ListingType ==
    /\ kind \in {"root", "directory"}
    /\ handle \in {"none", "open", "released"}
    /\ task \in {"none", "running", "ended"}
    /\ call \in {"none", "reading"}
    /\ count \in Nat /\ faulty \in Nat /\ produced \in Nat /\ offset \in Nat
    /\ queue \in Seq(Nat) /\ reply \in Seq(Nat) /\ listed \in Seq(Nat)

\* Only an open handle is read, and not beyond its end.
CallInv ==
    /\ call = "reading" => handle = "open" /\ ~ atEnd
    /\ kind = "directory" => task = "none"

(* Each call goes on after the last entry of the one before.               *)
DirectoryInv ==
    kind = "directory" =>
        /\ offset <= count
        /\ listed = [i \in 1..offset |-> i]
        /\ atEnd => offset = count

(* The channel holds the entries after those received, and is closed only  *)
(* when it has had all of them.                                            *)
ChannelInv ==
    kind = "root" =>
        /\ produced <= count /\ Len(queue) <= produced
        /\ \A i \in 1..Len(queue) : queue[i] = Received + i
        /\ task = "ended" /\ handle = "open" => produced = count

(* What the kernel got comes before what is in the reply, in order.        *)
OrderInv ==
    kind = "root" =>
        /\ Ascending(listed) /\ AtMost(listed, Received)
        /\ call = "reading" =>
              /\ Len(reply) <= ReplyCapacity
              /\ Ascending(listed \o reply) /\ AtMost(reply, Received)

\* Entries received and put into no reply.
Lost == Received - Len(listed) - (IF call = "reading" THEN Len(reply) ELSE 0)

(* One entry is lost for each reply that was full.                         *)
LostInv ==
    kind = "root" /\ faulty = 0 =>
        /\ handle # "released" => Lost * ReplyCapacity <= Len(listed)
        /\ atEnd => (count - Len(listed)) * ReplyCapacity <= Len(listed)

ListingInv ==
    ListingType /\ CallInv /\ DirectoryInv /\ ChannelInv /\ OrderInv /\ LostInv

-----------------------------------------------------------------------------

(* What concatenation does to two sequences.                               *)
LEMMA Concatenated ==
    ASSUME NEW s \in Seq(Nat), NEW t \in Seq(Nat)
    PROVE  /\ s \o t \in Seq(Nat) /\ Len(s \o t) = Len(s) + Len(t)
           /\ \A i \in 1..Len(s) + Len(t) :
                 (s \o t)[i] = IF i <= Len(s) THEN s[i] ELSE t[i - Len(s)]
  <1>1. s \o t \in Seq(Nat)
    OBVIOUS
  <1>2. Len(s \o t) = Len(s) + Len(t)
    OBVIOUS
  <1>3. \A i \in 1..Len(s) + Len(t) :
           (s \o t)[i] = IF i <= Len(s) THEN s[i] ELSE t[i - Len(s)]
    BY SMTT(40)
  <1> QED BY <1>1, <1>2, <1>3, Zenon

(* What concatenation and Append do to ascending sequences: the order of a *)
(* listing grows at its end.                                               *)
LEMMA AscendingConcat ==
    ASSUME NEW s \in Seq(Nat), NEW t \in Seq(Nat), NEW n \in Nat, NEW x \in Nat,
           Ascending(s \o t), AtMost(s, n), AtMost(t, n), n < x
    PROVE  /\ Ascending(s \o Append(t, x)) /\ AtMost(Append(t, x), x)
           /\ AtMost(s \o t, n)
  <1>1. /\ Append(t, x) \in Seq(Nat) /\ Len(Append(t, x)) = Len(t) + 1
        /\ \A i \in 1..Len(t) : Append(t, x)[i] = t[i]
        /\ Append(t, x)[Len(t) + 1] = x
    OBVIOUS
  <1>2. /\ s \o t \in Seq(Nat) /\ Len(s \o t) = Len(s) + Len(t)
        /\ \A i \in 1..Len(s) : (s \o t)[i] = s[i]
        /\ \A i \in Len(s) + 1..Len(s) + Len(t) : (s \o t)[i] = t[i - Len(s)]
    OBVIOUS
  <1>3. AtMost(s \o t, n)
    <2>1. ASSUME NEW i \in 1..Len(s) + Len(t) PROVE (s \o t)[i] <= n
      <3>1. CASE i <= Len(s)
        BY <1>2, <3>1 DEF AtMost
      <3>2. CASE i > Len(s)
        BY <1>2, <3>2, SMTT(40) DEF AtMost
      <3> QED BY <3>1, <3>2
    <2> QED BY <1>2, <2>1 DEF AtMost
  <1>4. /\ Len(s \o Append(t, x)) = Len(s) + Len(t) + 1
        /\ \A i \in 1..Len(s) + Len(t) : (s \o Append(t, x))[i] = (s \o t)[i]
        /\ (s \o Append(t, x))[Len(s) + Len(t) + 1] = x
    BY <1>1, <1>2, SMTT(40)
  <1>5. Ascending(s \o Append(t, x))
    <2>1. ASSUME NEW i \in 1..Len(s) + Len(t) + 1, NEW j \in 1..Len(s) + Len(t) + 1, i < j
          PROVE  (s \o Append(t, x))[i] < (s \o Append(t, x))[j]
      <3>1. i \in 1..Len(s) + Len(t) /\ (s \o Append(t, x))[i] = (s \o t)[i]
        BY <1>4, <2>1, SMTT(40)
      <3>2. CASE j = Len(s) + Len(t) + 1
        <4>1. (s \o t)[i] \in Nat /\ (s \o t)[i] <= n
          BY <1>2, <1>3, <3>1, SMTT(40) DEF AtMost
        <4>2. (s \o Append(t, x))[j] = x
          BY <1>4, <3>2, Zenon
        <4> QED BY <3>1, <4>1, <4>2, SMTT(40)
      <3>3. CASE j # Len(s) + Len(t) + 1
        <4>1. j \in 1..Len(s) + Len(t) /\ (s \o Append(t, x))[j] = (s \o t)[j]
          BY <1>4, <3>3
        <4> QED BY <1>2, <2>1, <3>1, <4>1, Zenon DEF Ascending
      <3> QED BY <3>2, <3>3, Zenon
    <2> QED BY <1>4, <2>1, Zenon DEF Ascending
  <1>6. AtMost(Append(t, x), x)
    BY <1>1 DEF AtMost
  <1> QED BY <1>3, <1>5, <1>6, Zenon

(* A bound on the entries may grow.                                        *)
LEMMA AtMostMore ==
    ASSUME NEW s \in Seq(Nat), NEW m \in Int, NEW n \in Int, m <= n, AtMost(s, m)
    PROVE  AtMost(s, n)
  BY DEF AtMost

(* Nothing follows after the empty sequence.                               *)
LEMMA ConcatEmpty ==
    ASSUME NEW s \in Seq(Nat) PROVE s \o <<>> = s
  OBVIOUS

(* Taking the head of the channel: the entry after those received.         *)
LEMMA TakeHead ==
    ASSUME NEW q \in Seq(Nat), NEW r \in Int, q # <<>>,
           \A i \in 1..Len(q) : q[i] = r + i
    PROVE  /\ Head(q) = r + 1 /\ Tail(q) \in Seq(Nat) /\ Len(Tail(q)) = Len(q) - 1
           /\ \A i \in 1..Len(Tail(q)) : Tail(q)[i] = (r + 1) + i
           /\ Len(q) > 0
  <1>1. Len(q) \in Nat /\ Len(q) > 0
    OBVIOUS
  <1>2. Head(q) = r + 1
    BY <1>1
  <1>3. /\ Tail(q) \in Seq(Nat) /\ Len(Tail(q)) = Len(q) - 1
        /\ \A i \in 1..Len(Tail(q)) : Tail(q)[i] = q[i + 1]
    BY <1>1, SMTT(40)
  <1> QED BY <1>1, <1>2, <1>3

-----------------------------------------------------------------------------
(* opendir, and the background task that fills the channel.                *)
LEMMA OpendirOK ==
    ASSUME ListingInv, Opendir PROVE ListingInv'
  <1> USE DEF ListingInv, ListingType, Opendir
  <1>1. ListingType' OBVIOUS
  <1>2. CallInv' BY DEF CallInv
  <1>3. DirectoryInv' BY DEF DirectoryInv
  <1>4. ChannelInv' BY Zenon DEF ChannelInv, Received
  <1>5. OrderInv' BY DEF OrderInv, Received
  <1>6. LostInv' BY Zenon DEF LostInv, Lost, Received
  <1> QED BY <1>1, <1>2, <1>3, <1>4, <1>5, <1>6, Zenon

(* The background task sends the next entry of list().                     *)
LEMMA ProduceOK ==
    ASSUME ListingInv, Produce PROVE ListingInv'
  <1> USE DEF ListingInv, ListingType, Produce
  <1>1. ListingType' OBVIOUS
  <1>2. CallInv' /\ DirectoryInv' BY DEF CallInv, DirectoryInv
  <1>3. Len(queue') = Len(queue) + 1 /\ Received' = Received /\ Received \in Int
    BY DEF Received
  <1>4. ChannelInv'
    <2>1. ASSUME kind = "root", NEW i \in 1..Len(queue) + 1 PROVE queue'[i] = Received + i
      <3>1. CASE i = Len(queue) + 1
        BY <3>1 DEF Received
      <3>2. CASE i # Len(queue) + 1
        BY <2>1, <3>2 DEF ChannelInv
      <3> QED BY <3>1, <3>2, Zenon
    <2>2. kind = "root" => \A i \in 1..Len(queue') : queue'[i] = Received' + i
      BY ONLY <1>3, <2>1
    <2>3. kind = "root" => produced' <= count /\ Len(queue') <= produced' /\ task' # "ended"
      BY <1>3 DEF ChannelInv
    <2> QED BY <2>2, <2>3, Zenon DEF ChannelInv
  <1>5. OrderInv' BY <1>3, SMTT(40) DEF OrderInv
  <1>6. LostInv' BY <1>3, Zenon DEF LostInv, Lost
  <1> QED BY <1>1, <1>2, <1>4, <1>5, <1>6, Zenon

(* The background task ends after the last entry, or when nobody listens.  *)
LEMMA TaskEndsOK ==
    ASSUME ListingInv, TaskEnds PROVE ListingInv'
  <1> USE DEF ListingInv, ListingType, TaskEnds
  <1>1. ListingType' BY Zenon
  <1>2. CallInv' /\ DirectoryInv' BY Zenon DEF CallInv, DirectoryInv
  <1>4. ChannelInv' BY Zenon DEF ChannelInv, Received
  <1>5. OrderInv' BY DEF OrderInv, Received
  <1>6. LostInv' BY Zenon DEF LostInv, Lost, Received
  <1> QED BY <1>1, <1>2, <1>4, <1>5, <1>6, Zenon

(* readdir starts at the offset the kernel gives it.                       *)
LEMMA ReaddirCallOK ==
    ASSUME ListingInv, ReaddirCall PROVE ListingInv'
  <1> USE DEF ListingInv, ListingType, ReaddirCall
  <1>1. ListingType' /\ Received' = Received BY DEF Received
  <1>2. CallInv' /\ DirectoryInv' BY Zenon DEF CallInv, DirectoryInv
  <1>4. ChannelInv' BY Zenon DEF ChannelInv, Received
  <1>5. OrderInv'
    <2>1. listed \o reply' = listed /\ Len(reply') = 0 /\ AtMost(reply', Received)
      BY ConcatEmpty, SMTT(40) DEF AtMost
    <2> QED BY <1>1, <2>1, ListingAssumption DEF OrderInv
  <1>6. LostInv' BY Zenon DEF LostInv, Lost, Received
  <1> QED BY <1>1, <1>2, <1>4, <1>5, <1>6, Zenon

(* releasedir drops the handle and with it the receiver.                   *)
LEMMA ReleasedirOK ==
    ASSUME ListingInv, Releasedir PROVE ListingInv'
  <1> USE DEF ListingInv, ListingType, Releasedir
  <1>1. ListingType' OBVIOUS
  <1>2. CallInv' /\ DirectoryInv' BY Zenon DEF CallInv, DirectoryInv
  <1>4. ChannelInv' BY DEF ChannelInv, Received
  <1>5. OrderInv'
    <2>1. Received \in Int /\ Received' \in Int /\ Received <= Received'
      BY DEF Received
    <2> QED BY <2>1, AtMostMore, Zenon DEF OrderInv
  <1>6. LostInv' BY Zenon DEF LostInv
  <1> QED BY <1>1, <1>2, <1>4, <1>5, <1>6, Zenon

-----------------------------------------------------------------------------
(* A call on the root that ends without an entry lost: the reply goes to   *)
(* the kernel, and an empty one comes only after all entries.              *)
LEMMA RootEndsOK ==
    ASSUME ListingInv, RootEnds PROVE ListingInv'
  <1> USE DEF ListingInv, ListingType
  <1>1. /\ kind = "root" /\ call = "reading" /\ queue = <<>> /\ task = "ended"
        /\ handle = "open" /\ ~ atEnd /\ produced = count
    BY Zenon DEF RootEnds, CallInv, ChannelInv
  <1>2. /\ UNCHANGED <<kind, count, handle, produced, task, reply, faulty, queue>>
        /\ call' = "none" /\ atEnd' = (reply = <<>>) /\ listed' = listed \o reply
        /\ offset' = IF reply = <<>> THEN offset ELSE offset + reply[Len(reply)]
    BY Zenon DEF RootEnds, EndCall
  <1>3. /\ listed' \in Seq(Nat) /\ Len(listed') = Len(listed) + Len(reply)
        /\ Received' = Received /\ Received = count
    BY <1>1, <1>2 DEF Received
  <1>4. offset' \in Nat
    <2>1. CASE reply = <<>> BY <1>2, <2>1, Zenon
    <2>2. CASE reply # <<>>
      <3>1. reply[Len(reply)] \in Nat BY <2>2
      <3> QED BY <1>2, <2>2, <3>1, SMTT(40)
    <2> QED BY <2>1, <2>2, Zenon
  <1>5. ListingType' BY <1>2, <1>3, <1>4, SMTT(40)
  <1>6. CallInv' /\ DirectoryInv' BY <1>1, <1>2, Zenon DEF CallInv, DirectoryInv
  <1>7. ChannelInv' BY <1>2, Zenon DEF ChannelInv, Received
  <1>8. OrderInv'
    <2>1. Ascending(listed') /\ AtMost(listed, Received) /\ AtMost(reply, Received)
      BY <1>1, <1>2, Zenon DEF OrderInv
    <2>2. AtMost(listed', Received')
      BY <1>1, <1>2, <1>3, <2>1, SMTT(40) DEF AtMost
    <2> QED BY <1>2, <2>1, <2>2, Zenon DEF OrderInv
  <1>9. LostInv'
    <2>1. SUFFICES ASSUME faulty = 0
                   PROVE  /\ Lost' * ReplyCapacity <= Len(listed')
                          /\ atEnd' => (count - Len(listed')) * ReplyCapacity <= Len(listed')
      BY <1>2, Zenon DEF LostInv
    <2>2. Lost' = Lost /\ Lost * ReplyCapacity <= Len(listed) /\ Lost = count - Len(listed')
      BY <1>1, <1>2, <1>3, <2>1, SMTT(40) DEF LostInv, Lost
    <2> QED BY <1>2, <1>3, <2>2, ListingAssumption, SMTT(40)
  <1> QED BY <1>5, <1>6, <1>7, <1>8, <1>9, Zenon

(* An error from list(): an entry is taken from the channel, the reply is  *)
(* dropped, and what the kernel has stays.                                 *)
LEMMA RootFailsOK ==
    ASSUME ListingInv, RootFails PROVE ListingInv'
  <1> USE DEF ListingInv, ListingType
  <1>1. /\ kind = "root" /\ call = "reading" /\ queue # <<>> /\ Head(queue) = faulty
        /\ UNCHANGED <<kind, count, handle, produced, task, offset, reply, listed, atEnd, faulty>>
        /\ queue' = Tail(queue) /\ call' = "none" /\ ~ atEnd
    BY Zenon DEF RootFails, CallInv
  <1>2. Received \in Int /\ \A i \in 1..Len(queue) : queue[i] = Received + i
    BY <1>1, SMTT(40) DEF ChannelInv, Received
  <1>3. /\ Head(queue) = Received + 1 /\ queue' \in Seq(Nat) /\ Len(queue') = Len(queue) - 1
        /\ \A i \in 1..Len(queue') : queue'[i] = (Received + 1) + i
        /\ Len(queue) > 0
    BY <1>1, <1>2, TakeHead, SMTT(40)
  <1>4. Received' = Received + 1 /\ Received >= 0
    BY <1>1, <1>3 DEF Received, ChannelInv
  <1>5. ListingType' BY <1>1, <1>3, Zenon
  <1>6. CallInv' /\ DirectoryInv' BY <1>1, Zenon DEF CallInv, DirectoryInv
  <1>7. ChannelInv' BY <1>1, <1>3, <1>4, SMTT(40) DEF ChannelInv
  <1>8. OrderInv'
    <2>1. Ascending(listed) /\ AtMost(listed, Received)
      BY <1>1, Zenon DEF OrderInv
    <2> QED BY <1>1, <1>2, <1>4, <2>1, AtMostMore, SMTT(40) DEF OrderInv
  <1>9. faulty' # 0 BY <1>1, <1>2, <1>3, <1>4, SMTT(40)
  <1> QED BY <1>5, <1>6, <1>7, <1>8, <1>9, Zenon DEF LostInv

(* An entry of the root: it goes into the reply, or the reply was full and *)
(* is sent without it.                                                     *)
LEMMA RootEntryOK ==
    ASSUME ListingInv, RootEntry PROVE ListingInv'
  <1> USE DEF ListingInv, ListingType
  <1>1. /\ kind = "root" /\ call = "reading" /\ queue # <<>> /\ queue' = Tail(queue)
        /\ handle = "open" /\ ~ atEnd
        /\ UNCHANGED <<kind, count, handle, produced, task, faulty>>
    BY Zenon DEF RootEntry, EndCall, CallInv
  <1>2. Received \in Int /\ \A i \in 1..Len(queue) : queue[i] = Received + i
    BY <1>1, SMTT(40) DEF ChannelInv, Received
  <1>3. /\ Head(queue) = Received + 1 /\ queue' \in Seq(Nat) /\ Len(queue') = Len(queue) - 1
        /\ \A i \in 1..Len(queue') : queue'[i] = (Received + 1) + i
        /\ Len(queue) > 0
    BY <1>1, <1>2, TakeHead, SMTT(40)
  <1>4. Received' = Received + 1 /\ Received \in Nat
    BY <1>1, <1>2, <1>3, SMTT(40) DEF Received, ChannelInv
  <1>5. ChannelInv' BY <1>1, <1>3, <1>4, SMTT(40) DEF ChannelInv
  <1>6. /\ Len(reply) <= ReplyCapacity /\ Ascending(listed \o reply)
        /\ AtMost(listed, Received) /\ AtMost(reply, Received) /\ Ascending(listed)
    BY <1>1, Zenon DEF OrderInv
  <1>7. /\ Ascending(listed \o Append(reply, Received + 1))
        /\ AtMost(Append(reply, Received + 1), Received + 1)
        /\ AtMost(listed \o reply, Received)
    BY <1>4, <1>6, AscendingConcat, SMTT(40)
  <1>8. CASE Len(reply) < ReplyCapacity
    <2>1. /\ reply' = Append(reply, Received + 1) /\ UNCHANGED <<call, offset, listed, atEnd>>
          /\ reply' \in Seq(Nat) /\ Len(reply') = Len(reply) + 1
      <3>1. reply' = Append(reply, Head(queue)) /\ UNCHANGED <<call, offset, listed, atEnd>>
        BY <1>8 DEF RootEntry
      <3>2. Received + 1 \in Nat BY <1>4, SMTT(40)
      <3> QED BY <1>3, <3>1, <3>2, SMTT(40)
    <2>2. ListingType' BY <1>1, <1>3, <2>1, Zenon
    <2>3. CallInv' /\ DirectoryInv' BY <1>1, <2>1, Zenon DEF CallInv, DirectoryInv
    <2>4. AtMost(listed, Received + 1) BY <1>2, <1>6, AtMostMore, SMTT(40)
    <2>5. OrderInv' BY <1>1, <1>4, <1>6, <1>7, <1>8, <2>1, <2>4, ListingAssumption, SMTT(40)
                    DEF OrderInv
    <2>6. Lost' = Lost BY <1>1, <1>2, <1>4, <2>1, SMTT(40) DEF Lost
    <2>7. LostInv' BY <1>1, <2>1, <2>6, Zenon DEF LostInv
    <2> QED BY <1>5, <2>2, <2>3, <2>5, <2>7, Zenon
  <1>9. CASE ~(Len(reply) < ReplyCapacity)
    <2>1. /\ call' = "none" /\ listed' = listed \o reply /\ reply' = reply
          /\ offset' = (IF reply = <<>> THEN offset ELSE offset + reply[Len(reply)])
          /\ atEnd' = (reply = <<>>)
      BY <1>9, Zenon DEF RootEntry, EndCall
    <2>2. Len(reply) = ReplyCapacity /\ reply # <<>> /\ ReplyCapacity \in Nat
      BY <1>6, <1>9, ListingAssumption
    <2>3. reply[Len(reply)] \in Nat BY <2>2
    <2>4. ~ atEnd' BY <2>1, <2>2, Zenon
    <2>5. listed' \in Seq(Nat) /\ Len(listed') = Len(listed) + ReplyCapacity
      <3>1. listed \o reply \in Seq(Nat) /\ Len(listed \o reply) = Len(listed) + Len(reply)
        BY Concatenated, Zenon
      <3> QED BY <2>1, <2>2, <3>1, Zenon
    <2>6. ListingType' BY <1>1, <1>3, <2>1, <2>2, <2>3, <2>5, SMTT(40)
    <2>7. CallInv' /\ DirectoryInv' BY <1>1, <2>1, <2>4, Zenon DEF CallInv, DirectoryInv
    <2>8. OrderInv'
      <3>1. listed \o reply \in Seq(Nat) BY <2>1, <2>5, Zenon
      <3>2. AtMost(listed \o reply, Received + 1)
        <4>1. PICK r \in Int, s \in Seq(Nat) : r = Received /\ s = listed \o reply
          BY <1>2, <3>1, Zenon
        <4>2. AtMost(s, r) /\ r + 1 \in Int /\ r <= r + 1 BY <1>7, <4>1
        <4>3. AtMost(s, r + 1) BY ONLY <4>2, AtMostMore, r \in Int, s \in Seq(Nat), Zenon
        <4> QED BY <4>1, <4>3
      <3> QED BY <1>1, <1>4, <1>6, <2>1, <3>2, Zenon DEF OrderInv
    <2>9. LostInv'
      <3>1. SUFFICES ASSUME faulty = 0 PROVE Lost' * ReplyCapacity <= Len(listed')
        BY <1>1, <2>4, Zenon DEF LostInv
      <3>2. Lost \in Int /\ Lost' = Lost + 1 BY <1>1, <1>2, <1>4, <2>1, <2>2, <2>5, SMTT(40)
                                             DEF Lost
      <3>3. Lost * ReplyCapacity <= Len(listed) BY <1>1, <3>1, Zenon DEF LostInv
      <3>4. (Lost + 1) * ReplyCapacity = Lost * ReplyCapacity + ReplyCapacity
        BY <2>2, <3>2, SMTT(40)
      <3> QED BY <2>2, <2>5, <3>2, <3>3, <3>4
    <2> QED BY <1>5, <2>6, <2>7, <2>8, <2>9
  <1> QED BY <1>8, <1>9, Zenon

(* A call on any other directory: the entries after offset, as many as     *)
(* fit.                                                                    *)
LEMMA DirectoryEntriesOK ==
    ASSUME ListingInv, DirectoryEntries PROVE ListingInv'
  <1> USE DEF ListingInv, ListingType
  <1> DEFINE last == IF count < offset + ReplyCapacity THEN count ELSE offset + ReplyCapacity
  <1>1. /\ kind = "directory" /\ call' = "none"
        /\ UNCHANGED <<kind, count, handle, queue, produced, task, reply, faulty>>
        /\ listed' = listed \o [i \in 1..last - offset |-> offset + i]
        /\ atEnd' = (last = offset) /\ offset' = last
    BY Zenon DEF DirectoryEntries
  <1>2. /\ last \in Nat /\ offset <= last /\ last <= count
        /\ last = offset => offset = count
    BY <1>1, ListingAssumption, SMTT(40) DEF DirectoryInv
  <1> HIDE DEF last
  <1>3. listed = [i \in 1..offset |-> i] BY <1>1 DEF DirectoryInv
  <1>4. PICK added : added = [i \in 1..last - offset |-> offset + i]
    BY Zenon
  <1>5. added \in Seq(Nat) /\ Len(added) = last - offset
    BY <1>2, <1>4
  <1>6. Len(listed) = offset BY <1>3
  <1>7. listed' = [i \in 1..last |-> i]
    <2>1. /\ listed' = listed \o added /\ listed' \in Seq(Nat) /\ Len(listed') = last
          /\ \A i \in 1..Len(listed) + Len(added) :
                listed'[i] = IF i <= Len(listed) THEN listed[i] ELSE added[i - Len(listed)]
      <3>1. listed' = listed \o added BY <1>1, <1>4, SMTT(40)
      <3>2. /\ listed \o added \in Seq(Nat)
            /\ Len(listed \o added) = Len(listed) + Len(added)
            /\ \A i \in 1..Len(listed) + Len(added) :
                 (listed \o added)[i] = IF i <= Len(listed) THEN listed[i] ELSE added[i - Len(listed)]
        BY <1>5, Concatenated, Zenon
      <3>3. Len(listed) + Len(added) = last
        BY <1>2, <1>5, <1>6, SMTT(40)
      <3> QED BY <3>1, <3>2, <3>3, Zenon
    <2>2. ASSUME NEW i \in 1..last PROVE listed'[i] = i
      <3>1. CASE i <= offset BY <1>2, <1>3, <1>5, <1>6, <2>1, <3>1
      <3>2. CASE i > offset
        <4>0. /\ i \in 1..Len(listed) + Len(added) /\ ~(i <= Len(listed))
              /\ i - Len(listed) = i - offset
          BY <1>2, <1>5, <1>6, <3>2, SMTT(40)
        <4>1. listed'[i] = added[i - offset] BY <2>1, <4>0, Zenon
        <4> QED BY <1>2, <1>4, <3>2, <4>1
      <3> QED BY <1>2, <3>1, <3>2
    <2>3. PICK s \in Seq(Nat) : s = listed' BY <2>1, Zenon
    <2>4. DOMAIN s = 1..last /\ \A i \in 1..last : s[i] = i BY <1>2, <2>1, <2>2, <2>3
    <2>5. s = [i \in 1..last |-> i] BY ONLY <2>4, s \in Seq(Nat)
    <2> QED BY <2>3, <2>5
  <1>8. listed' \in Seq(Nat) BY <1>2, <1>7, SMTT(40)
  <1>9. ListingType' BY <1>1, <1>2, <1>8, Zenon
  <1>10. CallInv' BY <1>1, SMTT(40) DEF CallInv
  <1>11. DirectoryInv'
    <2>1. atEnd' => offset' = count' BY <1>1, <1>2, ZenonT(40)
    <2> QED BY <1>1, <1>2, <1>7, <2>1, Zenon DEF DirectoryInv
  <1> QED BY <1>1, <1>9, <1>10, <1>11, Zenon DEF ChannelInv, OrderInv, LostInv

-----------------------------------------------------------------------------
(* Every step of the handlers and of the background task keeps ListingInv. *)
LEMMA ListingPreserved ==
    ASSUME ListingInv, [ListingNext]_lvars PROVE ListingInv'
  <1>1. CASE UNCHANGED lvars
    BY <1>1, Zenon
    DEF lvars, ListingInv, ListingType, CallInv, DirectoryInv, ChannelInv, OrderInv,
                LostInv, Lost, Received
  <1> QED
    BY <1>1, OpendirOK, ProduceOK, TaskEndsOK, ReaddirCallOK, RootEntryOK, RootFailsOK,
       RootEndsOK, DirectoryEntriesOK, ReleasedirOK, Zenon DEF ListingNext

(* Before opendir nothing is listed.                                       *)
LEMMA ListingStarts ==
    ASSUME ListingInit PROVE ListingInv
  <1> USE ListingAssumption DEF ListingInit
  <1>1. ListingType BY DEF ListingType
  <1>2. CallInv /\ DirectoryInv BY DEF CallInv, DirectoryInv
  <1>3. ChannelInv /\ OrderInv BY SMTT(40) DEF ChannelInv, OrderInv, Received, Ascending, AtMost
  <1>4. LostInv BY DEF LostInv, Lost, Received
  <1> QED BY <1>1, <1>2, <1>3, <1>4 DEF ListingInv

(* The channel, the reply and what the kernel has agree about how far a    *)
(* listing got.                                                            *)
THEOREM ListingInvariance == ListingSpec => []ListingInv
  BY ListingStarts, ListingPreserved, PTL DEF ListingSpec

(* Dividing by the size of a reply.                                        *)
LEMMA AtMostQuotient ==
    ASSUME NEW a \in Int, NEW b \in Nat, NEW c \in Nat \ {0}, a * c <= b
    PROVE  a <= b \div c
  <1>1. PICK q \in Nat : q = b \div c
    OBVIOUS
  <1>2. b < (q + 1) * c
    BY <1>1
  <1>3. (q + 1) * c <= a * c \/ a <= q
    BY <1>1, SMTT(40)
  <1> QED BY <1>1, <1>2, <1>3, SMTT(40)

(* However many calls a listing takes: below the root it is exact, and the *)
(* root loses no more than one entry for each reply that filled up.        *)
THEOREM ListingCorrect == ListingSpec => []ListingRight
  <1>1. ASSUME ListingInv PROVE ListingRight
    <2> USE <1>1 DEF ListingInv, ListingType
    <2>1. kind = "directory" /\ atEnd => listed = [i \in 1..count |-> i]
      BY Zenon DEF DirectoryInv
    <2>2. \A i, j \in DOMAIN listed : i < j => listed[i] < listed[j]
      <3>1. CASE kind = "root"
        <4>1. Ascending(listed) /\ DOMAIN listed = 1..Len(listed) BY <3>1 DEF OrderInv
        <4> QED BY ONLY <4>1 DEF Ascending
      <3>2. CASE kind = "directory"
        BY <3>2, Zenon DEF DirectoryInv
      <3> QED BY <3>1, <3>2, Zenon
    <2>3. kind = "root" /\ faulty = 0 /\ atEnd
             => count - Len(listed) <= Len(listed) \div ReplyCapacity
      <3>1. SUFFICES ASSUME kind = "root", faulty = 0, atEnd
                     PROVE  count - Len(listed) <= Len(listed) \div ReplyCapacity
        BY Zenon
      <3>2. (count - Len(listed)) * ReplyCapacity <= Len(listed)
        BY <3>1, Zenon DEF LostInv
      <3>3. count - Len(listed) \in Int /\ Len(listed) \in Nat
        OBVIOUS
      <3> QED BY ONLY <3>2, <3>3, AtMostQuotient, ListingAssumption, Zenon
    <2> QED BY <2>1, <2>2, <2>3, Zenon DEF ListingRight
  <1> QED BY <1>1, ListingInvariance, PTL
=============================================================================
