------------------------ MODULE ObjectStoreDirectory ------------------------
(***************************************************************************)
(* ObjectStoreDirectoryService (object_store.rs): the closure of one root  *)
(* is one object, the sequence of its directories in the order of          *)
(* drain_root_to_leaves.  Concurrent putters close() uploads of the same   *)
(* closure; concurrent readers stream the object through a                 *)
(* RootToLeavesValidator that knows the root digest.                       *)
(*                                                                         *)
(* The object store replaces an object in one step, when the buffered      *)
(* writer is shut down: a writer that fails or stops before leaves no      *)
(* trace.                                                                  *)
(*                                                                         *)
(* Before that come drain_leaves_to_root and drain_root_to_leaves of       *)
(* ValidatedDirectoryGraph (directory_graph.rs): the orders in which a     *)
(* validated closure is handed to a store.  Both collect the order of a    *)
(* walk by the graph library (petgraph DfsPostOrder and Bfs), then take    *)
(* each node's Directory out of the graph.  The order in which the library *)
(* lists the children of a node is its own business, so DrainInit ranges   *)
(* over every order.                                                       *)
(***************************************************************************)
EXTENDS Naturals, Sequences, FiniteSets, Functions

CONSTANTS
    Nodes,      \* 1 is the root
    ChildLists, \* functions from nodes to sequences of higher nodes
    ObjectPutters, ObjectReaders

(* Digests cannot be cyclic: the nodes are numbered so that a directory    *)
(* comes before its children.  Equal children are listed more than once.   *)
ASSUME NodesAssumption ==
    /\ Nodes \subseteq Nat /\ 1 \in Nodes
    /\ \A f \in ChildLists :
          /\ f \in [Nodes -> Seq(Nodes)]
          /\ \A n \in Nodes : \A m \in Range(f[n]) : n < m

VARIABLES
    children,   \* children[n]: neighbors(n)
    walk,       \* "leaves_to_root" or "root_to_leaves"
    pending,    \* the stack of DfsPostOrder, or the queue of Bfs
    succs,      \* the neighbors the walk has still to look at before it goes on
    discovered,
    finished,
    order       \* the nodes yielded so far

walkvars == <<children, walk, pending, succs, discovered, finished, order>>

Referred(f) == UNION {Range(f[n]) : n \in Nodes}

DrainInit ==
    /\ children \in ChildLists
    /\ Referred(children) = Nodes \ {1}   \* validate() found one root
    /\ walk \in {"leaves_to_root", "root_to_leaves"}
    /\ pending = <<1>>
    /\ succs = <<>>
    /\ discovered = IF walk = "root_to_leaves" THEN {1} ELSE {}
    /\ finished = {}
    /\ order = <<>>

WalkEnded == pending = <<>> /\ succs = <<>>

Top == pending[Len(pending)]

-----------------------------------------------------------------------------
(* DfsPostOrder: a node on top of the stack for the first time stays there *)
(* under its undiscovered children; the second time it is yielded, unless  *)
(* a copy of it further up was before.                                     *)
DfsDiscover ==
    /\ walk = "leaves_to_root" /\ succs = <<>> /\ pending # <<>>
    /\ Top \notin discovered
    /\ discovered' = discovered \cup {Top}
    /\ succs' = children[Top]
    /\ UNCHANGED <<children, walk, pending, finished, order>>

DfsPush ==
    /\ walk = "leaves_to_root" /\ succs # <<>>
    /\ pending' = IF Head(succs) \in discovered THEN pending ELSE Append(pending, Head(succs))
    /\ succs' = Tail(succs)
    /\ UNCHANGED <<children, walk, discovered, finished, order>>

DfsFinish ==
    /\ walk = "leaves_to_root" /\ succs = <<>> /\ pending # <<>>
    /\ Top \in discovered
    /\ pending' = SubSeq(pending, 1, Len(pending) - 1)
    /\ finished' = finished \cup {Top}
    /\ order' = IF Top \in finished THEN order ELSE Append(order, Top)
    /\ UNCHANGED <<children, walk, succs, discovered>>

(* Bfs: the head of the queue is yielded, its undiscovered children queue. *)
BfsNext ==
    /\ walk = "root_to_leaves" /\ succs = <<>> /\ pending # <<>>
    /\ order' = Append(order, Head(pending))
    /\ succs' = children[Head(pending)]
    /\ pending' = Tail(pending)
    /\ UNCHANGED <<children, walk, discovered, finished>>

BfsQueue ==
    /\ walk = "root_to_leaves" /\ succs # <<>>
    /\ pending' = IF Head(succs) \in discovered THEN pending ELSE Append(pending, Head(succs))
    /\ discovered' = discovered \cup {Head(succs)}
    /\ succs' = Tail(succs)
    /\ UNCHANGED <<children, walk, finished, order>>

DrainNext == DfsDiscover \/ DfsPush \/ DfsFinish \/ BfsNext \/ BfsQueue

-----------------------------------------------------------------------------
VARIABLES
    object,    \* the object at derive_dirs_path(root), <<>> while there is none
    putter,    \* putter[p]: where close() is
    stream,    \* stream[r]: where get_recursive is
    body,      \* body[r]: the frames still to be decoded
    expected,  \* expected[r]: expected_digests of the order_validator
    yielded    \* yielded[r]: the directories handed to the caller

ovars == <<object, putter, stream, body, expected, yielded>>
objectvars == <<walkvars, ovars>>

ObjectInit ==
    /\ DrainInit
    /\ object = <<>>
    /\ putter = [p \in ObjectPutters |-> "open"]
    /\ stream = [r \in ObjectReaders |-> "idle"]
    /\ body = [r \in ObjectReaders |-> <<>>]
    /\ expected = [r \in ObjectReaders |-> {}]
    /\ yielded = [r \in ObjectReaders |-> <<>>]

rdvars == <<stream, body, expected, yielded>>

-----------------------------------------------------------------------------
(* ObjectStoreDirectoryPutter::close: head() decides whether to write.     *)
FindObject(p) ==
    /\ putter[p] = "open" /\ walk = "root_to_leaves" /\ WalkEnded
    /\ putter' = [putter EXCEPT ![p] = IF object = <<>> THEN "writing" ELSE "done"]
    /\ UNCHANGED <<walkvars, object, rdvars>>

(* The frames, then shutdown(), which makes the object visible.            *)
Shutdown(p) ==
    /\ putter[p] = "writing"
    /\ object' = order
    /\ putter' = [putter EXCEPT ![p] = "done"]
    /\ UNCHANGED <<walkvars, rdvars>>

WriteFails(p) ==
    /\ putter[p] = "writing"
    /\ putter' = [putter EXCEPT ![p] = "failed"]
    /\ UNCHANGED <<walkvars, object, rdvars>>

(* get_recursive: a missing object is an empty stream.                     *)
OpenStream(r) ==
    /\ stream[r] = "idle"
    /\ stream' = [stream EXCEPT ![r] = IF object = <<>> THEN "missing" ELSE "streaming"]
    /\ body' = [body EXCEPT ![r] = object]
    /\ expected' = [expected EXCEPT ![r] = {1}]
    /\ UNCHANGED <<walkvars, object, putter, yielded>>

\* RootToLeavesValidator::digest_allowed
frame_allowed(allowed, d) == allowed = {} \/ d \in allowed

Frame_forgets(r) ==
    /\ stream[r] = "streaming" /\ body[r] # <<>>
    /\ LET d == Head(body[r]) IN
       IF frame_allowed(expected[r], d)
       THEN /\ yielded' = [yielded EXCEPT ![r] = Append(@, d)]
            /\ expected' = [expected EXCEPT ![r] = Range(children[d])]
            /\ UNCHANGED stream
       ELSE /\ stream' = [stream EXCEPT ![r] = "unexpected"]
            /\ UNCHANGED <<yielded, expected>>
    /\ body' = [body EXCEPT ![r] = Tail(@)]
    /\ UNCHANGED <<walkvars, object, putter>>

Frame(r) ==
    /\ stream[r] = "streaming" /\ body[r] # <<>>
    /\ LET d == Head(body[r]) IN
       IF frame_allowed(expected[r], d)
       THEN /\ yielded' = [yielded EXCEPT ![r] = Append(@, d)]
            /\ expected' = [expected EXCEPT ![r] = @ \cup Range(children[d])]
            /\ UNCHANGED stream
       ELSE /\ stream' = [stream EXCEPT ![r] = "unexpected"]
            /\ UNCHANGED <<yielded, expected>>
    /\ body' = [body EXCEPT ![r] = Tail(@)]
    /\ UNCHANGED <<walkvars, object, putter>>

EndOfBody(r) ==
    /\ stream[r] = "streaming" /\ body[r] = <<>>
    /\ stream' = [stream EXCEPT ![r] = "done"]
    /\ UNCHANGED <<walkvars, object, putter, body, expected, yielded>>

(* The download fails half way, or its reader drops the stream.            *)
Break(r) ==
    /\ stream[r] = "streaming"
    /\ stream' = [stream EXCEPT ![r] = "error"]
    /\ UNCHANGED <<walkvars, object, putter, body, expected, yielded>>

-----------------------------------------------------------------------------
ObjectNext ==
    \/ DrainNext /\ UNCHANGED ovars
    \/ \E p \in ObjectPutters : FindObject(p) \/ Shutdown(p) \/ WriteFails(p)
    \/ \E r \in ObjectReaders : OpenStream(r) \/ Frame(r) \/ EndOfBody(r) \/ Break(r)

ObjectSpec == ObjectInit /\ [][ObjectNext]_objectvars

-----------------------------------------------------------------------------
(* drain_leaves_to_root yields all children of a directory before it, so a *)
(* LeavesToRootValidator accepts the sequence and close() stores a closed  *)
(* set at every moment; with shared children reached along several paths   *)
(* it still yields each directory once, the root last, where close()       *)
(* looks for it.                                                           *)
LeavesBeforeParents ==
    walk = "leaves_to_root" =>
       /\ \A i \in DOMAIN order : \A c \in Range(children[order[i]]) :
             \E j \in 1..(i - 1) : order[j] = c
       /\ WalkEnded => /\ Range(order) = Nodes /\ Len(order) = Cardinality(Nodes)
                       /\ order[Len(order)] = 1

(* A closure drained root to leaves and written by any of several racing   *)
(* putters reads back whole: the reader's validator refuses none of it,    *)
(* and when the stream ends the caller has seen the root first and every   *)
(* directory of the closure exactly once.  Drained leaves to root, it is   *)
(* one a LeavesToRootValidator accepts.                                    *)
ClosureReadsBack ==
    /\ LeavesBeforeParents
    /\ \A r \in ObjectReaders :
          /\ stream[r] # "unexpected"
          /\ stream[r] = "done" =>
                /\ Head(yielded[r]) = 1
                /\ Range(yielded[r]) = Nodes /\ Len(yielded[r]) = Cardinality(Nodes)
=============================================================================
