-------------------------- MODULE DirectoryService --------------------------
(***************************************************************************)
(* One DirectoryService backend that keeps single directories (memory.rs,  *)
(* redb.rs, bigtable.rs), written by concurrent putters and read by        *)
(* concurrent get_recursive streams (traverse_directory, utils.rs).  A     *)
(* SimplePutter (simple_putter.rs) stores the directories of an upload one *)
(* by one, a RedbDirectoryPutter all in one transaction.                   *)
(*                                                                         *)
(* Every `.await` on the backend is a step of its own; what happens        *)
(* between two awaits is one step.                                         *)
(***************************************************************************)
EXTENDS DirectoryGraph

CONSTANTS
    Putters,
    BatchPutters,  \* the putters whose close() is one transaction
    Readers

ASSUME PuttersAssumption == BatchPutters \subseteq Putters

VARIABLES
    db,        \* the digests stored in the backend
    graph,     \* graph[p]: directory_validator of putter p
    pc,        \* pc[p]: where the putter is
    todo,      \* todo[p]: validated directories close() has not put yet
    rejected,  \* rejected[p]: some put() of p returned an error
    rpc,       \* rpc[r]: where the traversal is
    root,      \* root[r]: root_directory_digest
    worklist,  \* worklist[r]: worklist_directory_digests
    sent       \* sent[r]: sent_directory_digests

pvars == <<graph, pc, todo, rejected>>
rvars == <<rpc, root, worklist, sent>>
vars == <<db, graph, pc, todo, rejected, rpc, root, worklist, sent>>

PutterPc == {"open", "closing", "done", "failed", "panicked", "dropped"}
ReaderPc == {"idle", "running", "done", "error", "failed"}

TypeOK ==
    /\ db \in SUBSET Dirs
    /\ graph \in [Putters -> Graph]
    /\ pc \in [Putters -> PutterPc]
    /\ todo \in [Putters -> SUBSET Dirs]
    /\ rejected \in [Putters -> BOOLEAN]
    /\ rpc \in [Readers -> ReaderPc]
    /\ root \in [Readers -> Dirs]
    /\ worklist \in [Readers -> SUBSET Dirs]
    /\ sent \in [Readers -> SUBSET Dirs]

Init ==
    /\ db = {}
    /\ graph = [p \in Putters |-> EmptyGraph({})]
    /\ pc = [p \in Putters |-> "open"]
    /\ todo = [p \in Putters |-> {}]
    /\ rejected = [p \in Putters |-> FALSE]
    /\ rpc = [r \in Readers |-> "idle"]
    /\ root \in [Readers -> Dirs]
    /\ worklist = [r \in Readers |-> {}]
    /\ sent = [r \in Readers |-> {}]

-----------------------------------------------------------------------------
(* SimplePutter::put.  The caller may go on after an error.                *)
Put(p, d) ==
    /\ pc[p] = "open"
    /\ \E out \in LeavesToRoot_add(graph[p], d) :
          /\ graph' = [graph EXCEPT ![p] = out.graph]
          /\ rejected' = [rejected EXCEPT ![p] = @ \/ out.res # "ok"]
          /\ pc' = [pc EXCEPT ![p] = IF out.res = "panic" THEN "panicked" ELSE @]
    /\ UNCHANGED <<db, todo>>
    /\ UNCHANGED rvars

(* SimplePutter::close up to its first put into the backend.  An empty     *)
(* graph validates, but is refused with "got no directories".              *)
Close(p) ==
    /\ pc[p] = "open"
    /\ IF validate(graph[p]) /\ Drained(graph[p]) # {}
       THEN /\ pc' = [pc EXCEPT ![p] = "closing"]
            /\ todo' = [todo EXCEPT ![p] = Drained(graph[p])]
       ELSE /\ pc' = [pc EXCEPT ![p] = "failed"]
            /\ UNCHANGED todo
    /\ UNCHANGED <<db, graph, rejected>>
    /\ UNCHANGED rvars

\* drain_leaves_to_root yields a directory after all its children.
NextLeaf_any(p, d) == TRUE
NextLeaf(p, d) == Refs(d) \cap todo[p] = {}

(* One round of the loop in close(): put d into the backend.               *)
StoreOne_early(p, d) ==
    /\ pc[p] = "closing" /\ p \notin BatchPutters
    /\ d \in todo[p]
    /\ NextLeaf(p, d)
    /\ db' = db \cup {d}
    /\ todo' = [todo EXCEPT ![p] = @ \ {d}]
    /\ pc' = [pc EXCEPT ![p] = "done"]
    /\ UNCHANGED <<graph, rejected>>
    /\ UNCHANGED rvars

StoreOne(p, d) ==
    /\ pc[p] = "closing" /\ p \notin BatchPutters
    /\ d \in todo[p]
    /\ NextLeaf(p, d)
    /\ db' = db \cup {d}
    /\ todo' = [todo EXCEPT ![p] = @ \ {d}]
    /\ pc' = [pc EXCEPT ![p] = IF todo[p] = {d} THEN "done" ELSE @]
    /\ UNCHANGED <<graph, rejected>>
    /\ UNCHANGED rvars

(* RedbDirectoryPutter::close: the whole upload in one transaction.        *)
CommitAll(p) ==
    /\ pc[p] = "closing" /\ p \in BatchPutters
    /\ db' = db \cup todo[p]
    /\ todo' = [todo EXCEPT ![p] = {}]
    /\ pc' = [pc EXCEPT ![p] = "done"]
    /\ UNCHANGED <<graph, rejected>>
    /\ UNCHANGED rvars

(* The backend's put fails, or the process stops during close(): what was  *)
(* stored stays.                                                           *)
StoreFails(p) ==
    /\ pc[p] = "closing"
    /\ pc' = [pc EXCEPT ![p] = "failed"]
    /\ UNCHANGED <<db, graph, todo, rejected>>
    /\ UNCHANGED rvars

(* A putter may be dropped without close().                                *)
Drop(p) ==
    /\ pc[p] = "open"
    /\ pc' = [pc EXCEPT ![p] = "dropped"]
    /\ UNCHANGED <<db, graph, todo, rejected>>
    /\ UNCHANGED rvars

-----------------------------------------------------------------------------
(* traverse_directory: the call, and one round of its loop per lookup in   *)
(* the backend.  The code takes the digests in queue order; any order is   *)
(* allowed here.                                                           *)
Traverse_prefetch(r) ==
    /\ rpc[r] = "idle"
    /\ rpc' = [rpc EXCEPT ![r] = "running"]
    /\ worklist' = [worklist EXCEPT ![r] = {root[r]} \cup Refs(root[r])]
    /\ UNCHANGED <<db, root, sent>>
    /\ UNCHANGED pvars

Traverse(r) ==
    /\ rpc[r] = "idle"
    /\ rpc' = [rpc EXCEPT ![r] = "running"]
    /\ worklist' = [worklist EXCEPT ![r] = {root[r]}]
    /\ UNCHANGED <<db, root, sent>>
    /\ UNCHANGED pvars

MissingDirectory(r, d) ==
    /\ d \notin db
    /\ rpc' = [rpc EXCEPT ![r] = IF d = root[r] THEN "done" ELSE "error"]
    /\ worklist' = [worklist EXCEPT ![r] = @ \ {d}]
    /\ UNCHANGED sent

FoundDirectory_overwrites(r, d) ==
    /\ d \in db
    /\ sent' = [sent EXCEPT ![r] = @ \cup {d}]
    /\ worklist' = [worklist EXCEPT ![r] = Refs(d) \ sent'[r]]
    /\ rpc' = [rpc EXCEPT ![r] = IF worklist'[r] = {} THEN "done" ELSE @]

FoundDirectory(r, d) ==
    /\ d \in db
    /\ sent' = [sent EXCEPT ![r] = @ \cup {d}]
    /\ worklist' = [worklist EXCEPT ![r] = (@ \ {d}) \cup (Refs(d) \ sent'[r])]
    /\ rpc' = [rpc EXCEPT ![r] = IF worklist'[r] = {} THEN "done" ELSE @]

TraverseStep(r, d) ==
    /\ rpc[r] = "running"
    /\ d \in worklist[r]
    /\ MissingDirectory(r, d) \/ FoundDirectory(r, d)
    /\ UNCHANGED <<db, root>>
    /\ UNCHANGED pvars

(* The backend's get fails: the error ends the stream.                     *)
LookupFails(r) ==
    /\ rpc[r] = "running"
    /\ rpc' = [rpc EXCEPT ![r] = "failed"]
    /\ UNCHANGED <<db, root, worklist, sent>>
    /\ UNCHANGED pvars

-----------------------------------------------------------------------------
PutterNext(p) ==
    \/ \E d \in Dirs : Put(p, d) \/ StoreOne(p, d)
    \/ Close(p) \/ CommitAll(p) \/ StoreFails(p) \/ Drop(p)

ReaderNext(r) == Traverse(r) \/ LookupFails(r) \/ \E d \in Dirs : TraverseStep(r, d)

Next == (\E p \in Putters : PutterNext(p)) \/ (\E r \in Readers : ReaderNext(r))

Spec == Init /\ [][Next]_vars

-----------------------------------------------------------------------------
(* The store never holds a directory without holding all directories it    *)
(* refers to, whatever concurrent close() calls have got to and wherever   *)
(* one of them failed: the leaves-first order of drain_leaves_to_root.     *)
StoreClosed == \A d \in db : Refs(d) \subseteq db

(* Sizes announced by stored parents are the sizes of the stored children: *)
(* no directory with a wrong size passes DirectoryGraph (check_edge), even *)
(* when the caller of put() ignores the errors it got.                     *)
StoredSizesAgree ==
    \A d \in db : \A i \in DOMAIN Entries[d] :
        Entries[d][i].size = SizeOf[Entries[d][i].digest]

(* No traversal ever reports an inconsistent store (the "directory does    *)
(* not exist" error of traverse_directory), even when it runs while        *)
(* putters are closing; one that ends having found its root has sent the   *)
(* whole closure.                                                          *)
TraversalComplete ==
    \A r \in Readers :
        /\ rpc[r] # "error"
        /\ rpc[r] = "done" /\ sent[r] # {} =>
              root[r] \in sent[r] /\ \A d \in sent[r] : Refs(d) \subseteq sent[r]

(* Every directory a traversal sends is the requested root or is referred  *)
(* to by one sent before, so a RootToLeavesValidator accepts the stream.   *)
SentRootToLeaves ==
    [][\A r \in Readers : \A d \in sent'[r] \ sent[r] :
          d = root[r] \/ \E s \in sent[r] : d \in Refs(s)]_vars

(* A successful close() has made every directory of the upload durable.    *)
ClosedMeansStored ==
    \A p \in Putters : pc[p] = "done" => graph[p].nodes \subseteq db

(* The expect of add_order_unchecked, that the size an incoming edge       *)
(* announces was not compared before, is out of reach of a putter: what    *)
(* put() refused, in whatever order and however often it is put again,     *)
(* leaves no compared edge to a directory that is not there.               *)
PutterNeverPanics == \A p \in Putters : pc[p] # "panicked"
=============================================================================
