--------------------------- MODULE DirectoryCache ---------------------------
(***************************************************************************)
(* The Cache combinator (directoryservice/combinators.rs) in front of a    *)
(* near store that keeps single directories (DirectoryService) and a far   *)
(* store of which nothing is assumed: it may yield any directory, end or   *)
(* fail at any moment.  On a miss the client's closure is received through *)
(* a root-to-leaves graph, then written to near through a SimplePutter,    *)
(* which checks it again leaves first.                                     *)
(*                                                                         *)
(* Every client makes one request, for root[c]; its near putter and its    *)
(* near traversal are those of the same name in DirectoryService.          *)
(***************************************************************************)
EXTENDS DirectoryService

CONSTANTS Clients, MaxStream   \* MaxStream bounds what far sends in one stream

ASSUME ClientsAssumption == Clients \subseteq Putters /\ Clients \subseteq Readers

VARIABLES
    cpc,     \* cpc[c]: where the request is
    op,      \* op[c]: "get" or "get_recursive"
    copy,    \* copy[c]: copy (get) or copy_for_near (get_recursive)
    got,     \* got[c]: what far sent so far; copy_for_client in get_recursive
    rest,    \* rest[c]: drained directories not yet handed to the near putter
    answer   \* answer[c]: how the request ended

cvars == <<cpc, op, copy, got, rest, answer>>
allvars == <<vars, cvars>>

CacheInit ==
    /\ Init
    /\ cpc = [c \in Clients |-> "idle"]
    /\ op \in [Clients -> {"get", "get_recursive"}]
    /\ copy = [c \in Clients |-> EmptyGraph({})]
    /\ got = [c \in Clients |-> <<>>]
    /\ rest = [c \in Clients |-> {}]
    /\ answer = [c \in Clients |-> ""]

Goto(c, where) == cpc' = [cpc EXCEPT ![c] = where] /\ UNCHANGED answer
Answer(c, what) == cpc' = [cpc EXCEPT ![c] = "done"] /\ answer' = [answer EXCEPT ![c] = what]

\* DirectoryGraph::with_order(RootToLeavesValidator::new_with_root_digest(digest))
StartCopy(c) == copy' = [copy EXCEPT ![c] = EmptyGraph({root[c]})]

-----------------------------------------------------------------------------
(* get(): look the digest up in near.                                      *)
GetNear(c) ==
    /\ cpc[c] = "idle" /\ op[c] = "get"
    /\ IF root[c] \in db
       THEN Answer(c, "some") /\ UNCHANGED copy
       ELSE Goto(c, "far") /\ StartCopy(c)
    /\ UNCHANGED <<op, got, rest>>
    /\ UNCHANGED vars

(* get_recursive(): start near's stream, and serve it if it has an element.*)
RecursiveNear(c) ==
    /\ cpc[c] = "idle" /\ op[c] = "get_recursive"
    /\ Traverse(c)
    /\ Goto(c, "near")
    /\ UNCHANGED <<op, copy, got, rest>>

NearStream(c, d) ==
    /\ cpc[c] = "near"
    /\ TraverseStep(c, d)
    /\ \/ rpc'[c] = "running" /\ Goto(c, "near") /\ UNCHANGED copy
       \/ rpc'[c] = "error" /\ Answer(c, "near_error") /\ UNCHANGED copy
       \/ rpc'[c] = "done" /\ sent'[c] # {} /\ Answer(c, "some") /\ UNCHANGED copy
       \/ rpc'[c] = "done" /\ sent'[c] = {} /\ Goto(c, "far") /\ StartCopy(c)
    /\ UNCHANGED <<op, got, rest>>

-----------------------------------------------------------------------------
(* The loop over far's stream.                                             *)
Receive(c, d) ==
    /\ cpc[c] = "far"
    /\ Len(got[c]) < MaxStream
    /\ \E out \in RootToLeaves_add(copy[c], d) :
          /\ copy' = [copy EXCEPT ![c] = out.graph]
          /\ \/ out.res = "ok" /\ Goto(c, "far") /\ got' = [got EXCEPT ![c] = Append(@, d)]
             \/ out.res = "err" /\ Answer(c, "bad_stream") /\ UNCHANGED got
             \/ out.res = "panic" /\ Answer(c, "panic") /\ UNCHANGED got
    /\ UNCHANGED <<op, rest>>
    /\ UNCHANGED vars

FarFails(c) ==
    /\ cpc[c] = "far"
    /\ Answer(c, "far_error")
    /\ UNCHANGED <<op, copy, got, rest>>
    /\ UNCHANGED vars

FarEnds_unvalidated(c) ==
    /\ cpc[c] = "far"
    /\ Goto(c, "putting")
    /\ rest' = [rest EXCEPT ![c] = copy[c].known]
    /\ UNCHANGED <<op, copy, got>>
    /\ UNCHANGED vars

FarEnds_waits(c) ==
    /\ cpc[c] = "far" /\ got[c] # <<>>
    /\ IF validate(copy[c])
       THEN /\ Goto(c, "putting")
            /\ rest' = [rest EXCEPT ![c] = Drained(copy[c])]
       ELSE Answer(c, "bad_stream") /\ UNCHANGED rest
    /\ UNCHANGED <<op, copy, got>>
    /\ UNCHANGED vars

FarEnds(c) ==
    /\ cpc[c] = "far"
    /\ IF validate(copy[c])
       THEN /\ Goto(c, "putting")
            /\ rest' = [rest EXCEPT ![c] = Drained(copy[c])]
       ELSE Answer(c, "bad_stream") /\ UNCHANGED rest
    /\ UNCHANGED <<op, copy, got>>
    /\ UNCHANGED vars

-----------------------------------------------------------------------------
(* put.put(dir) for the drained directories, leaves first.                 *)
NearPut(c, d) ==
    /\ cpc[c] = "putting"
    /\ d \in rest[c] /\ Refs(d) \cap rest[c] = {}
    /\ rest' = [rest EXCEPT ![c] = @ \ {d}]
    /\ Put(c, d)
    /\ \/ pc'[c] = "panicked" /\ Answer(c, "panic")
       \/ pc'[c] # "panicked" /\ rejected'[c] /\ Answer(c, "near_rejects")
       \/ pc'[c] # "panicked" /\ ~rejected'[c] /\ Goto(c, "putting")
    /\ UNCHANGED <<op, copy, got>>

(* put.close(): the near putter refuses an empty upload.                   *)
NearClose(c) ==
    /\ cpc[c] = "putting" /\ rest[c] = {}
    /\ Close(c)
    /\ \/ pc'[c] = "closing" /\ Goto(c, "closing")
       \/ pc'[c] = "failed" /\ graph[c].nodes = {} /\ Answer(c, "no_directories")
       \/ pc'[c] = "failed" /\ graph[c].nodes # {} /\ Answer(c, "near_rejects")
    /\ UNCHANGED <<op, copy, got, rest>>

NearStore(c, d) ==
    /\ cpc[c] = "closing"
    /\ StoreOne(c, d)
    /\ IF pc'[c] = "done" THEN Answer(c, "some") ELSE Goto(c, "closing")
    /\ UNCHANGED <<op, copy, got, rest>>

NearFails(c) ==
    /\ \/ cpc[c] = "near" /\ LookupFails(c)
       \/ cpc[c] = "closing" /\ StoreFails(c)
    /\ Answer(c, "near_error")
    /\ UNCHANGED <<op, copy, got, rest>>

(* The caller drops the future: what was stored by then stays.             *)
Cancel(c) ==
    /\ cpc[c] \notin {"idle", "done"}
    /\ Answer(c, "cancelled")
    /\ UNCHANGED <<op, copy, got, rest>>
    /\ UNCHANGED vars

-----------------------------------------------------------------------------
CacheClient(c) ==
    \/ GetNear(c) \/ RecursiveNear(c) \/ FarFails(c) \/ FarEnds(c)
    \/ NearClose(c) \/ NearFails(c) \/ Cancel(c)
    \/ \E d \in Dirs : NearStream(c, d) \/ Receive(c, d) \/ NearPut(c, d) \/ NearStore(c, d)

\* What a request does next unless something fails or its caller drops it.
CacheProgress(c) ==
    \/ GetNear(c) \/ RecursiveNear(c) \/ FarEnds(c) \/ NearClose(c)
    \/ \E d \in Dirs : NearStream(c, d) \/ NearPut(c, d) \/ NearStore(c, d)

CacheNext == \E c \in Clients : CacheClient(c)

CacheSpec == CacheInit /\ [][CacheNext]_allvars

-----------------------------------------------------------------------------
(* Whatever far sends, in whatever order, and wherever requests are        *)
(* cancelled or fail: near only ever holds whole closures, so no request   *)
(* is answered from a half-filled cache.                                   *)
NearClosed == \A d \in db : Refs(d) \subseteq db

(* A request answered successfully leaves the requested closure in near;   *)
(* what get_recursive hands its client is that closure, root first, each   *)
(* directory after one that refers to it (a far that repeats directories   *)
(* makes the client see them again).                                       *)
AnswerComplete ==
    \A c \in Clients : answer[c] = "some" =>
       /\ root[c] \in db
       /\ got[c] # <<>> =>
             /\ got[c][1] = root[c]
             /\ \A i \in DOMAIN got[c] : \/ got[c][i] = root[c]
                                        \/ \E j \in 1..(i - 1) : got[c][i] \in Refs(got[c][j])
             /\ \A i \in DOMAIN got[c] : \A d \in Refs(got[c][i]) :
                   \E j \in DOMAIN got[c] : got[c][j] = d

(* What passed the root-to-leaves graph is never refused by the            *)
(* leaves-to-root graph of the near putter, neither put by put nor by its  *)
(* final validate(): the two validators agree on what a closure is, and    *)
(* neither panics on what far sends.                                       *)
RefillAccepted == \A c \in Clients : answer[c] \notin {"near_rejects", "panic"}

(* A cache that clients fill and read at the same time stays sound: near   *)
(* is closed, answers are whole closures, and what far sent well-formed is *)
(* accepted.                                                               *)
CacheSound == NearClosed /\ AnswerComplete /\ RefillAccepted
=============================================================================
