---------------------------- MODULE ArchiveGraph ----------------------------
(***************************************************************************)
(* IngestionEntryGraph (castore import/archive.rs): the entries of a tar   *)
(* archive come in any order and may repeat; they are collected in a graph *)
(* with one node per path, which is then walked in post order to feed      *)
(* ingest_entries.  A path is the sequence of its components.              *)
(*                                                                         *)
(* The graph is petgraph's DiGraph: edges are numbered, the outgoing edges *)
(* of a node are iterated from the newest to the oldest, and remove_edge   *)
(* gives the number of the removed edge to the last one.                   *)
(***************************************************************************)
EXTENDS Integers, Sequences, SequencesExt, FiniteSetsExt

CONSTANTS
    Items,      \* the entries an archive may have: [path, kind]
    MaxAdds     \* bound: entries in the archive

VARIABLES
    kind,      \* the nodes: kind[p], by path
    edges,     \* the edges, by number: [parent, child, stamp]; the stamp is their age
    root,      \* root_node, <<>> if there is none yet
    failed,    \* add() returned UnexpectedNumberOfTopLevelEntries
    history    \* the entries of the archive so far

avars == <<kind, edges, root, failed, history>>

Kinds == {"dir", "file"}

ArchiveInit ==
    /\ kind = [p \in {} |-> "dir"] /\ edges = <<>>
    /\ root = <<>> /\ failed = FALSE /\ history = <<>>

-----------------------------------------------------------------------------
(* The operations work on g, a pair of nodes and edges.                    *)
Known(g, p) == p \in DOMAIN g.kind

WithKind(g, p, k) == [g EXCEPT !.kind = [q \in DOMAIN @ \cup {p} |-> IF q = p THEN k ELSE @[q]]]

AddEdge(g, p, c) ==
    [g EXCEPT !.edges = Append(@, [parent |-> p, child |-> c, stamp |-> g.age]), !.age = @ + 1]

\* petgraph's remove_edge: nothing if there is no such number; the last edge
\* takes the number that becomes free.
RemoveEdge(s, n) ==
    IF n > Len(s) THEN s ELSE [i \in 1 .. Len(s) - 1 |-> IF i = n THEN Last(s) ELSE s[i]]

\* edges_directed(p, Outgoing): the newest first.
Outgoing(s, p) ==
    SetToSortSeq({i \in DOMAIN s : s[i].parent = p}, LAMBDA i, j : s[i].stamp > s[j].stamp)

\* replace_node: the entry changes; the numbers of its edges are collected,
\* then removed one after the other.
ReplaceNode_keepsChildren(g, p, k) == WithKind(g, p, k)

ReplaceNode(g, p, k) ==
    [WithKind(g, p, k) EXCEPT !.edges = FoldLeft(RemoveEdge, @, Outgoing(@, p))]

\* The node of the entry: new, replaced, or kept if it is a directory again.
PlaceNode_neverReplaces(g, p, k) == IF Known(g, p) THEN g ELSE WithKind(g, p, k)

PlaceNode(g, p, k) ==
    IF ~ Known(g, p) THEN WithKind(g, p, k)
    ELSE IF k # "dir" \/ g.kind[p] # "dir" THEN ReplaceNode(g, p, k) ELSE g

\* add: the node, then recursively the parent directory and the edge to it.
RECURSIVE AddEntry(_, _, _)
AddEntry(g, p, k) ==
    IF Len(p) = 1 THEN PlaceNode(g, p, k)
    ELSE AddEdge(AddEntry(PlaceNode(g, p, k), Front(p), "dir"), Front(p), p)

Graph == [kind |-> kind, edges |-> edges,
          age |-> 1 + Max({0} \cup {edges[i].stamp : i \in DOMAIN edges})]

Add(p, k) ==
    /\ ~ failed /\ Len(history) < MaxAdds
    /\ IF root \in {<<>>, <<p[1]>>}
       THEN /\ LET g == AddEntry(Graph, p, k) IN kind' = g.kind /\ edges' = g.edges
            /\ root' = <<p[1]>> /\ UNCHANGED failed
       ELSE failed' = TRUE /\ UNCHANGED <<kind, edges, root>>
    /\ history' = Append(history, [path |-> p, kind |-> k])

ArchiveNext == \E e \in Items : Add(e.path, e.kind)

-----------------------------------------------------------------------------
\* DfsPostOrder from p: the children, each with all below it, before p.
RECURSIVE PostOrder(_)
PostOrder(p) ==
    LET children == SetToSeq({e.child : e \in {x \in ToSet(edges) : x.parent = p}})
    IN  FlattenSeq([i \in DOMAIN children |-> PostOrder(children[i])]) \o <<p>>

\* finalize: an error, or the entries to ingest.
Finalizes == ~ failed /\ root # <<>> /\ kind[root] = "dir"
Finalize == PostOrder(root)

(* What finalize returns keeps the promises ingest_entries demands of its  *)
(* stream: unique paths, children before their parents, every parent a     *)
(* directory of the stream, and the root last.                             *)
StreamLegal ==
    Finalizes =>
        LET s == Finalize IN
          /\ \A i, j \in DOMAIN s : s[i] = s[j] => i = j
          /\ Last(s) = root
          /\ \A i \in DOMAIN s : Len(s[i]) > 1 =>
                \E j \in i + 1 .. Len(s) : s[j] = Front(s[i]) /\ kind[s[j]] = "dir"

(* replace_node disconnects the children of what it replaces, so that the  *)
(* stream is legal; as long as no edge was removed before.  Once one was,  *)
(* the numbers of a node's edges no longer fall from the newest to the     *)
(* oldest, and remove_edge moves one that is still to be removed.          *)
Emptied ==
    {i \in DOMAIN history : history[i].kind = "file" /\
        \E j \in 1 .. i - 1 : history[i].path # history[j].path /\ IsPrefix(history[i].path, history[j].path)}

StreamLegalOnce == Cardinality(Emptied) <= 1 => StreamLegal

(* The newest entry is in the result as it was given, whatever it replaced,*)
(* and so are its parents; nothing is that was not in the archive, and     *)
(* entries below a second top level name are refused.                      *)
NewestKept ==
    Finalizes =>
        LET s == ToSet(Finalize)
            newest == Last(history)
            given(p) == {i \in DOMAIN history : history[i].path = p} IN
          /\ \A e \in ToSet(history) : e.path[1] = root[1]
          /\ newest.path \in s /\ kind[newest.path] = newest.kind
          /\ \A p \in s : kind[p] = "file" =>
                given(p) # {} /\ history[CHOOSE i \in given(p) : \A j \in given(p) : j <= i].kind = "file"
=============================================================================
