--------------------------- MODULE DirectoryGraph ---------------------------
(***************************************************************************)
(* castore/src/directoryservice/directory_graph.rs and order_validator.rs: *)
(* the graph a receiver of a directory closure builds up, one Directory    *)
(* message at a time, to decide whether the closure is complete, connected *)
(* and has the sizes its parents announce.                                 *)
(*                                                                         *)
(* A directory is identified with its digest.  Entries[d] lists the child  *)
(* directories of d in name order, with the size d announces for each;     *)
(* files and symlinks do not matter to the graph.                          *)
(***************************************************************************)
EXTENDS Naturals, Sequences

CONSTANTS
    Dirs,     \* the Directory messages, each standing for its own digest
    Entries,  \* Entries[d]: sequence of [digest, size], the Node::Directory entries of d
    SizeOf,   \* SizeOf[d]: what Directory::size() returns for d
    Depth     \* witness that digests cannot be cyclic: a child is deeper than its parents

Entry == [digest : Dirs, size : Nat]

ASSUME DirsAssumption ==
    /\ \A d \in Dirs :
          /\ DOMAIN Entries[d] \subseteq Nat
          /\ \A i \in DOMAIN Entries[d] : Entries[d][i] \in Entry
    /\ \A d \in Dirs : SizeOf[d] \in Nat

ASSUME DepthAssumption ==
    \A d \in Dirs :
       /\ Depth[d] \in Nat
       /\ \A i \in DOMAIN Entries[d] : Depth[d] < Depth[Entries[d][i].digest]

Refs(d) == {Entries[d][i].digest : i \in DOMAIN Entries[d]}

-----------------------------------------------------------------------------
(* The graph.  nodes are the digests heard of, known those whose Directory *)
(* was stored in the node weight.  An edge is pending while its weight is  *)
(* Some(..), i.e. while the size it announces has not been compared, and   *)
(* checked once the weight is None.  order is allowed_references or        *)
(* expected_digests of the order validator.                                *)

Edge == [from : Dirs, to : Dirs, size : Nat]

Graph == [order : SUBSET Dirs, nodes : SUBSET Dirs, known : SUBSET Dirs,
          pending : SUBSET Edge, checked : SUBSET Edge]

EmptyGraph(order) ==
    [order |-> order, nodes |-> {}, known |-> {}, pending |-> {}, checked |-> {}]

Edges(g) == g.pending \cup g.checked

check_edge_unchecked(size, child) == TRUE

check_edge(size, child) == size = SizeOf[child]

EdgeOf(d, i) == [from |-> d, to |-> Entries[d][i].digest, size |-> Entries[d][i].size]

\* Entries of d whose child is already stored with a different size.
BadChildren(g, d) ==
    {i \in DOMAIN Entries[d] : /\ Entries[d][i].digest \in g.known
                               /\ ~check_edge(Entries[d][i].size, Entries[d][i].digest)}

\* The edges the loop adds: it returns at the first bad child.
Linked(g, d) ==
    {EdgeOf(d, i) : i \in {j \in DOMAIN Entries[d] : \A b \in BadChildren(g, d) : j < b}}

WithChildEdges(g, d) ==
    [order |-> g.order,
     nodes |-> g.nodes \cup {d} \cup {e.to : e \in Linked(g, d)},
     known |-> g.known,
     pending |-> g.pending \cup {e \in Linked(g, d) : e.to \notin g.known},
     checked |-> g.checked \cup {e \in Linked(g, d) : e.to \in g.known}]

\* edge_weight_mut(..).take() on every edge of T.
Take(g, T) ==
    [order |-> g.order, nodes |-> g.nodes, known |-> g.known,
     pending |-> g.pending \ T, checked |-> g.checked \cup T]

MarkKnown(g, d) ==
    [order |-> g.order, nodes |-> g.nodes, known |-> g.known \cup {d},
     pending |-> g.pending, checked |-> g.checked]

Into(E, d) == {e \in E : e.to = d}

WrongSize(E) == {e \in E : ~check_edge(e.size, e.to)}

(* The loop over the incoming edges.  An edge whose weight is gone already *)
(* makes the expect panic, one that announces another size is an error.    *)
(* They are visited in the graph library's order, so which of the others   *)
(* were taken by then is left open.                                        *)
CheckIncoming(g, d) ==
    LET In == Into(g.pending, d)
        Bad == WrongSize(In)
    IN  IF Bad = {} /\ Into(g.checked, d) = {}
        THEN {[graph |-> MarkKnown(Take(g, In), d), res |-> "ok"]}
        ELSE {[graph |-> Take(g, T), res |-> "err"] :
                 T \in {U \in SUBSET In : \E e \in Bad : U \cap Bad = {e}}}
             \cup
             {[graph |-> Take(g, T), res |-> "panic"] :
                 T \in {U \in SUBSET (In \ Bad) : Into(g.checked, d) # {}}}

add_order_unchecked(g, d) ==
    IF d \in g.known THEN {[graph |-> g, res |-> "ok"]}
    ELSE IF BadChildren(g, d) # {} THEN {[graph |-> WithChildEdges(g, d), res |-> "err"]}
    ELSE CheckIncoming(WithChildEdges(g, d), d)

-----------------------------------------------------------------------------
(* Leaves to root: a directory may only refer to directories announced     *)
(* before it.  The validator remembers d before the graph checks its sizes.*)

WithOrder(g, order) ==
    [order |-> order, nodes |-> g.nodes, known |-> g.known,
     pending |-> g.pending, checked |-> g.checked]

LeavesToRoot_allowed_any(g, d) == TRUE
LeavesToRoot_allowed(g, d) == Refs(d) \subseteq g.order

LeavesToRoot_add(g, d) ==
    IF LeavesToRoot_allowed(g, d)
    THEN add_order_unchecked(WithOrder(g, g.order \cup {d}), d)
    ELSE {[graph |-> g, res |-> "err"]}

(* Root to leaves: a directory must be the root or referred to earlier.    *)

digest_allowed(g, d) == g.order = {} \/ d \in g.order

RootToLeaves_add(g, d) ==
    IF digest_allowed(g, d)
    THEN add_order_unchecked(
            WithOrder(g, g.order \cup Refs(d) \cup (IF g.order = {} THEN {d} ELSE {})), d)
    ELSE {[graph |-> g, res |-> "err"]}

-----------------------------------------------------------------------------
(* validate(), and what the two drain iterators range over: the nodes      *)
(* reachable from the root, given as the least set that holds the root and *)
(* is closed under edges.                                                  *)

Roots(g) == {n \in g.nodes : Into(Edges(g), n) = {}}

validate(g) ==
    /\ \A m, n \in Roots(g) : m = n
    /\ g.known = g.nodes

ClosedUnderEdges(g, S) == \A e \in Edges(g) : e.from \in S => e.to \in S

Drained(g) ==
    {n \in g.nodes : \A S \in SUBSET g.nodes :
                        Roots(g) \subseteq S /\ ClosedUnderEdges(g, S) => n \in S}
=============================================================================
