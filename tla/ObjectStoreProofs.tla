-------------------------- MODULE ObjectStoreProofs --------------------------
(***************************************************************************)
(* Proofs about ObjectStoreDirectory: the two walks that drain a validated *)
(* closure, and the object that one of them becomes, for every closure and *)
(* any number of putters and readers.                                      *)
(***************************************************************************)
EXTENDS ObjectStoreDirectory, FiniteSetTheorems, WellFoundedInduction, TLAPS

-----------------------------------------------------------------------------
(* Sequences, and the induction that the closure needs.                    *)

(* The domain, the range and the elements of a sequence.                   *)
LEMMA RangeOf ==
    ASSUME NEW S, NEW s \in Seq(S)
    PROVE  /\ DOMAIN s = 1..Len(s) /\ Len(s) \in Nat
           /\ Range(s) \subseteq S
           /\ \A i \in 1..Len(s) : s[i] \in Range(s) /\ s[i] \in S
           /\ \A x \in Range(s) : \E i \in 1..Len(s) : x = s[i]
  BY DEF Range

(* Only the empty sequence has no elements.                                *)
LEMMA EmptySeq ==
    ASSUME NEW S, NEW s \in Seq(S)
    PROVE  Len(s) = 0 <=> s = <<>>
  OBVIOUS

(* Popping the front of a queue.                                           *)
LEMMA HeadAndTail ==
    ASSUME NEW S, NEW s \in Seq(S), s # <<>>
    PROVE  /\ Len(s) > 0 /\ Head(s) = s[1] /\ Head(s) \in S /\ Head(s) \in Range(s)
           /\ Tail(s) \in Seq(S) /\ Len(Tail(s)) = Len(s) - 1
           /\ \A i \in 1..Len(s) - 1 : Tail(s)[i] = s[i + 1]
           /\ \A x : x \in Range(s) <=> x = Head(s) \/ x \in Range(Tail(s))
  <1>1. /\ Len(s) > 0 /\ Len(s) \in Nat /\ Head(s) = s[1] /\ Head(s) \in S
        /\ Tail(s) \in Seq(S) /\ Len(Tail(s)) = Len(s) - 1
        /\ \A i \in 1..Len(s) - 1 : Tail(s)[i] = s[i + 1]
    OBVIOUS
  <1>2. Head(s) \in Range(s)
    BY <1>1, RangeOf
  <1>3. ASSUME NEW x \in Range(s) PROVE x = Head(s) \/ x \in Range(Tail(s))
    <2>1. PICK i \in 1..Len(s) : x = s[i]
      BY RangeOf
    <2>2. CASE i = 1
      BY <1>1, <2>1, <2>2
    <2>3. CASE i # 1
      <3>1. i - 1 \in 1..Len(Tail(s)) /\ Tail(s)[i - 1] = x
        BY <1>1, <2>1, <2>3
      <3> QED BY <1>1, <3>1, RangeOf, Zenon
    <2> QED BY <2>2, <2>3
  <1>4. ASSUME NEW x \in Range(Tail(s)) PROVE x \in Range(s)
    <2>1. PICK i \in 1..Len(Tail(s)) : x = Tail(s)[i]
      BY <1>1, RangeOf, Zenon
    <2>2. i + 1 \in 1..Len(s) /\ x = s[i + 1]
      BY <1>1, <2>1
    <2> QED BY <2>2, RangeOf
  <1> QED BY <1>1, <1>2, <1>3, <1>4

(* Pushing at the end of a sequence.                                       *)
LEMMA Appended ==
    ASSUME NEW S, NEW s \in Seq(S), NEW x \in S
    PROVE  /\ Append(s, x) \in Seq(S) /\ Len(Append(s, x)) = Len(s) + 1
           /\ Append(s, x)[Len(s) + 1] = x
           /\ \A i \in 1..Len(s) : Append(s, x)[i] = s[i]
           /\ \A y : y \in Range(Append(s, x)) <=> y = x \/ y \in Range(s)
  <1>1. /\ Append(s, x) \in Seq(S) /\ Len(Append(s, x)) = Len(s) + 1
        /\ Append(s, x)[Len(s) + 1] = x /\ Len(s) \in Nat
        /\ \A i \in 1..Len(s) : Append(s, x)[i] = s[i]
    OBVIOUS
  <1>2. ASSUME NEW y \in Range(Append(s, x)) PROVE y = x \/ y \in Range(s)
    <2>1. PICK i \in 1..Len(s) + 1 : y = Append(s, x)[i]
      BY <1>1, RangeOf
    <2> QED BY <1>1, <2>1, RangeOf
  <1>3. ASSUME NEW y, y = x \/ y \in Range(s) PROVE y \in Range(Append(s, x))
    <2>1. CASE y = x
      <3>1. Len(s) + 1 \in 1..Len(Append(s, x))
        BY <1>1
      <3>2. Append(s, x)[Len(s) + 1] \in Range(Append(s, x))
        BY <1>1, <3>1, RangeOf, Zenon
      <3> QED BY <1>1, <2>1, <3>2
    <2>2. CASE y \in Range(s)
      <3>1. PICK i \in 1..Len(s) : y = s[i]
        BY <2>2, RangeOf
      <3>2. i \in 1..Len(Append(s, x)) /\ y = Append(s, x)[i]
        BY <1>1, <3>1
      <3> QED BY <1>1, <3>2, RangeOf, Zenon
    <2> QED BY <1>3, <2>1, <2>2
  <1> QED BY <1>1, <1>2, <1>3

(* A set of naturals that is not empty has a least element.                *)
LEMMA LeastNatural ==
    ASSUME NEW T, T \subseteq Nat, T # {}
    PROVE  \E x \in T : \A y \in T : x <= y
  <1> DEFINE R == OpToRel(<, Nat)
  <1>1. IsWellFoundedOn(R, Nat)
    BY NatLessThanWellFounded, Zenon
  <1>2. \A x, y \in Nat : y < x => <<y, x>> \in R
    BY DEF OpToRel
  <1> HIDE DEF R
  <1>3. PICK x \in T : \A y \in T : ~ (<<y, x>> \in R)
    BY <1>1, WFMin, Zenon
  <1>4. \A y \in T : ~(y < x)
    BY <1>2, <1>3, Zenon
  <1> QED BY <1>4

-----------------------------------------------------------------------------
(* The closure: what holds the root and the children of all it holds is    *)
(* everything.                                                             *)
Closure == children \in ChildLists /\ Referred(children) = Nodes \ {1}

(* Children come after their parent in the numbering of the nodes.         *)
LEMMA ChildrenHigher ==
    ASSUME Closure, NEW n \in Nodes
    PROVE  /\ n \in Nat /\ children[n] \in Seq(Nodes) /\ Range(children[n]) \subseteq Nodes
           /\ \A c \in Range(children[n]) : c \in Nat /\ n < c
  <1>1. children[n] \in Seq(Nodes) /\ \A c \in Range(children[n]) : n < c
    BY NodesAssumption DEF Closure
  <1>2. Range(children[n]) \subseteq Nodes
    BY <1>1, RangeOf
  <1> QED BY <1>1, <1>2, NodesAssumption, Zenon

(* Every node but the root is a child of another one.                      *)
LEMMA ParentOf ==
    ASSUME Closure, NEW n \in Nodes, n # 1
    PROVE  \E m \in Nodes : n \in Range(children[m])
  BY DEF Closure, Referred

(* A set with the root and the children of its members has all nodes.      *)
LEMMA ClosedIsAll ==
    ASSUME Closure, NEW S, S \subseteq Nodes, 1 \in S,
           \A m \in S : Range(children[m]) \subseteq S
    PROVE  S = Nodes
  <1> SUFFICES ASSUME Nodes \ S # {} PROVE FALSE
    OBVIOUS
  <1>1. PICK n \in Nodes \ S : \A y \in Nodes \ S : n <= y
    BY LeastNatural, NodesAssumption, Zenon
  <1>2. PICK m \in Nodes : n \in Range(children[m])
    BY <1>1, ParentOf
  <1>3. m < n /\ m \in Nat /\ n \in Nat
    BY <1>2, ChildrenHigher
  <1>4. m \in S
    BY <1>1, <1>3
  <1> QED BY <1>1, <1>2, <1>4

(* A sequence without repetitions is as long as the set of its elements.   *)
LEMMA CountedOnce ==
    ASSUME NEW s \in Seq(Nodes), Range(s) = Nodes,
           \A i, j \in 1..Len(s) : s[i] = s[j] => i = j
    PROVE  Len(s) = Cardinality(Nodes)
  <1>0. DOMAIN s = 1..Len(s) /\ s \in [1..Len(s) -> Nodes]
    OBVIOUS
  <1>a. \A n \in Nodes : \E i \in 1..Len(s) : s[i] = n
    BY RangeOf
  <1>b. s \in Injection(1..Len(s), Nodes)
    BY <1>0, Zenon DEF Injection, IsInjective
  <1>c. s \in Surjection(1..Len(s), Nodes)
    BY <1>0, <1>a, Zenon DEF Surjection
  <1>1. s \in Bijection(1..Len(s), Nodes)
    BY <1>b, <1>c, Zenon DEF Bijection
  <1>2. ExistsBijection(1..Len(s), Nodes) /\ Len(s) \in Nat
    BY <1>1 DEF ExistsBijection
  <1> QED BY <1>2, FS_CountingElements

-----------------------------------------------------------------------------
(* The inductive invariant.                                                *)

WalkType ==
    /\ walk \in {"leaves_to_root", "root_to_leaves"}
    /\ pending \in Seq(Nodes) /\ succs \in Seq(Nodes) /\ order \in Seq(Nodes)
    /\ discovered \subseteq Nodes /\ finished \subseteq Nodes
    /\ \A i, j \in 1..Len(order) : order[i] = order[j] => i = j

(* A node discovered and not finished stays in the stack, under higher     *)
(* nodes only, and none of its children has been lost: it is finished, or  *)
(* further up in the stack, or has still to be looked at.                  *)
Above(s, p) == {s[q] : q \in (p + 1)..Len(s)}

Held(m, p) ==
    /\ pending[p] = m
    /\ \A n \in Above(pending, p) : m < n
    /\ \A c \in Range(children[m]) : c \in finished \cup Above(pending, p) \cup Range(succs)

DfsInv ==
    /\ finished \subseteq discovered /\ Range(order) = finished
    /\ \A i \in 1..Len(order) : \A c \in Range(children[order[i]]) :
          \E j \in 1..(i - 1) : order[j] = c
    /\ \A m \in discovered \ finished :
          /\ \E p \in 1..Len(pending) : Held(m, p)
          /\ \A c \in Range(succs) : m < c
    /\ 1 \in discovered \cup Range(pending)

(* The queue holds each discovered node that has not been yielded, once;   *)
(* all but the root are children of a node yielded before, and no child of *)
(* a yielded node has been lost.                                           *)
ChildBefore(n, k) == \E j \in 1..k : n \in Range(children[order[j]])

BfsInv ==
    /\ \A i, j \in 1..Len(pending) : pending[i] = pending[j] => i = j
    /\ Range(order) \cap Range(pending) = {}
    /\ discovered = Range(order) \cup Range(pending)
    /\ order = <<>> => pending = <<1>> /\ succs = <<>>
    /\ order # <<>> => /\ order[1] = 1
                       /\ \A n \in Range(pending) \cup Range(succs) : ChildBefore(n, Len(order))
    /\ \A i \in 2..Len(order) : ChildBefore(order[i], i - 1)
    /\ \A m \in Range(order) : Range(children[m]) \subseteq discovered \cup Range(succs)

WalkInv ==
    /\ Closure /\ WalkType
    /\ walk = "leaves_to_root" => DfsInv
    /\ walk = "root_to_leaves" => BfsInv

(* The object is the whole closure in breadth-first order, whoever wrote   *)
(* it; a reader has yielded a prefix of it and has the rest in its body.   *)
Drained == walk = "root_to_leaves" /\ WalkEnded

Reading(r) ==
    /\ object # <<>>
    /\ Len(yielded[r]) + Len(body[r]) = Len(object)
    /\ \A i \in 1..Len(yielded[r]) : yielded[r][i] = object[i]
    /\ \A i \in 1..Len(body[r]) : body[r][i] = object[Len(yielded[r]) + i]
    /\ 1 \in expected[r]
    /\ \A i \in 1..Len(yielded[r]) : Range(children[object[i]]) \subseteq expected[r]

ReaderInv(r) ==
    /\ body[r] \in Seq(Nodes) /\ yielded[r] \in Seq(Nodes) /\ expected[r] \subseteq Nodes
    /\ stream[r] \in {"idle", "missing", "streaming", "done", "error"}
    /\ stream[r] = "idle" => yielded[r] = <<>>
    /\ stream[r] = "streaming" => Reading(r)
    /\ stream[r] = "done" => Reading(r) /\ body[r] = <<>>

ObjectInv ==
    /\ object = <<>> \/ (Drained /\ object = order)
    /\ DOMAIN putter = ObjectPutters
    /\ \A p \in ObjectPutters : putter[p] = "writing" => Drained
    /\ DOMAIN body = ObjectReaders /\ DOMAIN yielded = ObjectReaders
    /\ DOMAIN expected = ObjectReaders /\ DOMAIN stream = ObjectReaders
    /\ \A r \in ObjectReaders : ReaderInv(r)

StoreInv == WalkInv /\ ObjectInv

-----------------------------------------------------------------------------
(* The depth-first walk.                                                   *)

(* Pushing on the stack puts one more node above all others.               *)
LEMMA AboveAppended ==
    ASSUME NEW S, NEW s \in Seq(S), NEW x \in S, NEW p \in 1..Len(s)
    PROVE  \A y : y \in Above(Append(s, x), p) <=> y = x \/ y \in Above(s, p)
  <1>1. /\ Len(Append(s, x)) = Len(s) + 1 /\ Append(s, x)[Len(s) + 1] = x
        /\ Len(s) \in Nat /\ \A i \in 1..Len(s) : Append(s, x)[i] = s[i]
    OBVIOUS
  <1>2. ASSUME NEW y \in Above(Append(s, x), p) PROVE y = x \/ y \in Above(s, p)
    BY <1>1 DEF Above
  <1>3. ASSUME NEW y \in Above(s, p) PROVE y \in Above(Append(s, x), p)
    <2>1. PICK q \in (p + 1)..Len(s) : y = s[q]
      BY DEF Above
    <2>2. q \in (p + 1)..Len(Append(s, x)) /\ y = Append(s, x)[q]
      BY <1>1, <2>1
    <2> QED BY <2>2 DEF Above
  <1>4. x \in Above(Append(s, x), p)
    <2>1. Len(s) + 1 \in (p + 1)..Len(Append(s, x))
      BY <1>1
    <2> QED BY <1>1, <2>1 DEF Above
  <1> QED BY <1>2, <1>3, <1>4

(* Popping the stack takes the top away from above the others.             *)
LEMMA AbovePopped ==
    ASSUME NEW S, NEW s \in Seq(S), s # <<>>
    PROVE  LET t == SubSeq(s, 1, Len(s) - 1) IN
           /\ t \in Seq(S) /\ Len(t) = Len(s) - 1 /\ Len(s) \in Nat \ {0}
           /\ \A i \in 1..Len(s) - 1 : t[i] = s[i]
           /\ \A p \in 1..Len(s) - 1 :
                 \A y : y \in Above(s, p) <=> y = s[Len(s)] \/ y \in Above(t, p)
  <1> DEFINE t == SubSeq(s, 1, Len(s) - 1)
  <1>0. Len(s) \in Nat \ {0}
    OBVIOUS
  <1>1. /\ t \in Seq(S) /\ Len(t) = Len(s) - 1 /\ Len(s) \in Nat \ {0}
        /\ \A i \in 1..Len(s) - 1 : t[i] = s[i]
    <2>1. PICK k \in Nat : k + 1 = Len(s) /\ k = Len(s) - 1
      BY <1>0
    <2>2. /\ SubSeq(s, 1, k) \in Seq(S) /\ Len(SubSeq(s, 1, k)) = k
          /\ \A i \in 1..k : SubSeq(s, 1, k)[i] = s[i]
      BY <2>1
    <2> QED BY <1>0, <2>1, <2>2
  <1> HIDE DEF t
  <1>2. ASSUME NEW p \in 1..Len(s) - 1, NEW y \in Above(s, p)
        PROVE  y = s[Len(s)] \/ y \in Above(t, p)
    BY <1>1 DEF Above
  <1>3. ASSUME NEW p \in 1..Len(s) - 1, NEW y \in Above(t, p) PROVE y \in Above(s, p)
    <2>1. PICK q \in (p + 1)..Len(t) : y = t[q]
      BY DEF Above
    <2>2. q \in (p + 1)..Len(s) /\ y = s[q]
      BY <1>1, <2>1
    <2> QED BY <2>2 DEF Above
  <1>4. ASSUME NEW p \in 1..Len(s) - 1 PROVE s[Len(s)] \in Above(s, p)
    <2>1. Len(s) \in (p + 1)..Len(s)
      BY <1>1
    <2> QED BY <2>1 DEF Above
  <1> QED BY <1>1, <1>2, <1>3, <1>4, Zenon DEF t

(* DfsPostOrder::next discovers the top of the stack.                      *)
LEMMA DfsDiscoverInv ==
    ASSUME WalkInv, DfsDiscover
    PROVE  WalkInv'
  <1>0. PICK L, n : L = Len(pending) /\ n = Top
    BY Zenon
  <1>1. /\ walk = "leaves_to_root" /\ succs = <<>> /\ pending # <<>> /\ n \notin discovered
        /\ discovered' = discovered \cup {n} /\ succs' = children[n]
        /\ children' = children /\ walk' = walk /\ pending' = pending /\ finished' = finished
        /\ order' = order
    BY <1>0 DEF DfsDiscover
  <1>2. Closure /\ WalkType /\ DfsInv
    BY <1>1 DEF WalkInv
  <1>3. L \in Nat \ {0} /\ n \in Nodes /\ n = pending[L]
    BY <1>0, <1>1, <1>2 DEF WalkType, Top
  <1>4. n \in Nat /\ children[n] \in Seq(Nodes) /\ \A c \in Range(children[n]) : c \in Nat /\ n < c
    BY <1>2, <1>3, ChildrenHigher
  <1>5. Range(succs) = {}
    BY <1>1 DEF Range
  <1>6. ASSUME NEW m \in discovered \ finished
        PROVE  (\E p \in 1..Len(pending) : Held(m, p)') /\ (\A c \in Range(succs') : m < c)
    <2>1. PICK p \in 1..Len(pending) : Held(m, p)
      BY <1>2 DEF DfsInv
    <2>2. m \in Nat /\ p # L
      BY <1>1, <1>2, <1>3, <2>1, NodesAssumption DEF Held, WalkType
    <2>3. L \in (p + 1)..Len(pending)
      BY <1>0, <1>3, <2>1, <2>2
    <2>4. n \in Above(pending, p)
      BY <1>3, <2>3 DEF Above
    <2>5. m < n
      BY <2>1, <2>4 DEF Held
    <2>6. \A c \in Range(succs') : m < c
      BY <1>1, <1>4, <2>2, <2>5
    <2>7. Held(m, p)'
      BY <1>1, <1>5, <2>1 DEF Held, Above
    <2> QED BY <2>6, <2>7
  <1>7. Held(n, L)' /\ L \in 1..Len(pending)
    <2>1. Above(pending, L) = {}
      BY <1>0, <1>3 DEF Above
    <2> QED BY <1>0, <1>1, <1>3, <2>1 DEF Held, Above
  <1>8. n \notin finished
    BY <1>1, <1>2, Zenon DEF DfsInv
  <1>9. DfsInv'
    <2>1. \A m \in discovered' \ finished' :
             (\E p \in 1..Len(pending') : Held(m, p)') /\ (\A c \in Range(succs') : m < c)
      BY <1>1, <1>4, <1>6, <1>7, Zenon
    <2> QED BY <1>1, <1>2, <2>1 DEF DfsInv
  <1>10. WalkType'
    BY <1>1, <1>2, <1>3, <1>4, Zenon DEF WalkType
  <1> QED BY <1>1, <1>2, <1>9, <1>10 DEF WalkInv, Closure

(* DfsPostOrder::next pushes a neighbour that is not yet discovered.       *)
LEMMA DfsPushInv ==
    ASSUME WalkInv, DfsPush
    PROVE  WalkInv'
  <1> DEFINE h == Head(succs)
  <1>1. /\ walk = "leaves_to_root" /\ succs # <<>> /\ succs' = Tail(succs)
        /\ pending' = IF h \in discovered THEN pending ELSE Append(pending, h)
        /\ children' = children /\ walk' = walk /\ discovered' = discovered
        /\ finished' = finished /\ order' = order
    BY DEF DfsPush
  <1>2. Closure /\ WalkType /\ DfsInv
    BY <1>1 DEF WalkInv
  <1>3. /\ h \in Nodes /\ h \in Range(succs) /\ Tail(succs) \in Seq(Nodes)
        /\ \A x : x \in Range(succs) <=> x = h \/ x \in Range(Tail(succs))
    BY <1>1, <1>2, HeadAndTail DEF WalkType
  <1> HIDE DEF h
  <1>4. pending' \in Seq(Nodes) /\ Range(pending) \subseteq Range(pending')
    <2>1. pending \in Seq(Nodes)
      BY <1>2 DEF WalkType
    <2> QED BY <1>1, <1>3, <2>1, Appended
  <1>5. ASSUME NEW m \in discovered \ finished
        PROVE  \E p \in 1..Len(pending') : Held(m, p)'
    <2>0. pending \in Seq(Nodes) /\ Len(pending) \in Nat /\ m \in Nat /\ h \in Nat /\ m < h
      BY <1>2, <1>3, NodesAssumption DEF WalkType, DfsInv
    <2>1. PICK p \in 1..Len(pending) : Held(m, p)
      BY <1>2 DEF DfsInv
    <2>2. CASE h \notin discovered
      <3>1. /\ Len(pending') = Len(pending) + 1 /\ pending'[p] = pending[p]
            /\ p \in 1..Len(pending')
        BY <1>1, <1>3, <2>0, <2>2, Appended
      <3>2. \A y : y \in Above(pending', p) <=> y = h \/ y \in Above(pending, p)
        BY <1>1, <1>3, <2>0, <2>2, AboveAppended, Zenon
      <3>3. Held(m, p)'
        BY <1>1, <1>3, <2>0, <2>1, <3>1, <3>2, Zenon DEF Held
      <3> QED BY <3>1, <3>3, Zenon
    <2>3. CASE h \in discovered
      <3>1. h \in finished \cup Above(pending, p)
        <4> SUFFICES ASSUME h \notin finished PROVE h \in Above(pending, p)
          OBVIOUS
        <4>1. PICK q \in 1..Len(pending) : Held(h, q)
          BY <1>2, <2>3, Zenon DEF DfsInv
        <4>2. ~(q < p)
          <5> SUFFICES ASSUME q < p PROVE FALSE
            OBVIOUS
          <5>1. p \in (q + 1)..Len(pending)
            BY <2>0
          <5>2. m \in Above(pending, q)
            BY <2>1, <5>1, Zenon DEF Above, Held
          <5> QED BY <2>0, <4>1, <5>2 DEF Held
        <4>3. q # p
          BY <2>0, <2>1, <4>1 DEF Held
        <4>4. q \in (p + 1)..Len(pending)
          BY <2>0, <4>2, <4>3
        <4> QED BY <4>1, <4>4 DEF Above, Held
      <3>2. Held(m, p)'
        BY <1>1, <1>3, <2>1, <2>3, <3>1, Zenon DEF Held
      <3> QED BY <1>1, <2>3, <3>2, Zenon
    <2> QED BY <2>2, <2>3
  <1>6. DfsInv'
    <2>1. \A m \in discovered' \ finished' : \A c \in Range(succs') : m < c
      BY <1>1, <1>2, <1>3 DEF DfsInv
    <2> QED BY <1>1, <1>2, <1>4, <1>5, <2>1 DEF DfsInv
  <1>7. WalkType'
    BY <1>1, <1>2, <1>3, <1>4, Zenon DEF WalkType
  <1> QED BY <1>1, <1>2, <1>6, <1>7 DEF WalkInv, Closure

(* DfsPostOrder::next pops a node and yields it, the first time it is      *)
(* finished.                                                               *)
LEMMA DfsFinishInv ==
    ASSUME WalkInv, DfsFinish
    PROVE  WalkInv'
  <1>0. PICK L, n, t : L = Len(pending) /\ n = Top /\ t = SubSeq(pending, 1, L - 1)
    BY Zenon
  <1>1. /\ walk = "leaves_to_root" /\ succs = <<>> /\ pending # <<>> /\ n \in discovered
        /\ pending' = t /\ finished' = finished \cup {n}
        /\ order' = IF n \in finished THEN order ELSE Append(order, n)
        /\ children' = children /\ walk' = walk /\ succs' = succs /\ discovered' = discovered
    BY <1>0 DEF DfsFinish
  <1>2. Closure /\ WalkType /\ DfsInv
    BY <1>1 DEF WalkInv
  <1>3. /\ L \in Nat \ {0} /\ n \in Nodes /\ n \in Nat /\ n = pending[L] /\ pending \in Seq(Nodes)
        /\ order \in Seq(Nodes)
    BY <1>0, <1>1, <1>2, NodesAssumption DEF WalkType, Top
  <1>4. /\ t \in Seq(Nodes) /\ Len(t) = L - 1 /\ \A i \in 1..L - 1 : t[i] = pending[i]
        /\ \A p \in 1..L - 1 : \A y : y \in Above(pending, p) <=> y = n \/ y \in Above(t, p)
    BY <1>0, <1>1, <1>3, AbovePopped, Zenon
  <1>5. Range(succs) = {}
    BY <1>1 DEF Range
  <1>6. ASSUME NEW m \in discovered \ finished'
        PROVE  \E p \in 1..Len(pending') : Held(m, p)'
    <2>1. PICK p \in 1..Len(pending) : Held(m, p)
      BY <1>1, <1>2, Zenon DEF DfsInv
    <2>2. p \in 1..L - 1 /\ p \in 1..Len(t)
      <3>1. p # L
        BY <1>1, <1>3, <2>1, Zenon DEF Held
      <3> QED BY <1>0, <1>3, <1>4, <3>1
    <2>3. t[p] = m /\ \A y : y \in Above(pending, p) <=> y = n \/ y \in Above(t, p)
      BY <1>4, <2>1, <2>2, Zenon DEF Held
    <2>4. Held(m, p)'
      BY <1>1, <1>5, <2>1, <2>3, Zenon DEF Held
    <2> QED BY <1>1, <2>2, <2>4, Zenon
  <1>7. \A c \in Range(children[n]) : n \notin finished => c \in finished
    <2> SUFFICES ASSUME n \notin finished PROVE \A c \in Range(children[n]) : c \in finished
      OBVIOUS
    <2>1. PICK p \in 1..Len(pending) : Held(n, p)
      BY <1>1, <1>2 DEF DfsInv
    <2>2. p = L
      <3> SUFFICES ASSUME p # L PROVE FALSE
        OBVIOUS
      <3>1. p \in 1..L - 1
        BY <1>0, <1>3
      <3>2. n \in Above(pending, p)
        BY <1>4, <3>1, Zenon
      <3> QED BY <1>3, <2>1, <3>2 DEF Held
    <2>3. Above(pending, L) = {}
      BY <1>0, <1>3 DEF Above
    <2> QED BY <1>5, <2>1, <2>2, <2>3, Zenon DEF Held
  <1>8. /\ order' \in Seq(Nodes) /\ Range(order') = finished'
        /\ \A i, j \in 1..Len(order') : order'[i] = order'[j] => i = j
        /\ \A i \in 1..Len(order') : \A c \in Range(children[order'[i]]) :
              \E j \in 1..(i - 1) : order'[j] = c
    <2>0. /\ Range(order) = finished /\ Len(order) \in Nat
          /\ \A i, j \in 1..Len(order) : order[i] = order[j] => i = j
          /\ \A i \in 1..Len(order) : \A c \in Range(children[order[i]]) :
                \E j \in 1..(i - 1) : order[j] = c
      BY <1>2, <1>3 DEF WalkType, DfsInv
    <2>1. CASE n \in finished
      BY <1>1, <1>3, <2>0, <2>1
    <2>2. CASE n \notin finished
      <3>1. /\ order' \in Seq(Nodes) /\ Len(order') = Len(order) + 1
            /\ order'[Len(order) + 1] = n
            /\ \A i \in 1..Len(order) : order'[i] = order[i]
            /\ \A y : y \in Range(order') <=> y = n \/ y \in Range(order)
        BY <1>1, <1>3, <2>2, Appended
      <3>2. Range(order') = finished'
        BY <1>1, <2>0, <3>1, Zenon
      <3>3. \A i \in 1..Len(order) : order[i] # n
        BY <1>3, <2>0, <2>2, RangeOf, Zenon
      <3>4. \A i, j \in 1..Len(order') : order'[i] = order'[j] => i = j
        BY <2>0, <3>1, <3>3
      <3>5. ASSUME NEW i \in 1..Len(order'), NEW c \in Range(children[order'[i]])
            PROVE  \E j \in 1..(i - 1) : order'[j] = c
        <4>1. CASE i = Len(order) + 1
          <5>1. c \in Range(order)
            BY <1>7, <2>0, <2>2, <3>1, <3>5, <4>1, Zenon
          <5>2. PICK j \in 1..Len(order) : c = order[j]
            BY <1>3, <5>1, RangeOf
          <5> QED BY <2>0, <3>1, <4>1, <5>2
        <4>2. CASE i # Len(order) + 1
          <5>1. i \in 1..Len(order) /\ order'[i] = order[i]
            BY <2>0, <3>1, <4>2
          <5>2. PICK j \in 1..(i - 1) : order[j] = c
            BY <2>0, <3>5, <5>1, Zenon
          <5>3. order'[j] = order[j]
            BY <2>0, <3>1, <5>1
          <5> QED BY <5>2, <5>3, Zenon
        <4> QED BY <4>1, <4>2, Zenon
      <3> QED BY <3>1, <3>2, <3>4, <3>5, Zenon
    <2> QED BY <2>1, <2>2, Zenon
  <1>9. 1 \in discovered \cup Range(pending')
    <2> SUFFICES ASSUME 1 \notin discovered PROVE 1 \in Range(t)
      BY <1>1
    <2>1. 1 \in Range(pending)
      BY <1>2 DEF DfsInv
    <2>2. PICK q \in 1..Len(pending) : 1 = pending[q]
      BY <1>3, <2>1, RangeOf
    <2>3. q # L
      BY <1>1, <1>3, <2>2, Zenon
    <2>4. q \in 1..Len(t) /\ t[q] = 1
      BY <1>0, <1>3, <1>4, <2>2, <2>3
    <2> QED BY <1>4, <2>4, RangeOf
  <1>10. DfsInv'
    <2>1. finished' \subseteq discovered'
      BY <1>1, <1>2 DEF DfsInv
    <2>2. \A m \in discovered' \ finished' : \A c \in Range(succs') : m < c
      BY <1>1, <1>5
    <2> QED BY <1>1, <1>6, <1>8, <1>9, <2>1, <2>2, Zenon DEF DfsInv
  <1>11. WalkType'
    BY <1>1, <1>2, <1>3, <1>4, <1>8, Zenon DEF WalkType
  <1> QED BY <1>1, <1>2, <1>10, <1>11 DEF WalkInv, Closure

(* Every directory is yielded, after its children, and the root last.      *)
LEMMA DfsDone ==
    ASSUME WalkInv, walk = "leaves_to_root", WalkEnded
    PROVE  /\ Range(order) = Nodes /\ Len(order) = Cardinality(Nodes)
           /\ order[Len(order)] = 1
  <1>1. /\ Closure /\ DfsInv /\ order \in Seq(Nodes) /\ finished \subseteq Nodes
        /\ \A i, j \in 1..Len(order) : order[i] = order[j] => i = j
    BY DEF WalkInv, WalkType
  <1>2. Len(pending) = 0 /\ Range(pending) = {}
    BY DEF WalkEnded, Range
  <1>3. discovered \subseteq finished /\ 1 \in finished /\ Range(order) = finished
    BY <1>1, <1>2 DEF DfsInv
  <1>4. ASSUME NEW m \in finished PROVE Range(children[m]) \subseteq finished
    <2> SUFFICES ASSUME NEW c \in Range(children[m]) PROVE c \in finished
      OBVIOUS
    <2>1. PICK i \in 1..Len(order) : m = order[i]
      BY <1>1, <1>3, RangeOf, Zenon
    <2>2. PICK j \in 1..(i - 1) : order[j] = c
      BY <1>1, <2>1, Zenon DEF DfsInv
    <2>3. j \in 1..Len(order)
      BY <1>1, <2>1, <2>2
    <2> QED BY <1>1, <1>3, <2>2, <2>3, RangeOf, Zenon
  <1>5. finished = Nodes
    BY <1>1, <1>3, <1>4, ClosedIsAll
  <1>6. Len(order) = Cardinality(Nodes)
    BY <1>1, <1>3, <1>5, CountedOnce
  <1>7. order[Len(order)] = 1
    <2> SUFFICES ASSUME order[Len(order)] # 1 PROVE FALSE
      OBVIOUS
    <2>1. PICK k \in 1..Len(order) : order[k] = 1
      BY <1>1, <1>3, RangeOf
    <2>2. Len(order) \in 1..Len(order) /\ order[Len(order)] \in Nodes
      BY <1>1, <2>1
    <2>3. PICK m \in Nodes : order[Len(order)] \in Range(children[m])
      BY <1>1, <2>2, ParentOf
    <2>4. PICK i \in 1..Len(order) : m = order[i]
      BY <1>1, <1>3, <1>5, RangeOf, Zenon
    <2>5. PICK j \in 1..(i - 1) : order[j] = order[Len(order)]
      BY <1>1, <2>3, <2>4, Zenon DEF DfsInv
    <2>6. j \in 1..Len(order) /\ j < Len(order)
      BY <2>2, <2>4, <2>5
    <2> QED BY <1>1, <2>2, <2>5, <2>6
  <1> QED BY <1>3, <1>5, <1>6, <1>7

-----------------------------------------------------------------------------
(* The breadth-first walk.                                                 *)

(* Bfs::next yields the front of the queue.                                *)
LEMMA BfsNextInv ==
    ASSUME WalkInv, BfsNext
    PROVE  WalkInv'
  <1>0. PICK n, t, K : n = Head(pending) /\ t = Tail(pending) /\ K = Len(order)
    BY Zenon
  <1>1. /\ walk = "root_to_leaves" /\ succs = <<>> /\ pending # <<>>
        /\ order' = Append(order, n) /\ succs' = children[n] /\ pending' = t
        /\ children' = children /\ walk' = walk /\ discovered' = discovered
        /\ finished' = finished
    BY <1>0 DEF BfsNext
  <1>2. Closure /\ WalkType /\ BfsInv /\ pending \in Seq(Nodes) /\ order \in Seq(Nodes) /\ K \in Nat
    BY <1>0, <1>1 DEF WalkInv, WalkType
  <1>3. /\ Len(pending) \in Nat /\ Len(pending) > 0 /\ n = pending[1] /\ n \in Nodes
        /\ n \in Range(pending) /\ t \in Seq(Nodes) /\ Len(t) = Len(pending) - 1
        /\ \A i \in 1..Len(pending) - 1 : t[i] = pending[i + 1]
        /\ \A x : x \in Range(pending) <=> x = n \/ x \in Range(t)
    BY <1>0, <1>1, <1>2, HeadAndTail
  <1>4. children[n] \in Seq(Nodes)
    BY <1>2, <1>3, ChildrenHigher, Zenon
  <1>5. /\ order' \in Seq(Nodes) /\ Len(order') = K + 1 /\ order'[K + 1] = n
        /\ \A i \in 1..K : order'[i] = order[i]
        /\ \A y : y \in Range(order') <=> y = n \/ y \in Range(order)
    BY <1>0, <1>1, <1>2, <1>3, Appended
  <1>6. n \notin Range(order) /\ \A i \in 1..K : order[i] # n
    <2>1. n \notin Range(order)
      BY <1>2, <1>3 DEF BfsInv
    <2> QED BY <1>0, <1>2, <2>1, RangeOf
  <1>7. /\ \A i, j \in 1..Len(t) : t[i] = t[j] => i = j
        /\ n \notin Range(t)
    <2>1. \A i, j \in 1..Len(pending) : pending[i] = pending[j] => i = j
      BY <1>2 DEF BfsInv
    <2>2. ASSUME NEW i \in 1..Len(t), NEW j \in 1..Len(t), t[i] = t[j] PROVE i = j
      <3>1. /\ i + 1 \in 1..Len(pending) /\ j + 1 \in 1..Len(pending)
            /\ pending[i + 1] = pending[j + 1]
        BY <1>3, <2>2
      <3>2. i + 1 = j + 1
        BY <2>1, <3>1, Zenon
      <3> QED BY <3>2
    <2>3. ASSUME n \in Range(t) PROVE FALSE
      <3>1. PICK i \in 1..Len(t) : n = t[i]
        BY <1>3, <2>3, RangeOf, Zenon
      <3>2. i + 1 \in 1..Len(pending) /\ 1 \in 1..Len(pending) /\ pending[i + 1] = pending[1]
        BY <1>3, <3>1
      <3>3. i + 1 = 1
        BY <2>1, <3>2, Zenon
      <3> QED BY <3>1, <3>3
    <2> QED BY <2>2, <2>3, Zenon
  <1>8. \A i, j \in 1..Len(order') : order'[i] = order'[j] => i = j
    <2>1. \A i, j \in 1..K : order[i] = order[j] => i = j
      BY <1>0, <1>2, Zenon DEF WalkType
    <2> QED BY <1>2, <1>5, <1>6, <2>1
  <1>9. ASSUME NEW x, NEW k \in 0..K, NEW l \in k..K + 1, ChildBefore(x, k)
        PROVE  ChildBefore(x, l)'
    <2>1. PICK j \in 1..k : x \in Range(children[order[j]])
      BY <1>9 DEF ChildBefore
    <2>2. order'[j] = order[j] /\ j \in 1..l
      BY <1>2, <1>5, <2>1
    <2> QED BY <1>1, <2>1, <2>2, Zenon DEF ChildBefore
  <1>10. /\ K = 0 => n = 1 /\ Range(t) = {}
         /\ K # 0 => order # <<>> /\ order[1] = 1
    <2>1. CASE K = 0
      <3>1. pending = <<1>>
        <4>1. order = <<>>
          BY <1>0, <1>2, <2>1, EmptySeq, Zenon
        <4> QED BY <1>2, <4>1, Zenon DEF BfsInv
      <3>2. n = 1 /\ Len(t) = 0
        BY <1>3, <3>1
      <3>3. \A x \in Range(t) : \E i \in 1..Len(t) : x = t[i]
        BY <1>3, RangeOf, Zenon
      <3> QED BY <2>1, <3>2, <3>3
    <2>2. CASE K # 0
      <3>1. order # <<>>
        BY <1>0, <2>2
      <3> QED BY <1>2, <2>2, <3>1 DEF BfsInv
    <2> QED BY <2>1, <2>2
  <1>11. order'[1] = 1 /\ order' # <<>>
    BY <1>2, <1>5, <1>10
  <1>12. ASSUME NEW x \in Range(t) \cup Range(children[n]) PROVE ChildBefore(x, K + 1)'
    <2>1. CASE x \in Range(children[n])
      <3>1. K + 1 \in 1..K + 1
        BY <1>2
      <3> QED BY <1>1, <1>5, <2>1, <3>1, Zenon DEF ChildBefore
    <2>2. CASE x \in Range(t)
      <3>1. ChildBefore(x, K)
        BY <1>0, <1>2, <1>3, <1>10, <2>2, Zenon DEF BfsInv
      <3> QED BY <1>2, <1>9, <3>1
    <2> QED BY <2>1, <2>2, Zenon
  <1>13. ASSUME NEW i \in 2..K + 1 PROVE ChildBefore(order[i], i - 1)'
    <2>1. CASE i = K + 1
      <3>1. ChildBefore(n, K)
        BY <1>0, <1>2, <1>3, <1>10, <2>1 DEF BfsInv
      <3>2. ChildBefore(n, K)'
        BY <1>2, <1>9, <3>1
      <3>3. order'[i] = n /\ i - 1 = K
        BY <1>2, <1>5, <2>1
      <3> QED BY <3>2, <3>3, Zenon DEF ChildBefore
    <2>2. CASE i # K + 1
      <3>1. i \in 2..K /\ i - 1 \in 0..K /\ order'[i] = order[i]
        BY <1>2, <1>5, <2>2
      <3>2. ChildBefore(order[i], i - 1)
        BY <1>0, <1>2, <3>1 DEF BfsInv
      <3>3. PICK x : x = order[i]
        BY Zenon
      <3>4. ChildBefore(x, i - 1)'
        BY <1>2, <1>9, <3>1, <3>2, <3>3
      <3> QED BY <3>1, <3>3, <3>4, Zenon DEF ChildBefore
    <2> QED BY <2>1, <2>2
  <1>14. discovered = Range(order') \cup Range(t) /\ Range(order') \cap Range(t) = {}
    <2>1. discovered = Range(order) \cup Range(pending) /\ Range(order) \cap Range(pending) = {}
      BY <1>2 DEF BfsInv
    <2> QED BY <1>3, <1>5, <1>7, <2>1, Zenon
  <1>15. \A m \in Range(order') : Range(children[m]) \subseteq discovered \cup Range(children[n])
    <2>1. \A m \in Range(order) : Range(children[m]) \subseteq discovered
      <3>1. Range(succs) = {}
        BY <1>1 DEF Range
      <3> QED BY <1>2, <3>1, Zenon DEF BfsInv
    <2> QED BY <1>5, <2>1, Zenon
  <1>16. BfsInv'
    <2>1. /\ \A i, j \in 1..Len(pending') : pending'[i] = pending'[j] => i = j
          /\ Range(order') \cap Range(pending') = {}
          /\ discovered' = Range(order') \cup Range(pending')
          /\ \A m \in Range(order') : Range(children'[m]) \subseteq discovered' \cup Range(succs')
      BY <1>1, <1>7, <1>14, <1>15, Zenon
    <2>2. \A x \in Range(pending') \cup Range(succs') : ChildBefore(x, Len(order))'
      BY <1>1, <1>5, <1>12, Zenon DEF ChildBefore
    <2>3. \A i \in 2..Len(order') : ChildBefore(order[i], i - 1)'
      BY <1>5, <1>13, Zenon
    <2> QED BY <1>11, <2>1, <2>2, <2>3, Zenon DEF BfsInv
  <1>17. WalkType'
    BY <1>1, <1>2, <1>3, <1>4, <1>5, <1>8, Zenon DEF WalkType
  <1> QED BY <1>1, <1>2, <1>16, <1>17 DEF WalkInv, Closure

(* Bfs::next queues a neighbour the first time it is discovered.           *)
LEMMA BfsQueueInv ==
    ASSUME WalkInv, BfsQueue
    PROVE  WalkInv'
  <1>0. PICK h, t : h = Head(succs) /\ t = Tail(succs)
    BY Zenon
  <1>1. /\ walk = "root_to_leaves" /\ succs # <<>> /\ succs' = t
        /\ pending' = IF h \in discovered THEN pending ELSE Append(pending, h)
        /\ discovered' = discovered \cup {h}
        /\ children' = children /\ walk' = walk /\ finished' = finished /\ order' = order
    BY <1>0 DEF BfsQueue
  <1>2. /\ Closure /\ WalkType /\ BfsInv /\ pending \in Seq(Nodes) /\ Len(pending) \in Nat
        /\ discovered = Range(order) \cup Range(pending) /\ Range(order) \cap Range(pending) = {}
        /\ \A i, j \in 1..Len(pending) : pending[i] = pending[j] => i = j
    <2>1. Closure /\ WalkType /\ BfsInv
      BY <1>1, Zenon DEF WalkInv
    <2> QED BY <2>1 DEF WalkType, BfsInv
  <1>3. /\ h \in Nodes /\ h \in Range(succs) /\ t \in Seq(Nodes)
        /\ \A x : x \in Range(succs) <=> x = h \/ x \in Range(t)
    BY <1>0, <1>1, <1>2, HeadAndTail DEF WalkType
  <1>4. order # <<>> /\ \A x \in Range(pending) \cup Range(succs) : ChildBefore(x, Len(order))
    BY <1>1, <1>2 DEF BfsInv
  <1>5. /\ pending' \in Seq(Nodes)
        /\ \A i, j \in 1..Len(pending') : pending'[i] = pending'[j] => i = j
        /\ Range(order) \cap Range(pending') = {}
        /\ discovered' = Range(order) \cup Range(pending')
        /\ \A x \in Range(pending') : x \in Range(pending) \cup Range(succs)
    <2>1. CASE h \in discovered
      BY <1>1, <1>2, <2>1, Zenon
    <2>2. CASE h \notin discovered
      <3>1. /\ pending' \in Seq(Nodes) /\ Len(pending') = Len(pending) + 1
            /\ pending'[Len(pending) + 1] = h
            /\ \A i \in 1..Len(pending) : pending'[i] = pending[i]
            /\ \A y : y \in Range(pending') <=> y = h \/ y \in Range(pending)
        BY <1>1, <1>2, <1>3, <2>2, Appended
      <3>2. \A i \in 1..Len(pending) : pending[i] # h
        BY <1>2, <2>2, RangeOf
      <3>3. \A i, j \in 1..Len(pending') : pending'[i] = pending'[j] => i = j
        BY <1>2, <3>1, <3>2
      <3> QED BY <1>1, <1>2, <1>3, <2>2, <3>1, <3>3, Zenon
    <2> QED BY <2>1, <2>2, Zenon
  <1>6. \A x \in Range(pending') \cup Range(succs') : ChildBefore(x, Len(order))'
    BY <1>1, <1>3, <1>4, <1>5, Zenon DEF ChildBefore
  <1>7. \A i \in 2..Len(order') : ChildBefore(order[i], i - 1)'
    BY <1>1, <1>2, Zenon DEF BfsInv, ChildBefore
  <1>8. \A m \in Range(order') : Range(children'[m]) \subseteq discovered' \cup Range(succs')
    BY <1>1, <1>2, <1>3, Zenon DEF BfsInv
  <1>9. order'[1] = 1 /\ order' # <<>>
    BY <1>1, <1>2, <1>4, Zenon DEF BfsInv
  <1>10. BfsInv'
    BY <1>1, <1>5, <1>6, <1>7, <1>8, <1>9, Zenon DEF BfsInv
  <1>11. WalkType'
    BY <1>1, <1>2, <1>3, <1>5 DEF WalkType
  <1> QED BY <1>1, <1>2, <1>10, <1>11, Zenon DEF WalkInv, Closure

(* Every directory is yielded, the root first, the others after a parent.  *)
LEMMA BfsDone ==
    ASSUME WalkInv, Drained
    PROVE  /\ order \in Seq(Nodes) /\ order # <<>> /\ order[1] = 1
           /\ \A i \in 2..Len(order) : ChildBefore(order[i], i - 1)
           /\ Range(order) = Nodes /\ Len(order) = Cardinality(Nodes)
  <1>1. /\ walk = "root_to_leaves" /\ pending = <<>> /\ succs = <<>>
        /\ Closure /\ WalkType /\ BfsInv
    BY Zenon DEF WalkInv, Drained, WalkEnded
  <1>2. /\ order \in Seq(Nodes) /\ discovered \subseteq Nodes
        /\ \A i, j \in 1..Len(order) : order[i] = order[j] => i = j
    BY <1>1 DEF WalkType
  <1>3. Range(pending) = {} /\ Range(succs) = {} /\ pending # <<1>>
    BY <1>1 DEF Range
  <1>4. /\ order # <<>> /\ order[1] = 1
        /\ \A i \in 2..Len(order) : ChildBefore(order[i], i - 1)
        /\ discovered = Range(order)
        /\ \A m \in Range(order) : Range(children[m]) \subseteq discovered
    BY <1>1, <1>3, Zenon DEF BfsInv
  <1>5. 1 \in Range(order)
    BY <1>2, <1>4, RangeOf, EmptySeq
  <1>6. Range(order) = Nodes
    BY <1>1, <1>2, <1>4, <1>5, ClosedIsAll, Zenon
  <1> QED BY <1>2, <1>4, <1>6, CountedOnce

(* Both walks start at the root.                                           *)
LEMMA WalkStarts == DrainInit => WalkInv
  <1> SUFFICES ASSUME DrainInit PROVE WalkInv
    OBVIOUS
  <1>1. /\ Closure /\ walk \in {"leaves_to_root", "root_to_leaves"} /\ pending = <<1>>
        /\ succs = <<>> /\ finished = {} /\ order = <<>>
        /\ walk = "root_to_leaves" => discovered = {1}
        /\ walk = "leaves_to_root" => discovered = {}
    BY DEF DrainInit, Closure
  <1>2. /\ Range(order) = {} /\ Range(succs) = {} /\ Range(pending) = {1}
        /\ Len(order) = 0 /\ Len(pending) = 1 /\ Len(pending) \in Nat
    BY <1>1 DEF Range
  <1>3. WalkType
    BY <1>1, <1>2, NodesAssumption DEF WalkType
  <1>4. ASSUME walk = "leaves_to_root" PROVE DfsInv
    BY <1>1, <1>2, <1>4 DEF DfsInv
  <1>5. ASSUME walk = "root_to_leaves" PROVE BfsInv
    BY <1>1, <1>2, <1>5 DEF BfsInv
  <1> QED BY <1>1, <1>3, <1>4, <1>5 DEF WalkInv

(* Each step of a walk keeps its invariant.                                *)
LEMMA WalkSteps ==
    ASSUME WalkInv, DrainNext
    PROVE  WalkInv' /\ ~Drained /\ children' = children /\ walk' = walk
  <1>1. WalkInv'
    BY DfsDiscoverInv, DfsPushInv, DfsFinishInv, BfsNextInv, BfsQueueInv, Zenon DEF DrainNext
  <1>2. ~WalkEnded
    BY Zenon DEF DrainNext, DfsDiscover, DfsPush, DfsFinish, BfsNext, BfsQueue, WalkEnded
  <1>3. children' = children /\ walk' = walk
    BY Zenon DEF DrainNext, DfsDiscover, DfsPush, DfsFinish, BfsNext, BfsQueue
  <1> QED BY <1>1, <1>2, <1>3, Zenon DEF Drained

(* What does not touch the walk keeps its invariant.                       *)
LEMMA WalkRests ==
    ASSUME WalkInv, UNCHANGED walkvars
    PROVE  WalkInv' /\ (Drained <=> Drained')
  BY
  DEF WalkInv, walkvars, Closure, WalkType, DfsInv, Held, BfsInv, ChildBefore, Drained, WalkEnded

-----------------------------------------------------------------------------
(* The object.                                                             *)

(* A step that leaves a reader alone, while the object is as before or was *)
(* missing before.                                                         *)
LEMMA ReaderRests ==
    ASSUME NEW r \in ObjectReaders, ReaderInv(r), children' = children,
           object = <<>> \/ object' = object,
           stream'[r] = stream[r], body'[r] = body[r], expected'[r] = expected[r],
           yielded'[r] = yielded[r]
    PROVE  ReaderInv(r)'
  <1>1. Reading(r) => Reading(r)'
    BY Zenon DEF Reading
  <1> QED BY <1>1, Zenon DEF ReaderInv

(* The validator expects the next frame: the first is the root, any other  *)
(* has been referred to by a frame before.                                 *)
LEMMA NextExpected ==
    ASSUME StoreInv, NEW r \in ObjectReaders, stream[r] = "streaming", body[r] # <<>>
    PROVE  Head(body[r]) \in expected[r]
  <1>1. WalkInv /\ ReaderInv(r) /\ Reading(r) /\ Drained /\ object = order
    BY Zenon DEF StoreInv, ObjectInv, ReaderInv, Reading
  <1>2. PICK k \in Nat : k = Len(yielded[r]) + 1
    BY <1>1 DEF ReaderInv
  <1>3. body[r] \in Seq(Nodes) /\ yielded[r] \in Seq(Nodes)
    BY <1>1, Zenon DEF ReaderInv
  <1>4. Len(body[r]) \in Nat /\ Len(body[r]) > 0 /\ Head(body[r]) = body[r][1]
    BY <1>3
  <1>5. Head(body[r]) = order[k] /\ k \in 1..Len(order)
    <2>1. /\ \A i \in 1..Len(body[r]) : body[r][i] = order[Len(yielded[r]) + i]
          /\ Len(yielded[r]) + Len(body[r]) = Len(order)
      BY <1>1, Zenon DEF Reading
    <2>2. 1 \in 1..Len(body[r]) /\ Len(yielded[r]) \in Nat
      BY <1>3, <1>4
    <2>3. body[r][1] = order[Len(yielded[r]) + 1]
      BY <2>1, <2>2, Zenon
    <2>4. k \in 1..Len(order)
      <3>1. PICK a \in Nat, b \in Nat : a = Len(yielded[r]) /\ b = Len(body[r])
        BY <1>4, <2>2
      <3>2. k = a + 1 /\ b > 0 /\ a + b = Len(order)
        BY <1>2, <1>4, <2>1, <3>1, Zenon
      <3> QED BY <3>2
    <2> QED BY <1>2, <1>4, <2>3, <2>4, Zenon
  <1>6. CASE k = 1
    BY <1>1, <1>5, <1>6, BfsDone, Zenon DEF Reading
  <1>7. CASE k # 1
    <2>1. k \in 2..Len(order)
      BY <1>5, <1>7
    <2>2. ChildBefore(order[k], k - 1)
      BY <1>1, <2>1, BfsDone
    <2>3. PICK j \in 1..(k - 1) : order[k] \in Range(children[order[j]])
      BY <2>2 DEF ChildBefore
    <2>4. j \in 1..Len(yielded[r])
      BY <1>2, <1>3, <2>3
    <2> QED BY <1>1, <1>5, <2>3, <2>4, Zenon DEF Reading
  <1> QED BY <1>6, <1>7, Zenon

(* get_recursive opens the object, if there is one, and expects the root.  *)
LEMMA OpenStreamInv ==
    ASSUME StoreInv, NEW r \in ObjectReaders, OpenStream(r)
    PROVE  ReaderInv(r)'
  <1>1. /\ ReaderInv(r) /\ stream[r] = "idle" /\ yielded[r] = <<>> /\ children' = children
        /\ object' = object /\ body'[r] = object /\ expected'[r] = {1} /\ yielded'[r] = <<>>
        /\ stream'[r] = IF object = <<>> THEN "missing" ELSE "streaming"
    BY DEF OpenStream, StoreInv, ObjectInv, ReaderInv, walkvars
  <1>2. object \in Seq(Nodes)
    <2>1. WalkInv /\ (object = <<>> \/ (Drained /\ object = order))
      BY Zenon DEF StoreInv, ObjectInv
    <2>2. <<>> \in Seq(Nodes)
      OBVIOUS
    <2> QED BY <2>1, <2>2, BfsDone, Zenon
  <1>3. object # <<>> => Reading(r)'
    BY <1>1, <1>2 DEF Reading
  <1> QED BY <1>1, <1>2, <1>3, NodesAssumption, Zenon DEF ReaderInv

(* Each frame of the object is a directory that is expected.               *)
LEMMA FrameInv ==
    ASSUME StoreInv, NEW r \in ObjectReaders, Frame(r)
    PROVE  ReaderInv(r)'
  <1>0. PICK d, b, b2, y, y2, e, e2, k :
           /\ d = Head(body[r]) /\ b = body[r] /\ b2 = Tail(b) /\ y = yielded[r] /\ y2 = Append(y, d)
           /\ e = expected[r] /\ e2 = e \cup Range(children[d]) /\ k = Len(yielded[r])
    BY Zenon
  <1>1. WalkInv /\ ReaderInv(r) /\ Reading(r) /\ stream[r] = "streaming" /\ body[r] # <<>>
    BY DEF Frame, StoreInv, ObjectInv, ReaderInv
  <1>2. frame_allowed(expected[r], d)
    BY <1>0, <1>1, NextExpected DEF frame_allowed
  <1>3. /\ yielded'[r] = y2 /\ expected'[r] = e2 /\ body'[r] = b2 /\ stream'[r] = "streaming"
        /\ object' = object /\ children' = children
    BY <1>0, <1>1, <1>2, Zenon DEF Frame, StoreInv, ObjectInv, walkvars
  <1>4. /\ b \in Seq(Nodes) /\ b # <<>> /\ y \in Seq(Nodes) /\ e \subseteq Nodes /\ d = Head(b)
        /\ k \in Nat /\ k = Len(y)
    BY <1>0, <1>1 DEF ReaderInv
  <1>5. /\ Len(b) > 0 /\ Len(b) \in Nat /\ d = b[1] /\ d \in Nodes /\ b2 \in Seq(Nodes)
        /\ Len(b2) = Len(b) - 1 /\ \A i \in 1..Len(b) - 1 : b2[i] = b[i + 1]
    BY <1>0, <1>4, HeadAndTail
  <1>6. /\ y2 \in Seq(Nodes) /\ Len(y2) = k + 1 /\ y2[k + 1] = d
        /\ \A i \in 1..k : y2[i] = y[i]
    BY <1>0, <1>4, <1>5, Appended
  <1>7. /\ object # <<>> /\ k + Len(b) = Len(object) /\ 1 \in e
        /\ \A i \in 1..k : y[i] = object[i] /\ Range(children[object[i]]) \subseteq e
        /\ \A i \in 1..Len(b) : b[i] = object[k + i]
    BY <1>0, <1>1, <1>4, Zenon DEF Reading
  <1>8. d = object[k + 1]
    BY <1>4, <1>5, <1>7
  <1>9. \A i \in 1..k + 1 : y2[i] = object[i] /\ Range(children[object[i]]) \subseteq e2
    <2> SUFFICES ASSUME NEW i \in 1..k + 1
                 PROVE  y2[i] = object[i] /\ Range(children[object[i]]) \subseteq e2
      OBVIOUS
    <2>1. CASE i = k + 1
      BY <1>0, <1>6, <1>8, <2>1, Zenon
    <2>2. CASE i # k + 1
      <3>1. i \in 1..k
        BY <1>4, <2>2
      <3> QED BY <1>0, <1>6, <1>7, <3>1, Zenon
    <2> QED BY <2>1, <2>2
  <1>10. ASSUME NEW i \in 1..Len(b2) PROVE b2[i] = object[k + 1 + i]
    <2>1. i + 1 \in 1..Len(b) /\ b2[i] = b[i + 1] /\ k + (i + 1) = k + 1 + i
      BY <1>4, <1>5
    <2> QED BY <1>7, <2>1
  <1>11. Reading(r)'
    <2>1. k + 1 + Len(b2) = Len(object)
      BY <1>4, <1>5, <1>7
    <2>2. 1 \in e2
      BY <1>0, <1>7, Zenon
    <2> QED BY <1>3, <1>6, <1>7, <1>9, <1>10, <2>1, <2>2, Zenon DEF Reading
  <1>12. e2 \subseteq Nodes
    BY <1>0, <1>1, <1>4, <1>5, ChildrenHigher, Zenon DEF WalkInv
  <1> QED BY <1>3, <1>5, <1>6, <1>11, <1>12, Zenon DEF ReaderInv

(* A step of one reader keeps the invariant of objects and readers.        *)
LEMMA ReaderSteps ==
    ASSUME StoreInv, NEW r \in ObjectReaders,
           OpenStream(r) \/ Frame(r) \/ EndOfBody(r) \/ Break(r)
    PROVE  StoreInv'
  <1>1. WalkInv /\ ObjectInv
    BY DEF StoreInv
  <1>2. /\ UNCHANGED walkvars /\ object' = object /\ putter' = putter /\ children' = children
        /\ order' = order
    BY Zenon DEF OpenStream, Frame, EndOfBody, Break, walkvars
  <1>3. /\ DOMAIN body' = ObjectReaders /\ DOMAIN yielded' = ObjectReaders
        /\ DOMAIN expected' = ObjectReaders /\ DOMAIN stream' = ObjectReaders
        /\ \A q \in ObjectReaders \ {r} :
              /\ stream'[q] = stream[q] /\ body'[q] = body[q] /\ expected'[q] = expected[q]
              /\ yielded'[q] = yielded[q]
    BY <1>1, Zenon DEF ObjectInv, OpenStream, Frame, EndOfBody, Break
  <1>4. ReaderInv(r)'
    <2>1. CASE EndOfBody(r) \/ Break(r)
      <3>1. /\ ReaderInv(r) /\ Reading(r) /\ body' = body /\ expected' = expected
            /\ yielded' = yielded
            /\ stream'[r] \in {"done", "error"} /\ (stream'[r] = "done" => body[r] = <<>>)
        BY <1>1, <2>1, Zenon DEF EndOfBody, Break, ObjectInv, ReaderInv
      <3>2. Reading(r)'
        BY <1>2, <3>1, Zenon DEF Reading
      <3> QED BY <3>1, <3>2, Zenon DEF ReaderInv
    <2> QED BY <2>1, OpenStreamInv, FrameInv, Zenon
  <1>5. \A q \in ObjectReaders : ReaderInv(q)'
    BY <1>1, <1>2, <1>3, <1>4, ReaderRests, Zenon DEF ObjectInv
  <1>6. WalkInv' /\ (Drained <=> Drained')
    BY <1>1, <1>2, WalkRests, Zenon
  <1>7. ObjectInv'
    BY <1>1, <1>2, <1>3, <1>5, <1>6, Zenon DEF ObjectInv
  <1> QED BY <1>6, <1>7 DEF StoreInv

(* A step of one putter keeps the invariant of objects and readers.        *)
LEMMA PutterSteps ==
    ASSUME StoreInv, NEW p \in ObjectPutters, FindObject(p) \/ Shutdown(p) \/ WriteFails(p)
    PROVE  StoreInv'
  <1>1. WalkInv /\ ObjectInv
    BY DEF StoreInv
  <1>2. /\ UNCHANGED walkvars /\ UNCHANGED rdvars /\ children' = children /\ order' = order
    BY Zenon DEF FindObject, Shutdown, WriteFails, walkvars
  <1>3. WalkInv' /\ (Drained <=> Drained')
    BY <1>1, <1>2, WalkRests, Zenon
  <1>4. Drained
    BY <1>1, Zenon DEF FindObject, Shutdown, WriteFails, ObjectInv, Drained
  <1>5. object' = object \/ object' = order
    BY Zenon DEF FindObject, Shutdown, WriteFails
  <1>6. DOMAIN putter' = ObjectPutters
    BY <1>1, Zenon DEF FindObject, Shutdown, WriteFails, ObjectInv
  <1>7. \A r \in ObjectReaders : ReaderInv(r)'
    <2>1. object = <<>> \/ object' = object
      BY <1>1, <1>5, Zenon DEF ObjectInv
    <2> QED BY <1>1, <1>2, <2>1, ReaderRests, Zenon DEF ObjectInv, rdvars
  <1>8. ObjectInv'
    BY <1>1, <1>2, <1>3, <1>4, <1>5, <1>6, <1>7, Zenon DEF ObjectInv, rdvars
  <1> QED BY <1>3, <1>8 DEF StoreInv

(* No step of walks, putters or readers leaves the invariant.              *)
LEMMA StoreInductive == StoreInv /\ [ObjectNext]_objectvars => StoreInv'
  <1> SUFFICES ASSUME StoreInv, [ObjectNext]_objectvars PROVE StoreInv'
    OBVIOUS
  <1>1. CASE DrainNext /\ UNCHANGED ovars
    <2>1. WalkInv' /\ ~Drained /\ children' = children
      BY <1>1, WalkSteps, Zenon DEF StoreInv
    <2>2. /\ object = <<>> /\ object' = object /\ putter' = putter /\ UNCHANGED rdvars
          /\ ObjectInv
      BY <1>1, <2>1, Zenon DEF ovars, rdvars, StoreInv, ObjectInv
    <2>3. \A r \in ObjectReaders : ReaderInv(r)'
      BY <2>1, <2>2, ReaderRests, Zenon DEF ObjectInv, rdvars
    <2>4. ObjectInv'
      BY <2>1, <2>2, <2>3, Zenon DEF ObjectInv, rdvars
    <2> QED BY <2>1, <2>4 DEF StoreInv
  <1>2. CASE \E p \in ObjectPutters : FindObject(p) \/ Shutdown(p) \/ WriteFails(p)
    BY <1>2, PutterSteps, Zenon
  <1>3. CASE \E r \in ObjectReaders : OpenStream(r) \/ Frame(r) \/ EndOfBody(r) \/ Break(r)
    BY <1>3, ReaderSteps, Zenon
  <1>4. CASE UNCHANGED objectvars
    <2>1. /\ UNCHANGED walkvars /\ children' = children /\ object' = object /\ putter' = putter
          /\ UNCHANGED rdvars /\ order' = order /\ WalkInv /\ ObjectInv
      BY <1>4, Zenon DEF objectvars, ovars, rdvars, walkvars, StoreInv
    <2>2. WalkInv' /\ (Drained <=> Drained')
      BY <2>1, WalkRests, Zenon
    <2>3. \A r \in ObjectReaders : ReaderInv(r)'
      BY <2>1, ReaderRests, Zenon DEF ObjectInv, rdvars
    <2>4. ObjectInv'
      BY <2>1, <2>2, <2>3 DEF ObjectInv, rdvars
    <2> QED BY <2>2, <2>4, Zenon DEF StoreInv
  <1> QED BY <1>1, <1>2, <1>3, <1>4 DEF ObjectNext

(* The inductive invariant holds of every behaviour of the walks and the   *)
(* object store.                                                           *)
THEOREM StoreInvariance == ObjectSpec => []StoreInv
  <1>1. ObjectInit => StoreInv
    <2> SUFFICES ASSUME ObjectInit PROVE StoreInv
      OBVIOUS
    <2>1. WalkInv
      BY WalkStarts, Zenon DEF ObjectInit
    <2>2. ObjectInv
      BY DEF ObjectInit, ObjectInv, ReaderInv
    <2> QED BY <2>1, <2>2 DEF StoreInv
  <1> QED BY <1>1, StoreInductive, PTL DEF ObjectSpec

(* drain_leaves_to_root yields children first and the root last;           *)
(* drain_root_to_leaves, the object written from it and                    *)
(* RootToLeavesValidator fit together: for every closure, however its      *)
(* directories share children, and any number of racing putters and        *)
(* readers, a stream that ends has yielded all of it, the root first and   *)
(* each directory once.                                                    *)
THEOREM ClosuresCorrect == ObjectSpec => []ClosureReadsBack
  <1>1. StoreInv => ClosureReadsBack
    <2> SUFFICES ASSUME StoreInv PROVE ClosureReadsBack
      OBVIOUS
    <2>1. WalkInv /\ ObjectInv
      BY Zenon DEF StoreInv
    <2>2. LeavesBeforeParents
      <3>1. walk = "leaves_to_root" =>
               \A i \in DOMAIN order : \A c \in Range(children[order[i]]) :
                  \E j \in 1..(i - 1) : order[j] = c
        <4>1. WalkType /\ (walk = "leaves_to_root" => DfsInv)
          BY <2>1, Zenon DEF WalkInv
        <4>2. DOMAIN order = 1..Len(order)
          BY <4>1, RangeOf, Zenon DEF WalkType
        <4> QED BY <4>1, <4>2, Zenon DEF DfsInv
      <3> QED BY <2>1, <3>1, DfsDone DEF LeavesBeforeParents
    <2>3. ASSUME NEW r \in ObjectReaders PROVE stream[r] # "unexpected"
      BY <2>1, Zenon DEF ObjectInv, ReaderInv
    <2>4. ASSUME NEW r \in ObjectReaders, stream[r] = "done" PROVE yielded[r] = order /\ Drained
      <3>1. /\ Reading(r) /\ body[r] = <<>> /\ yielded[r] \in Seq(Nodes) /\ Drained
            /\ object = order
        BY <2>1, <2>4 DEF ObjectInv, ReaderInv, Reading
      <3>2. order \in Seq(Nodes)
        BY <2>1, Zenon DEF WalkInv, WalkType
      <3>3. Len(yielded[r]) = Len(order) /\ \A i \in 1..Len(yielded[r]) : yielded[r][i] = order[i]
        BY <3>1, <3>2 DEF Reading
      <3> QED BY <3>1, <3>2, <3>3
    <2>5. ASSUME NEW r \in ObjectReaders, stream[r] = "done"
          PROVE  /\ Head(yielded[r]) = 1
                 /\ Range(yielded[r]) = Nodes /\ Len(yielded[r]) = Cardinality(Nodes)
      <3>1. /\ order \in Seq(Nodes) /\ order # <<>> /\ order[1] = 1
            /\ Range(order) = Nodes /\ Len(order) = Cardinality(Nodes)
        BY <2>1, <2>4, <2>5, BfsDone, Zenon
      <3>2. Head(order) = 1
        BY <3>1
      <3> QED BY <2>4, <2>5, <3>1, <3>2, Zenon
    <2> QED BY <2>2, <2>3, <2>5, Zenon DEF ClosureReadsBack
  <1> QED BY <1>1, StoreInvariance, PTL
=============================================================================
