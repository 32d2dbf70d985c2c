----------------------------- MODULE Generators -----------------------------
(***************************************************************************)
(* The coroutines of tvix-eval: what a generator frame does from one       *)
(* resumption to its next request to the machine (vm/generators.rs).       *)
(*                                                                         *)
(* A coroutine that the code awaits inside another one (Thunk::force_,     *)
(* request_call_with, a nested nix_eq) is a frame of its own here.  After  *)
(* it asked for a value to be forced, a generator looks the value up in    *)
(* the heap instead of keeping the answer `m' of the machine.  A generator *)
(* keeps the values it was given until it ends.                            *)
(***************************************************************************)
EXTENDS Bytecode

Await(g, f, push) == [r |-> "await", g |-> g, f |-> f, push |-> push]
Ask(g, v) == Await(g, ForceGen(v), <<>>)
Done(v) == [r |-> "done", v |-> v, new |-> <<>>]
DoneWith(v, new) == [r |-> "done", v |-> v, new |-> new]
Go(g) == [r |-> "go", g |-> g]
CallWith(g, f, args) ==
  Await(g, Gen("call_with", [f |-> f, n |-> Len(args)]), Reverse(args))
Set(g, st) == [g EXCEPT !.st = st @@ @]

(* request_call_with, its arguments on the stack *)
ResumeCallWith(g, m) ==
  LET f == IF g.waits THEN m ELSE g.st.f
  IN IF g.st.n = 0 THEN Done(f)
     ELSE IF ~IsForced(f) THEN Ask(g, f)
     ELSE [r |-> "call", g |-> [g EXCEPT !.st.n = @ - 1], c |-> Whnf(f)]

ResumeFunctor(g) ==
  LET set == g.st.set
  IN IF "__functor" \notin DOMAIN set[3] THEN Done(FailV(<<"NotCallable", "set">>))
     ELSE Await(g, Gen("call_with", [f |-> set[3]["__functor"], n |-> 2]), <<set>>)

-----------------------------------------------------------------------------
(* Value::deep_force_ *)
ResumeDeepForce(g) ==
  LET vals == g.st.vals
      v == Last(vals)
      w == Whnf(v)
      rest(more) == Go(Set(g, [vals |-> Front(vals) \o Reverse(more),
                               seen |-> g.st.seen \cup (IF IsThunk(v) THEN {v[2]} ELSE {})]))
  IN IF vals = <<>> THEN Done(g.st.self)
     ELSE IF IsThunk(v) /\ v[2] \in g.st.seen THEN Go(Set(g, [vals |-> Front(vals)]))
     ELSE IF ~IsForced(v) THEN Ask(g, v)
     ELSE CASE w[1] = "list" -> rest(w[3])
            [] w[1] = "attrs" -> rest(SortedVals(w[3]))
            [] w[1] = "catch" -> Done(w)
            [] w[1] \in Internal -> Done(<<"panic", "internal value left on stack">>)
            [] OTHER -> rest(<<>>)
DeepForceGen(v) == Gen("deep_force", [self |-> v, vals |-> <<v>>, seen |-> {}])

-----------------------------------------------------------------------------
(* Value::nix_eq; pointer equality is forbidden (0), allowed for nested
   values (1) or for thunks too (2). *)
SameClosure(a, b) == a[2] = b[2] /\ a[3] = b[3]
PtrEq(a, b) ==
  \/ a = b
  \/ \E x, y \in {heap[a[2]]} \cup {heap[b[2]]} :
       /\ x = heap[a[2]] /\ y = heap[b[2]] /\ x[1] = "evaluated" /\ y[1] = "evaluated"
       /\ x[2][1] = "closure" /\ y[2][1] = "closure" /\ SameClosure(x[2], y[2])

ResumeEq(g) ==
  LET vals == g.st.vals
      top == Last(vals)
      pe == top[3]
      deeper == IF pe = 0 THEN 1 ELSE pe
      a == Whnf(top[1])
      b == Whnf(top[2])
      go(more) == Go(Set(g, [vals |-> Front(vals) \o Reverse(more)]))
      types == IF a[1] = "attrs" /\ b[1] = "attrs" /\ "type" \in DOMAIN a[3] \cap DOMAIN b[3]
               THEN <<a[3]["type"], b[3]["type"]>> ELSE <<>>
      outs == IF types # <<>> /\ \A i \in 1..2 : Whnf(types[i]) = StrV("derivation")
              THEN IF "outPath" \in DOMAIN a[3] \cap DOMAIN b[3]
                   THEN <<a[3]["outPath"], b[3]["outPath"]>> ELSE <<FailV(<<"AttributeNotFound", "outPath">>)>>
              ELSE <<>>
      unforced(s) == {i \in DOMAIN s : ~IsForced(s[i])}
      caught(s) == {i \in DOMAIN s : IsForced(s[i]) /\ IsCatchable(Whnf(s[i]))}
      setEq == IF DOMAIN a[3] # DOMAIN b[3] /\ Cardinality(DOMAIN a[3]) # Cardinality(DOMAIN b[3])
               THEN Done(BoolV(FALSE))
               ELSE LET ka == SortedKeys(a[3])
                        kb == SortedKeys(b[3])
                    IN go(FlattenSeq([i \in DOMAIN ka |->
                            <<<<StrV(ka[i]), StrV(kb[i]), deeper>>,
                              <<a[3][ka[i]], b[3][kb[i]], deeper>>>>]))
  IN IF vals = <<>> THEN Done(BoolV(TRUE))
     ELSE IF pe = 2 /\ IsThunk(top[1]) /\ IsThunk(top[2]) /\ PtrEq(top[1], top[2]) THEN go(<<>>)
     ELSE IF ~IsForced(top[1]) THEN Ask(g, top[1])
     ELSE IF ~IsForced(top[2]) THEN Ask(g, top[2])
     ELSE CASE IsCatchable(a) -> Done(a)
            [] ~IsCatchable(a) /\ IsCatchable(b) -> Done(b)
            [] a[1] = "list" /\ b[1] = "list" ->
                 IF pe >= 1 /\ a[2] = b[2] THEN go(<<>>)
                 ELSE IF Len(a[3]) # Len(b[3]) THEN Done(BoolV(FALSE))
                 ELSE go([i \in DOMAIN a[3] |-> <<a[3][i], b[3][i], deeper>>])
            [] a[1] = "attrs" /\ b[1] = "attrs" ->
                 IF pe >= 1 /\ a[2] = b[2] THEN go(<<>>)
                 ELSE IF unforced(types) \cup caught(types) # {}
                 THEN LET t == types[Min(unforced(types) \cup caught(types))]
                      IN IF IsForced(t) THEN Done(Whnf(t)) ELSE Ask(g, t)
                 ELSE IF outs = <<>> THEN setEq
                 ELSE IF outs[1][1] = "fail" THEN Done(outs[1])
                 ELSE IF unforced(outs) # {} THEN Ask(g, outs[Min(unforced(outs))])
                 ELSE IF caught(outs) # {} THEN Done(Whnf(outs[Min(caught(outs))]))
                 ELSE IF \E i \in 1..2 : Whnf(outs[i])[1] # "str"
                 THEN Done(FailV(<<"TypeError", "contextful string">>))
                 ELSE IF Whnf(outs[1]) = Whnf(outs[2]) THEN go(<<>>) ELSE Done(BoolV(FALSE))
            [] a[1] = "closure" /\ b[1] = "closure" ->
                 IF pe >= 1 /\ SameClosure(a, b) THEN go(<<>>) ELSE Done(BoolV(FALSE))
            [] a[1] = b[1] /\ a[1] \in {"null", "bool", "str", "path", "int"} ->
                 IF a = b THEN go(<<>>) ELSE Done(BoolV(FALSE))
            [] OTHER -> Done(BoolV(FALSE))

-----------------------------------------------------------------------------
(* compare and Value::nix_cmp_ordering_: the elements of two lists are first
   compared for equality *)
Ordered(op, o) ==
  BoolV(CASE op = "Less" -> o < 0 [] op = "More" -> o > 0
          [] op = "LessOrEq" -> o <= 0 [] op = "MoreOrEq" -> o >= 0)
Rank(v) == IF v[1] = "int" THEN v[2] ELSE CHOOSE i \in DOMAIN KeyOrder : KeyOrder[i] = v[2]
ResumeCompare(g, m) ==
  LET vals == g.st.vals
      top == Last(vals)
      rest == Set(g, [vals |-> Front(vals)])
      a == Whnf(top[1])
      b == Whnf(top[2])
      elem(i) == IF i > Len(b[3]) THEN <<IntV(1), IntV(0), FALSE>>
                 ELSE IF i > Len(a[3]) THEN <<IntV(0), IntV(1), FALSE>>
                 ELSE <<a[3][i], b[3][i], TRUE>>
  IN IF vals = <<>> THEN Done(Ordered(g.st.op, 0))
     ELSE IF top[3] /\ ~g.waits THEN Await(g, EqGen(top[1], top[2], 2), <<>>)
     ELSE IF top[3] /\ m[1] # "bool" THEN Done(FailV(TypeError("bool", m)))
     ELSE IF top[3] /\ m[2] THEN Go(rest)
     ELSE IF ~IsForced(top[1]) \/ ~IsForced(top[2]) THEN Done(<<"panic", "unforced">>)
     ELSE CASE IsCatchable(a) -> Done(a)
            [] ~IsCatchable(a) /\ IsCatchable(b) -> Done(b)
            [] a[1] = b[1] /\ a[1] \in {"int", "str"} ->
                 IF a = b THEN Go(rest) ELSE Done(Ordered(g.st.op, Rank(a) - Rank(b)))
            [] a[1] = "list" /\ b[1] = "list" ->
                 LET n == IF Len(a[3]) > Len(b[3]) THEN Len(a[3]) ELSE Len(b[3])
                 IN Go(Set(g, [vals |-> Front(vals) \o Reverse([i \in 1..n |-> elem(i)])]))
            [] OTHER -> Done(FailV(<<"Incomparable", TypeOf(a), TypeOf(b)>>))

-----------------------------------------------------------------------------
(* Value::coerce_to_string_: words of a list are separated by spaces *)
ImportedPath(p) == "/nix/store" \o p       \* external: EvalIO::import_path
ResumeCoerce(g, m) ==
  LET vals == IF g.waits /\ g.st.called THEN Append(g.st.vals, m) ELSE g.st.vals
      v == Last(vals)
      w == Whnf(v)
      at(f) == Go(Set(g, [vals |-> f, called |-> FALSE]))
      word(s) == Go(Set(g, [vals |-> Front(vals), called |-> FALSE,
                            res |-> g.st.res \o (IF g.st.head = "no" THEN " " ELSE "") \o s,
                            head |-> IF g.st.head = "yes" THEN "no" ELSE g.st.head]))
  IN IF vals = <<>> THEN Done(StrV(g.st.res))
     ELSE IF ~IsForced(v) THEN Ask(Set(g, [vals |-> vals, called |-> FALSE]), v)
     ELSE CASE w[1] = "str" -> word(w[2])
            [] w[1] = "path" -> word(IF g.st.imp THEN ImportedPath(w[2]) ELSE w[2])
            [] w[1] = "attrs" ->
                 IF "__toString" \in DOMAIN w[3]
                 THEN CallWith(Set(g, [vals |-> Front(vals), called |-> TRUE]),
                               w[3]["__toString"], <<w>>)
                 ELSE IF "outPath" \in DOMAIN w[3] THEN at(Append(Front(vals), w[3]["outPath"]))
                 ELSE Done(FailV(<<"NotCoercibleToString", "set">>))
            [] w[1] = "list" /\ g.st.strong ->
                 Go(Set(g, [vals |-> Front(vals) \o Reverse(w[3]), called |-> FALSE,
                            head |-> IF g.st.head = "none" THEN "yes" ELSE g.st.head]))
            [] w[1] = "int" /\ g.st.strong -> word(ToString(w[2]))
            [] w[1] \in {"bool", "null"} /\ g.st.strong ->
                 word(IF w = BoolV(TRUE) THEN "1" ELSE "")
            [] w[1] = "catch" -> Done(w)
            [] w[1] \in Internal -> Done(<<"panic", "coerce_to_string on internal value">>)
            [] OTHER -> Done(FailV(<<"NotCoercibleToString", TypeOf(w)>>))

(* add_values: the type of the first value decides *)
ResumeAdd(g, m) ==
  LET a == g.st.a
      b == g.st.b
      s == IF g.waits THEN Append(g.st.s, m) ELSE g.st.s
      todo == IF a[1] \in {"path", "str"} THEN <<b>> ELSE <<a, b>>
      next == todo[Len(s) + 1]
      first == IF a[1] \in {"path", "str"} THEN a[2] ELSE s[1][2]
  IN IF a[1] = "int" THEN Done(Arith("Add", a, b))
     ELSE IF Len(s) < Len(todo)
     THEN IF next[1] = "str" THEN Go([Set(g, [s |-> Append(s, next)]) EXCEPT !.waits = FALSE])
          ELSE Await(Set(g, [s |-> s]), CoerceGen(next, FALSE, a[1] = "str"), <<>>)
     ELSE IF \E i \in DOMAIN s : IsCatchable(s[i])
     THEN Done(s[Min({i \in DOMAIN s : IsCatchable(s[i])})])
     ELSE Done(IF a[1] = "path" THEN PathV(first \o Last(s)[2]) ELSE StrV(first \o Last(s)[2]))

-----------------------------------------------------------------------------
(* resolve_with: the machine's with-stack, then the captured one, innermost
   first; LastCallFrame is the frame that asked. *)
LastCallFrame == frames[Max({i \in DOMAIN frames : frames[i].k = "call"})]
ResumeResolveWith(g) ==
  LET set == IF g.st.vm > 0 THEN stack[withs[g.st.vm]] ELSE LastCallFrame.upv.with[g.st.up]
      w == Whnf(set)
      next == Go(Set(g, IF g.st.vm > 0 THEN [vm |-> g.st.vm - 1] ELSE [up |-> g.st.up - 1]))
  IN IF g.st.vm = 0 /\ g.st.up = 0 THEN Done(FailV(<<"UnknownDynamicVariable", g.st.name>>))
     ELSE IF ~IsForced(set) THEN Ask(g, set)
     ELSE IF IsCatchable(w) THEN Done(w)
     ELSE IF w[1] # "attrs" THEN Done(FailV(TypeError("set", w)))
     ELSE IF g.st.name \in DOMAIN w[3] THEN Done(w[3][g.st.name]) ELSE next

=============================================================================
