---------------------------- MODULE EvalBuiltins ----------------------------
(***************************************************************************)
(* The builtins of tvix-eval that take part in evaluation: those that      *)
(* force, call, suspend or catch (eval/src/builtins/mod.rs), and `import'. *)
(* Arguments that are not lazy are forced before the body runs, the last   *)
(* one first, and a catchable one is the result (builtin-macros).          *)
(***************************************************************************)
EXTENDS Generators

ArgV(g, k) == Whnf(g.st.args[k])
NArgs(g) == Len(g.st.args)

(* The argument the prologue stops at: not yet forced, or catchable. *)
Unready(g) ==
  {k \in DOMAIN g.st.args : Strict[g.name][k] /\
     (IsForced(g.st.args[k]) => IsCatchable(ArgV(g, k)))}
Prologue(g) ==
  LET k == Max(Unready(g))
  IN IF IsForced(g.st.args[k]) THEN Done(ArgV(g, k)) ELSE Ask(g, g.st.args[k])

ListV(s) == <<"list", nextId, s>>
SetV(f) == AttrsV(nextId, f)
ToSet2(k1, v1, k2, v2) == SetV((k1 :> v1) @@ (k2 :> v2))

(* Type errors of the casts, or <<>> when each argument has its type. *)
Cast(v, type, name) == IF v[1] = type THEN <<>> ELSE <<FailV(TypeError(name, v))>>
ListArg(g) == Cast(ArgV(g, NArgs(g)), "list", "list")

-----------------------------------------------------------------------------
(* Builtins that compute their result from the forced arguments. *)
Simple == {"throw", "abort", "length", "head", "tail", "attrNames", "attrValues", "typeOf",
           "functionArgs", "seq", "elemAt", "getAttr", "hasAttr", "removeAttrs",
           "intersectAttrs", "sub", "isFunction", "isNull", "isList"}

(* intersectAttrs walks the two sorted key sequences in step *)
RECURSIVE Intersect(_, _, _)
Intersect(l, r, f) ==
  IF l = <<>> \/ r = <<>> THEN NoAttrs
  ELSE IF Head(l) = Head(r) THEN (Head(l) :> f[Head(l)]) @@ Intersect(Tail(l), Tail(r), f)
  ELSE IF Rank(StrV(Head(l))) < Rank(StrV(Head(r))) THEN Intersect(Tail(l), r, f)
  ELSE Intersect(l, Tail(r), f)

(* the casts to_list, to_attrs, to_str: the result, or a type error *)
AsList(v, r) == IF v[1] = "list" THEN r ELSE FailV(TypeError("list", v))
AsAttrs(v, r) == IF v[1] = "attrs" THEN r ELSE FailV(TypeError("set", v))
AsStr(v, r) == IF v[1] = "str" THEN r ELSE FailV(TypeError("contextless strings", v))

AttrNames(a) ==
  AsAttrs(a, ListV([i \in DOMAIN SortedKeys(a[3]) |-> StrV(SortedKeys(a[3])[i])]))
AttrValues(a) == AsAttrs(a, ListV(SortedVals(a[3])))
ElemAt(a, b) ==
  AsList(a, IF b[1] # "int" THEN FailV(TypeError("int", b))
            ELSE IF b[2] \notin 0..(Len(a[3]) - 1) THEN FailV(<<"IndexOutOfBounds", b[2]>>)
            ELSE a[3][b[2] + 1])
ListHead(a) == AsList(a, IF a[3] = <<>> THEN FailV(<<"IndexOutOfBounds", 0>>) ELSE Head(a[3]))
ListTail(a) == AsList(a, IF a[3] = <<>> THEN FailV(<<"TailEmptyList">>) ELSE ListV(Tail(a[3])))
GetAttr(a, b) ==
  AsStr(a, AsAttrs(b, IF a[2] \in DOMAIN b[3] THEN b[3][a[2]]
                      ELSE FailV(<<"AttributeNotFound", a[2]>>)))
HasAttr(a, b) == AsStr(a, AsAttrs(b, BoolV(a[2] \in DOMAIN b[3])))
IntersectAttrs(a, b) ==
  AsAttrs(a, IF DOMAIN a[3] = {} THEN SetV(NoAttrs)
             ELSE AsAttrs(b, SetV(Intersect(SortedKeys(a[3]), SortedKeys(b[3]), b[3]))))
FunctionArgs(a) ==
  IF a[1] # "closure" THEN FailV(TypeError("lambda", a))
  ELSE LET fs == Lambda(a[3]).formals
       IN SetV(IF fs = None THEN NoAttrs ELSE [k \in fs.args |-> BoolV(k \in fs.defaults)])
(* the names are read without being forced *)
RemoveAttrs(a, b) ==
  LET bad == {i \in DOMAIN b[3] : IsForced(b[3][i]) => Whnf(b[3][i])[1] # "str"}
      gone == {Whnf(b[3][i])[2] : i \in DOMAIN b[3]}
  IN AsAttrs(a, AsList(b,
       IF bad = {} THEN SetV([k \in DOMAIN a[3] \ gone |-> a[3][k]])
       ELSE IF IsForced(b[3][Min(bad)])
       THEN FailV(TypeError("contextless strings", Whnf(b[3][Min(bad)])))
       ELSE <<"panic", "Thunk::value called on a suspended thunk">>))
IsOfType(n, a) ==
  BoolV(CASE n = "isFunction" -> a[1] \in {"closure", "builtin"}
          [] n = "isNull" -> a[1] = "null"
          [] n = "isList" -> a[1] = "list")

SimpleResult(g) ==
  LET a == ArgV(g, 1)
      b == ArgV(g, 2)
      n == g.name
  IN CASE n = "throw" -> AsStr(a, CatchV("throw", a[2]))
       [] n = "abort" -> AsStr(a, FailV(<<"Abort", a[2]>>))
       [] n = "typeOf" -> StrV(TypeOf(a))
       [] n = "seq" -> b
       [] n = "sub" -> Arith("Sub", a, b)
       [] n \in {"isFunction", "isNull", "isList"} -> IsOfType(n, a)
       [] n = "length" -> AsList(a, IntV(Len(a[3])))
       [] n = "head" -> ListHead(a)
       [] n = "tail" -> ListTail(a)
       [] n = "elemAt" -> ElemAt(a, b)
       [] n = "attrNames" -> AttrNames(a)
       [] n = "attrValues" -> AttrValues(a)
       [] n = "getAttr" -> GetAttr(a, b)
       [] n = "hasAttr" -> HasAttr(a, b)
       [] n = "removeAttrs" -> RemoveAttrs(a, b)
       [] n = "intersectAttrs" -> IntersectAttrs(a, b)
       [] n = "functionArgs" -> FunctionArgs(a)

-----------------------------------------------------------------------------
(* Builtins that suspend applications: map, mapAttrs, genList. *)
Suspending == {"map", "mapAttrs", "genList"}
MapList(f, l) ==
  IF l[1] # "list" THEN Done(FailV(TypeError("list", l)))
  ELSE DoneWith(ListV([i \in DOMAIN l[3] |-> <<"thunk", Len(heap) + i>>]),
                [i \in DOMAIN l[3] |-> SuspendedCall(f, l[3][i])])
GenList(f, n) ==
  IF n[1] # "int" THEN Done(FailV(TypeError("int", n)))
  ELSE IF n[2] < 0 THEN Done(FailV(<<"Abort", "can not create list">>))
  ELSE DoneWith(ListV([i \in 1..n[2] |-> <<"thunk", Len(heap) + i>>]),
                [i \in 1..n[2] |-> SuspendedCall(f, IntV(i - 1))])
(* two suspended calls for each attribute: f k, and (f k) v *)
MapAttrs(f, l) ==
  LET keys == SortedKeys(l[3])
      at(i) == Len(heap) + 2 * i
  IN IF l[1] # "attrs" THEN Done(FailV(TypeError("set", l)))
     ELSE DoneWith(
            SetV([k \in DOMAIN l[3] |-> <<"thunk", at(CHOOSE i \in DOMAIN keys : keys[i] = k)>>]),
            FlattenSeq([i \in DOMAIN keys |->
              <<SuspendedCall(f, StrV(keys[i])),
                SuspendedCall(<<"thunk", at(i) - 1>>, l[3][keys[i]])>>]))
SuspendingResult(g) ==
  LET f == g.st.args[1]
      l == ArgV(g, 2)
  IN CASE g.name = "map" -> MapList(f, l)
       [] g.name = "genList" -> GenList(f, l)
       [] g.name = "mapAttrs" -> MapAttrs(f, l)

-----------------------------------------------------------------------------
(* Builtins that go through a list, forcing an element or the result of a
   call on it before the next. *)
Calling == {"any", "all", "filter", "partition", "concatMap", "groupBy", "foldl"}
Looping == Calling \cup {"concatLists", "catAttrs", "listToAttrs"}

LoopStart(g) ==
  CASE g.name = "foldl" -> g.st.args[2]
    [] g.name = "partition" -> [right |-> <<>>, wrong |-> <<>>]
    [] g.name \in {"groupBy", "listToAttrs"} -> NoAttrs
    [] OTHER -> <<>>
LoopEnd(g) ==
  LET acc == g.st.acc
  IN CASE g.name = "any" -> BoolV(FALSE)
       [] g.name = "all" -> BoolV(TRUE)
       [] g.name = "foldl" -> acc
       [] g.name = "partition" -> ToSet2("right", ListV(acc.right), "wrong", ListV(acc.wrong))
       [] g.name = "groupBy" -> SetV([k \in DOMAIN acc |-> ListV(acc[k])])
       [] g.name = "listToAttrs" -> SetV(acc)
       [] OTHER -> ListV(acc)

(* What the builtin does with the forced element or result `m'; Next1 goes on
   to the next element. *)
Next1(g, acc) == Go(Set(g, [i |-> g.st.i + 1, acc |-> acc]))
TestBody(g, x, m) ==        \* any, all, filter, partition
  LET n == g.name
      acc == g.st.acc
  IN IF m[1] # "bool" THEN Done(FailV(TypeError("bool", m)))
     ELSE IF n = "any" THEN IF m[2] THEN Done(m) ELSE Next1(g, acc)
     ELSE IF n = "all" THEN IF m[2] THEN Next1(g, acc) ELSE Done(m)
     ELSE IF n = "filter" THEN Next1(g, IF m[2] THEN Append(acc, x) ELSE acc)
     ELSE Next1(g, IF m[2] THEN [acc EXCEPT !.right = Append(@, x)]
                   ELSE [acc EXCEPT !.wrong = Append(@, x)])
ConcatBody(g, m) ==         \* concatMap, concatLists
  IF m[1] # "list" THEN Done(FailV(TypeError("list", m))) ELSE Next1(g, g.st.acc \o m[3])
GroupByBody(g, x, m) ==
  LET acc == g.st.acc
  IN IF m[1] # "str" THEN Done(FailV(TypeError("contextless strings", m)))
     ELSE Next1(g, (m[2] :> Append(IF m[2] \in DOMAIN acc THEN acc[m[2]] ELSE <<>>, x)) @@ acc)
CatAttrsBody(g, m) ==
  LET k == ArgV(g, 1)
  IN IF k[1] # "str" THEN Done(FailV(TypeError("contextless strings", k)))
     ELSE IF m[1] # "attrs" THEN Done(FailV(TypeError("set", m)))
     ELSE Next1(g, IF k[2] \in DOMAIN m[3] THEN Append(g.st.acc, m[3][k[2]]) ELSE g.st.acc)
ListToAttrsBody(g, e) ==
  LET acc == g.st.acc
      name == e[3]["name"]
      k == Whnf(name)
  IN IF e[1] # "attrs" THEN Done(FailV(TypeError("set", e)))
     ELSE IF "name" \notin DOMAIN e[3] THEN Done(FailV(<<"AttributeNotFound", "name">>))
     ELSE IF ~IsForced(name) THEN Ask(g, name)
     ELSE IF IsCatchable(k) THEN Done(k)
     ELSE IF k[1] # "str" THEN Done(FailV(TypeError("contextless strings", k)))
     ELSE IF "value" \notin DOMAIN e[3] THEN Done(FailV(<<"AttributeNotFound", "value">>))
     ELSE Next1(g, IF k[2] \in DOMAIN acc THEN acc ELSE (k[2] :> e[3]["value"]) @@ acc)
LoopBody(g, x, m) ==
  LET n == g.name
  IN IF IsCatchable(m) /\ n # "catAttrs" THEN Done(m)
     ELSE CASE n \in {"any", "all", "filter", "partition"} -> TestBody(g, x, m)
            [] n \in {"concatMap", "concatLists"} -> ConcatBody(g, m)
            [] n = "foldl" -> Next1(g, m)
            [] n = "groupBy" -> GroupByBody(g, x, m)
            [] n = "catAttrs" -> CatAttrsBody(g, m)
            [] n = "listToAttrs" -> ListToAttrsBody(g, Whnf(x))

ResumeLoop(g, m) ==
  LET list == ArgV(g, NArgs(g))
      x == list[3][g.st.i]
  IN IF ListArg(g) # <<>> THEN Done(ListArg(g)[1])
     ELSE IF g.st.i = 0 THEN Go(Set(g, [i |-> 1, acc |-> LoopStart(g)]))
     ELSE IF g.st.i > Len(list[3]) THEN Done(LoopEnd(g))
     ELSE IF ~g.waits
     THEN IF g.name = "foldl" THEN CallWith(g, ArgV(g, 1), <<g.st.acc, x>>)
          ELSE IF g.name \in Calling THEN CallWith(g, ArgV(g, 1), <<x>>)
          ELSE Ask(g, x)
     ELSE IF IsThunk(m) THEN Ask(g, m)
     ELSE LoopBody(g, x, m)

(* elem compares with pointer equality allowed *)
ResumeElem(g, m) ==
  LET list == ArgV(g, 2)
  IN IF ListArg(g) # <<>> THEN Done(ListArg(g)[1])
     ELSE IF g.st.i > 0 /\ g.waits /\ (IsCatchable(m) \/ m = BoolV(TRUE)) THEN Done(m)
     ELSE IF g.st.i = Len(list[3]) THEN Done(BoolV(FALSE))
     ELSE Await(Set(g, [i |-> g.st.i + 1]), EqGen(ArgV(g, 1), list[3][g.st.i + 1], 2), <<>>)

(* sort: a bubble sort that stops at the last swap of the pass before *)
Swap(s, i) == [s EXCEPT ![i] = s[i - 1], ![i - 1] = s[i]]
ResumeSort(g, m) ==
  LET s == g.st.acc
      n == IF g.st.i = 0 THEN 0 ELSE s.len
      pass(st) == Go(Set(g, st))
  IN IF ListArg(g) # <<>> THEN Done(ListArg(g)[1])
     ELSE IF g.st.i = 0
     THEN pass([i |-> 2, acc |-> [data |-> ArgV(g, 2)[3], len |-> Len(ArgV(g, 2)[3]), new |-> 1]])
     ELSE IF g.st.i > n
     THEN IF s.new = 1 THEN Done(ListV(s.data))
          ELSE pass([i |-> 2, acc |-> [s EXCEPT !.len = s.new - 1, !.new = 1]])
     ELSE IF ~g.waits THEN CallWith(g, ArgV(g, 1), <<s.data[g.st.i], s.data[g.st.i - 1]>>)
     ELSE IF IsThunk(m) THEN Ask(g, m)
     ELSE IF IsCatchable(m) THEN Done(m)
     ELSE IF m[1] # "bool" THEN Done(FailV(TypeError("bool", m)))
     ELSE pass([i |-> g.st.i + 1,
                acc |-> IF m[2] THEN [s EXCEPT !.data = Swap(@, g.st.i), !.new = g.st.i] ELSE s])

(* genericClosure: a work list, and the keys seen so far compared one by one *)
ResumeClosure(g, m) ==
  LET a == ArgV(g, 1)
      s == g.st.acc
      start == a[3]["startSet"]
      w == Head(s.work)
      item == Whnf(w)
      to(st) == Go(Set(g, [acc |-> st @@ s]))
  IN IF a[1] # "attrs" THEN Done(FailV(TypeError("set", a)))
     ELSE IF "startSet" \notin DOMAIN a[3] THEN Done(FailV(<<"AttributeNotFound", "startSet">>))
     ELSE IF ~IsForced(start) THEN Ask(g, start)
     ELSE IF Whnf(start)[1] # "list" THEN Done(FailV(TypeError("list", Whnf(start))))
     ELSE IF "operator" \notin DOMAIN a[3] THEN Done(FailV(<<"AttributeNotFound", "operator">>))
     ELSE IF g.st.i = 0
     THEN Go(Set(g, [i |-> 1, acc |-> [work |-> Whnf(start)[3], res |-> <<>>, done |-> <<>>,
                                       k |-> 0, call |-> FALSE]]))
     ELSE IF s.call
     THEN IF IsThunk(m) THEN Ask(g, m)
          ELSE IF m[1] # "list" THEN Done(FailV(TypeError("list", m)))
          ELSE to([work |-> Tail(s.work) \o m[3], k |-> 0, call |-> FALSE])
     ELSE IF s.work = <<>> THEN Done(ListV(s.res))
     ELSE IF ~IsForced(w) THEN Ask(g, w)
     ELSE IF item[1] # "attrs" THEN Done(FailV(TypeError("set", item)))
     ELSE IF "key" \notin DOMAIN item[3] THEN Done(FailV(<<"AttributeNotFound", "key">>))
     ELSE IF s.k > 0 /\ g.waits /\ IsCatchable(m) THEN Done(m)
     ELSE IF s.k > 0 /\ g.waits /\ m[2] THEN to([work |-> Tail(s.work), k |-> 0])
     ELSE IF s.k < Len(s.done)
     THEN Await(Set(g, [acc |-> [s EXCEPT !.k = @ + 1]]),
                EqGen(s.done[s.k + 1], item[3]["key"], 0), <<>>)
     ELSE CallWith(Set(g, [acc |-> [s EXCEPT !.done = Append(@, item[3]["key"]),
                                             !.res = Append(@, item), !.call = TRUE]]),
                   a[3]["operator"], <<item>>)

(* tryEval, deepSeq, toString, lessThan *)
ResumeWrapper(g, m) ==
  LET x == g.st.args[1]
  IN CASE g.name = "tryEval" ->
            IF ~IsForced(x) THEN Ask(g, x)
            ELSE LET ok == ~IsCatchable(Whnf(x))
                 IN Done(ToSet2("value", IF ok THEN Whnf(x) ELSE BoolV(FALSE), "success", BoolV(ok)))
       [] g.name = "deepSeq" ->
            IF g.st.i = 0 THEN Await(Set(g, [i |-> 1]), DeepForceGen(x), <<>>) ELSE Done(ArgV(g, 2))
       [] g.name = "toString" ->
            IF g.st.i = 0 THEN Await(Set(g, [i |-> 1]), CoerceGen(x, TRUE, FALSE), <<>>) ELSE Done(m)
       [] g.name = "lessThan" ->
            IF g.st.i = 0
            THEN Await(Set(g, [i |-> 1]), CmpGen("Less", ArgV(g, 1), ArgV(g, 2)), <<>>) ELSE Done(m)

(* import_impl: a file is compiled once, into a thunk that every import of it
   shares *)
Cached(f) == {t \in DOMAIN heap : <<f, t>> \in cache}
ResumeImport(g) ==
  LET p == ArgV(g, 1)
  IN IF p[1] # "path" THEN Done(FailV(<<"NotAnAbsolutePath">>))
     ELSE IF Cached(p[2]) # {} THEN Done(<<"thunk", CHOOSE t \in Cached(p[2]) : TRUE>>)
     ELSE IF p[2] \notin Files THEN Done(FailV(<<"IO", p[2]>>))
     ELSE [r |-> "import", file |-> p[2]]

ResumeBuiltin(g, m) ==
  CASE g.name \in Simple -> Done(SimpleResult(g))
    [] g.name \in Suspending -> SuspendingResult(g)
    [] g.name \in Looping -> ResumeLoop(g, m)
    [] g.name = "elem" -> ResumeElem(g, m)
    [] g.name = "sort" -> ResumeSort(g, m)
    [] g.name = "genericClosure" -> ResumeClosure(g, m)
    [] g.name = "import" -> ResumeImport(g)
    [] OTHER -> ResumeWrapper(g, m)

Resume(g, m) ==
  CASE g.name = "call_with" -> ResumeCallWith(g, m)
    [] g.name = "call_functor" -> IF g.waits THEN Done(m) ELSE ResumeFunctor(g)
    [] g.name = "deep_force" -> ResumeDeepForce(g)
    [] g.name = "final_deep_force" ->
         IF g.st.i = 0 THEN Await(Set(g, [i |-> 1]), DeepForceGen(m), <<>>) ELSE Done(m)
    [] g.name = "nix_eq" -> ResumeEq(g)
    [] g.name = "compare" -> ResumeCompare(g, m)
    [] g.name = "coerce_to_string" -> ResumeCoerce(g, m)
    [] g.name = "add_values" -> ResumeAdd(g, m)
    [] g.name = "resolve_with" -> ResumeResolveWith(g)
    [] OTHER -> IF Unready(g) # {} THEN Prologue(g) ELSE ResumeBuiltin(g, m)

=============================================================================
