---------------------------- MODULE NixSemantics ----------------------------
(***************************************************************************)
(* What a Nix expression means, independently of how tvix-eval gets there: *)
(* a call-by-name evaluator over expressions and environments, with no     *)
(* bytecode, slots, thunks or sharing.                                     *)
(*                                                                         *)
(* An environment is a sequence of scopes, the innermost last.  A scope is *)
(* a set of bindings that see each other ("rec"), a function's arguments   *)
(* with the defaults of those not given ("val"), or the set of a `with'.   *)
(* A delayed computation is an expression in an environment, an            *)
(* application of two delayed ones, or a value.  Eval is given a depth     *)
(* `n'; an evaluation that does not end within it failed.                  *)
(***************************************************************************)
EXTENDS Compiler, TLC

CONSTANTS
  Files, Source, SearchPath, KeyOrder,   \* as for the machine
  Fuel,          \* the depth of evaluation granted to a program
  Depth          \* how deep results are compared

Delay(e, env) == [k |-> "e", e |-> e, env |-> env]
Ap(f, a) == [k |-> "ap", f |-> f, a |-> a]
Value(v) == [k |-> "v", v |-> v]

Wrong == <<"err">>                     \* an error that cannot be caught
Bad(v) == v[1] \in {"err", "catch"}
SetValue(f) == <<"attrs", 0, f>>
ListValue(s) == <<"list", 0, s>>
Keys(f) == SelectSeq(KeyOrder, LAMBDA k : k \in DOMAIN f)

(* A global as a value of this evaluator: sets hold delayed computations. *)
Global(v) == IF v[1] = "attrs" THEN SetValue([k \in DOMAIN v[3] |-> Value(v[3][k])]) ELSE v

(* The evaluator: what delayed computation d comes to, in at most n nested steps.
   Comparing, coercing and reading a value in full are delayed computations too. *)
RECURSIVE Eval(_, _)
EvalIn(e, env, n) == Eval(Delay(e, env), n)
EvalBuiltin(name, args, n) == Eval([k |-> "builtin", name |-> name, args |-> args], n)
Equal(x, y, nested, n) == Eval([k |-> "equal", x |-> x, y |-> y, nested |-> nested], n)
Compare(a, b, n) == Eval([k |-> "less", a |-> a, b |-> b], n)
ToStr(d, how, n) == Eval([k |-> "str", d |-> d, how |-> how], n)
Deep(d, depth, n) == Eval([k |-> "deep", d |-> d, depth |-> depth], n)

(* The first of several delayed computations that fails, or <<>>. *)
FirstBad(ds, n) ==
  LET bad == {i \in DOMAIN ds : Bad(Eval(ds[i], n))}
  IN IF bad = {} THEN <<>> ELSE <<Eval(ds[Min(bad)], n)>>

-----------------------------------------------------------------------------
(* Bindings: entries with the same first attribute describe one set. *)

Names(bs) ==
  {bs.ents[i].path[1].v : i \in {j \in DOMAIN bs.ents : IsStatic(bs.ents[j].path[1])}}
Inherited(bs) == UNION {Range(bs.inh[i].names) : i \in DOMAIN bs.inh}

(* the expression bound to `name' by its entries, merged in order *)
Merged(bs, name) ==
  LET es == SelectSeq(bs.ents, LAMBDA x : IsStatic(x.path[1]) /\ x.path[1].v = name)
      literal(x) == Len(x.path) = 1
      content(x) == IF literal(x) THEN x.v.bs
                    ELSE [inh |-> <<>>, ents |-> <<[path |-> Tail(x.path), v |-> x.v]>>]
      join(a, b) == [inh |-> a.inh \o b.inh, ents |-> a.ents \o b.ents]
  IN IF Len(es) = 1 /\ literal(es[1]) THEN es[1].v
     ELSE SetOf(IF literal(es[1]) THEN es[1].v.kind ELSE "attrs",
                FoldLeft(LAMBDA acc, x : join(acc, content(x)),
                         [inh |-> <<>>, ents |-> <<>>], es))

InheritOf(bs, name) ==
  LET i == Min({j \in DOMAIN bs.inh : name \in Range(bs.inh[j].names)}) IN bs.inh[i]

(* The delayed value of a name that `bs' binds; `in' is the environment of the
   bindings' right-hand sides and `around' the one outside of them. *)
Bound(bs, name, in, around) ==
  IF name \in Names(bs) THEN Delay(Merged(bs, name), in)
  ELSE LET h == InheritOf(bs, name)
       IN IF h.from = None THEN Delay(Var(name), around)
          ELSE Delay(Select(h.from, <<Lit(name)>>, None), in)

-----------------------------------------------------------------------------
(* Names: lexical scopes inside out, then globals, then the withs. *)

ScopeHas(s, name) ==
  CASE s.k = "rec" -> name \in Names(s.bs) \cup Inherited(s.bs)
    [] s.k = "val" -> name \in DOMAIN s.vals \cup DOMAIN s.defaults
    [] s.k = "with" -> FALSE
Lookup(name, env, n) ==
  LET lex == {i \in DOMAIN env : ScopeHas(env[i], name)}
      i == Max(lex)
      withs == SelectSeq(Reverse(env), LAMBDA s : s.k = "with")
      RECURSIVE Search(_)
      Search(j) ==
        IF j > Len(withs) THEN Wrong
        ELSE LET w == Eval(withs[j].d, n)
             IN IF Bad(w) THEN w ELSE IF w[1] # "attrs" THEN Wrong
                ELSE IF name \in DOMAIN w[3] THEN Eval(w[3][name], n) ELSE Search(j + 1)
  IN IF lex # {}
     THEN IF env[i].k = "val"
          THEN Eval(IF name \in DOMAIN env[i].vals THEN env[i].vals[name]
                    ELSE Delay(env[i].defaults[name], SubSeq(env, 1, i)), n)
          ELSE Eval(Bound(env[i].bs, name, SubSeq(env, 1, i), SubSeq(env, 1, i - 1)), n)
     ELSE IF name \in DOMAIN Globals THEN Global(Globals[name])
     ELSE Search(1)

(* { bindings }: dynamic keys are evaluated, null ones left out *)
EvalSet(e, env, kind, n) ==
  LET bs == e.bs
      in == IF kind = "rec" THEN Append(env, [k |-> "rec", bs |-> bs]) ELSE env
      static == Names(bs) \cup Inherited(bs)
      dyn == SelectSeq(bs.ents, LAMBDA x : ~IsStatic(x.path[1]))
      key == [i \in DOMAIN dyn |-> EvalIn(dyn[i].path[1], in, n)]
      bad == {i \in DOMAIN dyn : key[i][1] \notin {"str", "null"}}
      live == {i \in DOMAIN dyn : key[i][1] = "str"}
      clash == \E i, j \in live : key[i] = key[j] /\ i # j
  IN IF \E i \in bad : key[i][1] # "catch" THEN Wrong
     ELSE IF bad # {} THEN key[Max(bad)]
     ELSE IF clash \/ \E i \in live : key[i][2] \in static THEN Wrong
     ELSE SetValue([x \in static \cup {key[i][2] : i \in live} |->
            IF x \in static THEN Bound(bs, x, in, env)
            ELSE LET i == CHOOSE j \in live : key[j][2] = x
                 IN Delay(IF Len(dyn[i].path) = 1 THEN dyn[i].v
                          ELSE SetOf("attrs", [inh |-> <<>>, ents |->
                                 <<[path |-> Tail(dyn[i].path), v |-> dyn[i].v]>>]), in)])

-----------------------------------------------------------------------------
(* Operators. *)

Compute(op, a, b, n) ==
  LET ints == a[1] = "int" /\ b[1] = "int"
      abs(i) == IF i < 0 THEN -i ELSE i
  IN IF a[1] = "err" \/ b[1] = "err" THEN Wrong
     ELSE IF Bad(b) THEN b ELSE IF Bad(a) THEN a      \* the right operand's failure
     ELSE CASE op = "Equal" -> Equal(Value(a), Value(b), FALSE, n)
            [] op = "NotEqual" -> LET r == Equal(Value(a), Value(b), FALSE, n)
                                  IN IF Bad(r) THEN r ELSE BoolV(~r[2])
            [] op \in {"Less", "LessOrEq", "More", "MoreOrEq"} ->
                 LET r == IF op \in {"Less", "MoreOrEq"} THEN Compare(a, b, n) ELSE Compare(b, a, n)
                 IN IF Bad(r) THEN r
                    ELSE BoolV(IF op \in {"Less", "More"} THEN r[2] ELSE ~r[2])
            [] op = "AttrsUpdate" ->
                 IF a[1] = "attrs" /\ b[1] = "attrs" THEN SetValue(b[3] @@ a[3]) ELSE Wrong
            [] op = "Concat" ->
                 IF a[1] = "list" /\ b[1] = "list" THEN ListValue(a[3] \o b[3]) ELSE Wrong
            [] op = "Add" /\ ~ints ->
                 LET s == ToStr(Value(a), "weak", n)
                     t == ToStr(Value(b), IF a[1] = "str" THEN "import" ELSE "weak", n)
                 IN IF a[1] = "int" THEN Wrong
                    ELSE IF s[1] = "err" \/ t[1] = "err" THEN Wrong
                    ELSE IF Bad(s) THEN s ELSE IF Bad(t) THEN t
                    ELSE IF a[1] = "path" THEN PathV(s[2] \o t[2]) ELSE StrV(s[2] \o t[2])
            [] OTHER -> IF ~ints \/ (op = "Div" /\ b[2] = 0) THEN Wrong
                        ELSE IntV(CASE op = "Add" -> a[2] + b[2] [] op = "Sub" -> a[2] - b[2]
                                    [] op = "Mul" -> a[2] * b[2]
                                    [] op = "Div" -> (IF (a[2] < 0) # (b[2] < 0) THEN -1 ELSE 1)
                                                     * (abs(a[2]) \div abs(b[2])))

(* a /\ b, a \/ b, a -> b: the right operand counts only when the left does not decide *)
Logic(e, env, n) ==
  LET a == EvalIn(e.l, env, n)
      decides == IF e.op = "Or" THEN TRUE ELSE FALSE
      b == EvalIn(e.r, env, n)
  IN IF Bad(a) THEN a ELSE IF a[1] # "bool" THEN Wrong
     ELSE IF a[2] = decides THEN BoolV(e.op # "And")
     ELSE IF Bad(b) \/ b[1] = "bool" THEN b ELSE Wrong

(* Equality; nested functions are equal when they are the same. *)
Equality(x, y, nested, n) ==
  LET a == Eval(x, n)
      b == Eval(y, n)
      RECURSIVE All(_, _, _)
      All(s, t, i) == IF i > Len(s) THEN BoolV(TRUE)
                      ELSE LET r == Equal(s[i], t[i], TRUE, n)
                           IN IF r = BoolV(TRUE) THEN All(s, t, i + 1) ELSE r
      vals(f) == [i \in DOMAIN Keys(f) |-> f[Keys(f)[i]]]
      drv(v) == v[1] = "attrs" /\ "type" \in DOMAIN v[3]
                /\ Eval(v[3]["type"], n) = StrV("derivation")
  IN IF a[1] = "err" \/ b[1] = "err" THEN Wrong
     ELSE IF Bad(a) THEN a ELSE IF Bad(b) THEN b
     ELSE IF a[1] # b[1] THEN BoolV(FALSE)
     ELSE CASE a[1] = "list" -> IF Len(a[3]) # Len(b[3]) THEN BoolV(FALSE) ELSE All(a[3], b[3], 1)
            [] a[1] = "attrs" ->
                 IF drv(a) /\ drv(b)
                 THEN IF "outPath" \in DOMAIN a[3] \cap DOMAIN b[3]
                      THEN Equal(a[3]["outPath"], b[3]["outPath"], TRUE, n) ELSE Wrong
                 ELSE IF DOMAIN a[3] = DOMAIN b[3] THEN All(vals(a[3]), vals(b[3]), 1)
                 ELSE IF Cardinality(DOMAIN a[3]) # Cardinality(DOMAIN b[3]) THEN BoolV(FALSE)
                 ELSE LET ka == Keys(a[3])
                          kb == Keys(b[3])
                          d == Min({i \in DOMAIN ka : ka[i] # kb[i]})
                          r == All(SubSeq(vals(a[3]), 1, d - 1), SubSeq(vals(b[3]), 1, d - 1), 1)
                      IN IF Bad(r) THEN r ELSE BoolV(FALSE)
            [] a[1] = "fun" -> BoolV(nested /\ a = b)
            [] a[1] = "builtin" -> BoolV(FALSE)
            [] OTHER -> BoolV(a = b)

(* a < b *)
Index(s) == CHOOSE i \in DOMAIN KeyOrder : KeyOrder[i] = s
Order(a, b, n) ==
  LET RECURSIVE Lists(_)
      Lists(i) ==
        IF i > Len(b[3]) THEN BoolV(FALSE) ELSE IF i > Len(a[3]) THEN BoolV(TRUE)
        ELSE LET eq == Equal(a[3][i], b[3][i], TRUE, n)
             IN IF Bad(eq) THEN Wrong ELSE IF eq[2] THEN Lists(i + 1)
                ELSE Compare(Eval(a[3][i], n), Eval(b[3][i], n), n)
  IN IF a[1] # b[1] THEN Wrong
     ELSE CASE a[1] = "int" -> BoolV(a[2] < b[2])
            [] a[1] = "str" -> BoolV(Index(a[2]) < Index(b[2]))
            [] a[1] = "list" -> Lists(1)
            [] OTHER -> Wrong

(* Coercion to a string: numbers and lists only where "strong", the words of a
   list spaced; "import" copies a path to the store. *)
Coercion(d, how, n) ==
  LET v == Eval(d, n)
      RECURSIVE Join(_)
      Join(i) == LET w == ToStr(v[3][i], how, n)
                     r == Join(i + 1)
                 IN IF Bad(w) \/ i = Len(v[3]) THEN w ELSE IF Bad(r) THEN r
                    ELSE StrV(w[2] \o " " \o r[2])
  IN CASE v[1] \in {"str", "catch"} -> v
            [] v[1] = "path" -> StrV(IF how = "import" THEN "/nix/store" \o v[2] ELSE v[2])
            [] v[1] = "attrs" ->
                 IF "__toString" \in DOMAIN v[3]
                 THEN ToStr(Ap(v[3]["__toString"], Value(v)), how, n)
                 ELSE IF "outPath" \in DOMAIN v[3] THEN ToStr(v[3]["outPath"], how, n)
                 ELSE Wrong
            [] v[1] = "list" /\ how = "strong" -> IF v[3] = <<>> THEN StrV("") ELSE Join(1)
            [] v[1] = "int" /\ how = "strong" -> StrV(ToString(v[2]))
            [] v[1] \in {"bool", "null"} /\ how = "strong" -> StrV(IF v = BoolV(TRUE) THEN "1" ELSE "")
            [] OTHER -> Wrong

-----------------------------------------------------------------------------
(* Builtins; `l' is the list a builtin goes through, `at(i)' what its function
   makes of the i-th element. *)

LazyArgs == {<<"map", 1>>, <<"mapAttrs", 1>>, <<"genList", 1>>, <<"foldl", 2>>,
             <<"tryEval", 1>>, <<"toString", 1>>}
Arity(name) ==
  CASE name \in {"throw", "abort", "length", "head", "tail", "concatLists", "listToAttrs",
                 "attrNames", "attrValues", "typeOf", "functionArgs", "genericClosure",
                 "import", "tryEval", "toString", "isFunction", "isNull", "isList"} -> 1
    [] name = "foldl" -> 3
    [] OTHER -> 2

(* the strict arguments that fail; the last one decides *)
BadArgs(name, args, n) ==
  {k \in DOMAIN args : <<name, k>> \notin LazyArgs /\ Bad(Eval(args[k], n))}

Sorted(l, less(_, _)) ==           \* stable
  LET place(i) == 1 + Cardinality({j \in DOMAIN l : less(j, i)
                                     \/ (j < i /\ ~less(j, i) /\ ~less(i, j))})
  IN [p \in DOMAIN l |-> l[CHOOSE i \in DOMAIN l : place(i) = p]]

RECURSIVE Fold(_, _, _, _), Closure(_, _, _, _, _)
Fold(f, acc, l, n) ==
  IF l = <<>> THEN Eval(acc, n)
  ELSE LET r == Eval(Ap(Ap(f, acc), Head(l)), n)
       IN IF Bad(r) THEN r ELSE Fold(f, Value(r), Tail(l), n)
Closure(op, work, keys, res, n) ==
  IF work = <<>> THEN ListValue(res)
  ELSE LET x == Eval(Head(work), n)
           key == x[3]["key"]
           more == Eval(Ap(op, Value(x)), n)
       IN IF x[1] # "attrs" \/ "key" \notin DOMAIN x[3] THEN Wrong
          ELSE IF \E i \in DOMAIN keys : Equal(keys[i], key, FALSE, n) = BoolV(TRUE)
          THEN Closure(op, Tail(work), keys, res, n)
          ELSE IF more[1] # "list" THEN Wrong
          ELSE Closure(op, Tail(work) \o more[3], Append(keys, key), Append(res, Value(x)), n)

EvalSetBuiltin(name, a, b, args, n) ==
  LET names == {Eval(b[3][i], n)[2] : i \in DOMAIN b[3]}
      fs == a[2].fs
  IN CASE name = "attrNames" ->
            IF a[1] # "attrs" THEN Wrong
            ELSE ListValue([i \in DOMAIN Keys(a[3]) |-> Value(StrV(Keys(a[3])[i]))])
       [] name = "attrValues" ->
            IF a[1] # "attrs" THEN Wrong
            ELSE ListValue([i \in DOMAIN Keys(a[3]) |-> a[3][Keys(a[3])[i]]])
       [] name = "functionArgs" ->
            IF a[1] # "fun" THEN Wrong
            ELSE IF a[2].t = "lam" THEN SetValue(NoAttrs)
            ELSE SetValue([k \in {fs[i].n : i \in DOMAIN fs} |->
                   Value(BoolV(\E i \in DOMAIN fs : fs[i].n = k /\ fs[i].d # None))])
       [] name = "removeAttrs" ->
            IF a[1] # "attrs" \/ b[1] # "list" THEN Wrong
            ELSE IF FirstBad(b[3], n) # <<>> THEN FirstBad(b[3], n)[1]
            ELSE SetValue([k \in DOMAIN a[3] \ names |-> a[3][k]])
       [] b[1] # "attrs" -> Wrong
       [] name = "mapAttrs" ->
            SetValue([k \in DOMAIN b[3] |-> Ap(Ap(args[1], Value(StrV(k))), b[3][k])])
       [] name = "intersectAttrs" ->
            IF a[1] # "attrs" THEN Wrong
            ELSE SetValue([k \in DOMAIN a[3] \cap DOMAIN b[3] |-> b[3][k]])
       [] a[1] # "str" -> Wrong
       [] name = "getAttr" -> IF a[2] \in DOMAIN b[3] THEN Eval(b[3][a[2]], n) ELSE Wrong
       [] name = "hasAttr" -> BoolV(a[2] \in DOMAIN b[3])

Builtin(name, args, n) ==
  LET a == Eval(args[1], n)
      b == Eval(args[2], n)
      lst == Eval(args[Len(args)], n)
      l == lst[3]
      at(i) == Eval(Ap(args[1], l[i]), n)
      first(ok(_)) == LET no == {i \in DOMAIN l : ~ok(at(i))} IN IF no = {} THEN 0 ELSE Min(no)
      fails(i) == IF at(i)[1] = "catch" THEN at(i) ELSE Wrong
      isBool(v) == v[1] = "bool"
      picked(want) == LET is == SelectSeq([i \in DOMAIN l |-> i], LAMBDA i : at(i) = BoolV(want))
                      IN ListValue([j \in DOMAIN is |-> l[is[j]]])
      field(i, k) == Eval(Eval(l[i], n)[3][k], n)
      bad == BadArgs(name, args, n)
      Listed(r) == IF lst[1] = "list" THEN r ELSE Wrong
  IN IF bad # {} THEN Eval(args[Max(bad)], n)
     ELSE CASE name = "throw" -> IF a[1] = "str" THEN CatchV("throw", a[2]) ELSE Wrong
       [] name = "abort" -> Wrong
       [] name = "seq" -> b
       [] name = "isFunction" -> BoolV(a[1] \in {"fun", "builtin"})
       [] name = "isNull" -> BoolV(a = NullV)
       [] name = "isList" -> BoolV(a[1] = "list")
       [] name = "deepSeq" -> LET d == Deep(args[1], Depth, n) IN IF Bad(d) THEN d ELSE b
       [] name = "tryEval" ->
            IF a[1] = "err" THEN Wrong
            ELSE SetValue([value |-> Value(IF Bad(a) THEN BoolV(FALSE) ELSE a),
                           success |-> Value(BoolV(~Bad(a)))])
       [] name = "typeOf" ->
            StrV(CASE a[1] = "str" -> "string" [] a[1] = "attrs" -> "set"
                   [] a[1] \in {"fun", "builtin"} -> "lambda" [] OTHER -> a[1])
       [] name = "toString" -> ToStr(args[1], "strong", n)
       [] name = "sub" -> Compute("Sub", a, b, n)
       [] name = "lessThan" -> Compute("Less", a, b, n)
       [] name = "import" ->
            IF a[1] = "path" /\ a[2] \in Files THEN EvalIn(Source[a[2]].e, <<>>, n) ELSE Wrong
       [] name = "length" -> Listed(IntV(Len(l)))
       [] name = "head" -> Listed(IF l = <<>> THEN Wrong ELSE Eval(l[1], n))
       [] name = "tail" -> Listed(IF l = <<>> THEN Wrong ELSE ListValue(Tail(l)))
       [] name = "elemAt" -> IF a[1] # "list" \/ b[1] # "int" THEN Wrong
                             ELSE IF b[2] + 1 \in DOMAIN a[3] THEN Eval(a[3][b[2] + 1], n) ELSE Wrong
       [] name = "map" -> Listed(ListValue([i \in DOMAIN l |-> Ap(args[1], l[i])]))
       [] name = "genList" ->
            IF b[1] # "int" \/ b[2] < 0 THEN Wrong
            ELSE ListValue([i \in 1..b[2] |-> Ap(args[1], Value(IntV(i - 1)))])
       [] name = "any" -> Listed(LET i == first(LAMBDA v : v = BoolV(FALSE))
                                 IN IF i = 0 THEN BoolV(FALSE)
                                    ELSE IF isBool(at(i)) THEN BoolV(TRUE) ELSE fails(i))
       [] name = "all" -> Listed(LET i == first(LAMBDA v : v = BoolV(TRUE))
                                 IN IF i = 0 THEN BoolV(TRUE)
                                    ELSE IF isBool(at(i)) THEN BoolV(FALSE) ELSE fails(i))
       [] name = "filter" -> Listed(IF first(isBool) # 0 THEN fails(first(isBool)) ELSE picked(TRUE))
       [] name = "partition" ->
            Listed(IF first(isBool) # 0 THEN fails(first(isBool))
                   ELSE SetValue([right |-> Value(picked(TRUE)), wrong |-> Value(picked(FALSE))]))
       [] name = "concatMap" ->
            Listed(LET i == first(LAMBDA v : v[1] = "list")
                   IN IF i # 0 THEN fails(i)
                      ELSE ListValue(FlattenSeq([j \in DOMAIN l |-> at(j)[3]])))
       [] name = "concatLists" ->
            Listed(IF FirstBad(l, n) # <<>> THEN FirstBad(l, n)[1]
                   ELSE IF \E i \in DOMAIN l : Eval(l[i], n)[1] # "list" THEN Wrong
                   ELSE ListValue(FlattenSeq([j \in DOMAIN l |-> Eval(l[j], n)[3]])))
       [] name = "groupBy" ->
            Listed(LET i == first(LAMBDA v : v[1] = "str")
                   IN IF i # 0 THEN fails(i)
                      ELSE SetValue([k \in {at(j)[2] : j \in DOMAIN l} |->
                             LET is == SelectSeq([j \in DOMAIN l |-> j], LAMBDA j : at(j)[2] = k)
                             IN Value(ListValue([j \in DOMAIN is |-> l[is[j]]]))]))
       [] name = "foldl" -> Listed(Fold(args[1], args[2], l, n))
       [] name = "elem" ->
            Listed(LET eq(i) == Equal(args[1], l[i], TRUE, n)
                       hits == {i \in DOMAIN l : eq(i) # BoolV(FALSE)}
                   IN IF hits = {} THEN BoolV(FALSE) ELSE eq(Min(hits)))
       [] name = "sort" ->
            Listed(LET less(i, j) == Eval(Ap(Ap(args[1], l[i]), l[j]), n)
                   IN IF \E i, j \in DOMAIN l : i # j /\ ~isBool(less(i, j))
                      THEN LET p == CHOOSE q \in (DOMAIN l) \X (DOMAIN l) : q[1] # q[2] /\ ~isBool(less(q[1], q[2]))
                           IN IF Bad(less(p[1], p[2])) THEN less(p[1], p[2]) ELSE Wrong
                      ELSE ListValue(Sorted(l, LAMBDA i, j : less(i, j)[2])))
       [] name = "genericClosure" ->
            IF a[1] # "attrs" \/ ~({"startSet", "operator"} \subseteq DOMAIN a[3]) THEN Wrong
            ELSE LET start == Eval(a[3]["startSet"], n)
                 IN IF start[1] # "list" THEN Wrong
                    ELSE Closure(a[3]["operator"], start[3], <<>>, <<>>, n)
       [] name = "listToAttrs" ->
            Listed(IF FirstBad(l, n) # <<>> THEN FirstBad(l, n)[1]
                   ELSE IF \E i \in DOMAIN l : Eval(l[i], n)[1] # "attrs" THEN Wrong
                   ELSE IF \E i \in DOMAIN l : ~({"name", "value"} \subseteq DOMAIN Eval(l[i], n)[3])
                   THEN Wrong
                   ELSE SetValue([k \in {field(i, "name")[2] : i \in DOMAIN l} |->
                          Eval(l[Min({i \in DOMAIN l : field(i, "name")[2] = k})], n)[3]["value"]]))
       [] name = "catAttrs" ->
            Listed(LET with == SelectSeq(l, LAMBDA d : a[2] \in DOMAIN Eval(d, n)[3])
                   IN ListValue([i \in DOMAIN with |-> Eval(with[i], n)[3][a[2]]]))
       [] OTHER -> EvalSetBuiltin(name, a, b, args, n)

-----------------------------------------------------------------------------
(* Application and expressions. *)

Pattern(e, env, a, n) ==           \* the scope of { a, b ? c, ... }@x: body
  LET v == Eval(a, n)
      names == {e.fs[i].n : i \in DOMAIN e.fs}
      given == names \cap DOMAIN v[3]
      default(k) == e.fs[CHOOSE i \in DOMAIN e.fs : e.fs[i].n = k].d
      scope == [k |-> "val",
                vals |-> [k \in given |-> v[3][k]] @@
                         (IF e.at = "" THEN NoAttrs ELSE (e.at :> Value(v))),
                defaults |-> [k \in names \ given |-> default(k)]]
  IN IF Bad(v) THEN v ELSE IF v[1] # "attrs" THEN Wrong
     ELSE IF \E k \in names \ given : default(k) = None THEN Wrong
     ELSE IF ~e.ell /\ DOMAIN v[3] # given THEN Wrong
     ELSE EvalIn(e.b, Append(env, scope), n)

EvalApply(f, a, n) ==
  CASE f[1] = "fun" ->
         IF f[2].t = "pat" THEN Pattern(f[2], f[3], a, n)
         ELSE EvalIn(f[2].b, Append(f[3], [k |-> "val", vals |-> (f[2].x :> a),
                                          defaults |-> NoAttrs]), n)
    [] f[1] = "builtin" ->
         LET args == Append(f[3], a)
         IN IF Len(args) = Arity(f[2]) THEN EvalBuiltin(f[2], args, n)
            ELSE <<"builtin", f[2], args>>
    [] f[1] = "attrs" -> IF "__functor" \in DOMAIN f[3]
                         THEN Eval(Ap(Ap(f[3]["__functor"], Value(f)), a), n) ELSE Wrong
    [] f[1] = "catch" -> f
    [] OTHER -> Wrong

(* The value at an attribute path: a failure, <<"missing">>, or the value. *)
RECURSIVE Walk(_, _, _, _)
Walk(v, path, env, n) ==
  IF path = <<>> \/ Bad(v) THEN v
  ELSE LET k == EvalIn(Head(path), env, n)
       IN IF Bad(k) THEN k ELSE IF k[1] # "str" THEN Wrong
          ELSE IF v[1] # "attrs" THEN <<"missing", "set">>
          ELSE IF k[2] \notin DOMAIN v[3] THEN <<"missing", "attribute">>
          ELSE IF Len(path) = 1 THEN <<"found", v[3][k[2]]>>
          ELSE Walk(Eval(v[3][k[2]], n), Tail(path), env, n)

Expression(e, env, n) ==
  LET in(x) == EvalIn(x, env, n)
      rec == Append(env, [k |-> "rec", bs |-> e.bs])
      at == Walk(in(e.e), e.path, env, n)
  IN CASE e.t = "int" -> IntV(e.v)
       [] e.t = "lit" -> StrV(e.v)
       [] e.t = "path" -> PathV(e.v)
       [] e.t = "search" -> IF e.v \in DOMAIN SearchPath THEN PathV(SearchPath[e.v])
                            ELSE CatchV("nix_path", e.v)
       [] e.t = "id" -> Lookup(e.n, env, n)
       [] e.t \in {"lam", "pat"} -> <<"fun", e, env>>
       [] e.t = "app" -> Eval(Ap(Delay(e.f, env), Delay(e.a, env)), n)
       [] e.t = "list" -> ListValue([i \in DOMAIN e.es |-> Delay(e.es[i], env)])
       [] e.t \in {"if", "assert"} ->
            LET p == in(e.p)
            IN IF Bad(p) THEN p ELSE IF p[1] # "bool" THEN Wrong
               ELSE IF p[2] THEN in(e.a)
               ELSE IF e.t = "if" THEN in(e.b) ELSE CatchV("assert", "")
       [] e.t = "bin" ->
            IF e.op \in {"And", "Or", "Implication"} THEN Logic(e, env, n)
            ELSE Compute(e.op, in(e.l), in(e.r), n)
       [] e.t = "un" ->
            LET v == in(e.e)
            IN IF Bad(v) THEN v
               ELSE IF e.op = "Invert" /\ v[1] = "bool" THEN BoolV(~v[2])
               ELSE IF e.op = "Negate" /\ v[1] = "int" THEN IntV(-v[2]) ELSE Wrong
       [] e.t = "str" ->
            LET s == [i \in DOMAIN e.parts |-> ToStr(Delay(e.parts[i], env), "import", n)]
                bad == {i \in DOMAIN s : Bad(s[i])}
            IN IF \E i \in bad : s[i] = Wrong THEN Wrong
               ELSE IF bad # {} THEN s[Min(bad)]
               ELSE FoldLeft(LAMBDA x, y : StrV(x[2] \o y[2]), StrV(""), s)
       [] e.t = "has" -> IF Bad(at) THEN at ELSE BoolV(at[1] = "found")
       [] e.t = "sel" -> IF Bad(at) THEN at
                         ELSE IF at[1] = "found" THEN Eval(at[2], n)
                         ELSE IF e.d = None THEN Wrong ELSE in(e.d)
       [] e.t = "with" -> EvalIn(e.b, Append(env, [k |-> "with", d |-> Delay(e.e, env)]), n)
       [] e.t = "let" -> EvalIn(e.b, rec, n)
       [] e.t = "set" -> EvalSet(e, env, e.kind, n)
       [] e.t = "legacylet" ->
            LET v == EvalSet(e, env, "rec", n)
            IN IF "body" \in DOMAIN v[3] THEN Eval(v[3]["body"], n) ELSE Wrong

(* The value in full, down to `depth': the first failure in it, if any. *)
Whole(d, depth, n) ==
  LET v == Eval(d, n)
      parts == IF v[1] = "list" THEN v[3]
               ELSE [i \in DOMAIN Keys(v[3]) |-> v[3][Keys(v[3])[i]]]
      deep == [i \in DOMAIN parts |-> Deep(parts[i], depth - 1, n)]
      bad == {i \in DOMAIN parts : Bad(deep[i])}
  IN CASE v[1] \in {"fun", "builtin"} -> <<"lambda">>
       [] v[1] \notin {"list", "attrs", "fun", "builtin"} -> v
       [] OTHER -> IF depth = 0 THEN <<v[1]>>
                   ELSE IF bad # {} THEN deep[Min(bad)]
                   ELSE IF v[1] = "list" THEN <<"list", deep>>
                   ELSE <<"attrs", Keys(v[3]), deep>>

Eval(d, n) ==
  IF n = 0 THEN Wrong
  ELSE CASE d.k = "v" -> d.v
         [] d.k = "e" -> Expression(d.e, d.env, n - 1)
         [] d.k = "ap" -> EvalApply(Eval(d.f, n - 1), d.a, n - 1)
         [] d.k = "builtin" -> Builtin(d.name, d.args, n - 1)
         [] d.k = "equal" -> Equality(d.x, d.y, d.nested, n - 1)
         [] d.k = "less" -> Order(d.a, d.b, n - 1)
         [] d.k = "str" -> Coercion(d.d, d.how, n - 1)
         [] d.k = "deep" -> Whole(d.d, d.depth, n - 1)

(* What a file evaluates to. *)
Meaning(f) ==
  Deep(Delay(Source[f].e,
             <<[k |-> "val", defaults |-> NoAttrs,
                vals |-> FoldLeft(LAMBDA acc, v : (v[1] :> Value(v[2])) @@ acc,
                                  NoAttrs, Source[f].env)]>>),
       Depth, Fuel)

=============================================================================
