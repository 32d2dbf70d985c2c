------------------------------- MODULE MCEval -------------------------------
(***************************************************************************)
(* The evaluator on a set of programs: each is compiled, run by the        *)
(* machine and compared with what the expression means.                    *)
(***************************************************************************)
EXTENDS VM

CONSTANTS Fuel, Depth       \* the bounds of NixSemantics

-----------------------------------------------------------------------------
(* Programs, as the parser hands them to the compiler. *)

List(es) == [t |-> "list", es |-> es]
Str(parts) == [t |-> "str", parts |-> parts]
Un(op, e) == [t |-> "un", op |-> op, e |-> e]
Get(e, k) == Select(e, <<Lit(k)>>, None)
Has(e, path) == [t |-> "has", e |-> e, path |-> path]
AssertE(p, a) == [t |-> "assert", p |-> p, a |-> a]
With(e, b) == [t |-> "with", e |-> e, b |-> b]
Def(k, v) == [path |-> <<Lit(k)>>, v |-> v]
Deep2(k, l, v) == [path |-> <<Lit(k), Lit(l)>>, v |-> v]
Dyn(e, v) == [path |-> <<e>>, v |-> v]
Inh(from, names) == [from |-> from, names |-> names]
Let(ents, b) == [t |-> "let", bs |-> [inh |-> <<>>, ents |-> ents], b |-> b]
LetInh(inh, ents, b) == [t |-> "let", bs |-> [inh |-> inh, ents |-> ents], b |-> b]
AttrSet(ents) == SetOf("attrs", [inh |-> <<>>, ents |-> ents])
RecSet(ents) == SetOf("rec", [inh |-> <<>>, ents |-> ents])
SetInh(kind, inh, ents) == SetOf(kind, [inh |-> inh, ents |-> ents])
PathE(p) == [t |-> "path", v |-> p]
Call1(f, a) == Apply(Var(f), a)
Call2(f, a, b) == Apply(Apply(Var(f), a), b)
Call3(f, a, b, c) == Apply(Call2(f, a, b), c)
Throw(s) == Call1("throw", Lit(s))
F(n, d) == [n |-> n, d |-> d]
One == Num(1)
Two == Num(2)

Programs == <<
  (* let f = n: if n < 2 then 1 else n * f (n - 1); in f 3 *)
  Let(<<Def("f", Fn("n", IfElse(Bin("Less", Var("n"), Two), One,
        Bin("Mul", Var("n"), Apply(Var("f"), Bin("Sub", Var("n"), One))))))>>,
      Apply(Var("f"), Num(3))),
  (* rec { a = b; b = [ (c + 1) ]; c = 2; f = x: a; d = f 1; } *)
  RecSet(<<Def("a", Var("b")), Def("b", List(<<Bin("Add", Var("c"), One)>>)), Def("c", Two),
           Def("f", Fn("x", Var("a"))), Def("d", Apply(Var("f"), One))>>),
  (* let x = x; in x *)
  Let(<<Def("x", Var("x"))>>, Var("x")),
  (* { a, b ? a + c, c ? 3, ... }@s: [ a b c s.d or 9 ] applied to { a = 1; z = throw "z"; } *)
  Apply(FnPat(<<F("a", None), F("b", Bin("Add", Var("a"), Var("c"))), F("c", Num(3))>>, TRUE, "s",
              List(<<Var("a"), Var("b"), Var("c"), Select(Var("s"), <<Lit("d")>>, Num(9))>>)),
        AttrSet(<<Def("a", One), Def("z", Throw("z"))>>)),
  (* ({ a }: a) { a = 1; b = 2; } *)
  Apply(FnPat(<<F("a", None)>>, FALSE, "", Var("a")), AttrSet(<<Def("a", One), Def("b", Two)>>)),
  (* let x = 5; in with { x = 1; y = 2; z = 3; }; with { y = 7; }; map (a: x + y + z) [ 1 ] *)
  Let(<<Def("x", Num(5))>>,
    With(AttrSet(<<Def("x", One), Def("y", Two), Def("z", Num(3))>>),
      With(AttrSet(<<Def("y", Num(7))>>),
        Call2("map", Fn("a", List(<<Var("x"), Var("y"), Var("z"), Var("a")>>)), List(<<One>>))))),
  (* tryEval of a throw, an assertion and a value *)
  List(<<Call1("tryEval", Throw("a")), Call1("tryEval", AssertE(Bin("Equal", One, Two), One)),
         Get(Call1("tryEval", One), "value"),
         Call1("tryEval", Bin("Add", Throw("l"), Throw("r")))>>),
  (* { a.b = 1; a.c = rec { d = e; e = 4; }; } // { a = 2; z = 3; } with inherits *)
  Let(<<Def("x", One), Def("s", AttrSet(<<Def("y", Two)>>))>>,
    Bin("AttrsUpdate",
      SetInh("rec", <<Inh(None, <<"x">>), Inh(Var("s"), <<"y">>)>>,
        <<Deep2("a", "b", Var("y")), Deep2("a", "c", RecSet(<<Def("d", Var("e")), Def("e", Var("x"))>>))>>),
      AttrSet(<<Dyn(Str(<<Lit("z")>>), Num(3)), Dyn(Var("null"), Throw("never"))>>))),
  (* sort, filter, foldl', any, all, concatMap, elem *)
  List(<<Call2("sort", Fn("a", Fn("b", Bin("Less", Get(Var("a"), "k"), Get(Var("b"), "k")))),
              List(<<AttrSet(<<Def("k", Two), Def("v", One)>>), AttrSet(<<Def("k", One), Def("v", One)>>),
                     AttrSet(<<Def("k", Two), Def("v", Two)>>)>>)),
         Call2("filter", Fn("x", Bin("More", Var("x"), One)), List(<<One, Two, Num(3)>>)),
         Call3("foldl", Fn("a", Fn("b", Bin("Sub", Var("b"), Var("a")))), Num(0), List(<<One, Two>>)),
         Call2("any", Fn("x", Var("x")), List(<<Var("false"), Var("true"), Throw("any")>>)),
         Call2("all", Fn("x", Var("x")), List(<<Var("false"), Throw("all")>>)),
         Call2("concatMap", Fn("x", List(<<Var("x"), One>>)), List(<<Two>>)),
         Call2("elem", Two, List(<<One, Bin("Add", One, One)>>))>>)
>>

Programs2 == <<
  (* genericClosure over a cyclic graph *)
  Call1("genericClosure",
    AttrSet(<<Def("startSet", List(<<AttrSet(<<Def("key", One)>>)>>)),
              Def("operator", Fn("x", IfElse(Bin("Less", Get(Var("x"), "key"), Num(3)),
                 List(<<AttrSet(<<Def("key", Bin("Add", Get(Var("x"), "key"), One))>>),
                        AttrSet(<<Def("key", One)>>)>>), List(<<>>))))>>)),
  (* import of a file twice, and of a cycle *)
  Let(<<Def("a", Call1("import", PathE("/lib"))), Def("b", Call1("import", PathE("/lib")))>>,
      List(<<Apply(Get(Var("a"), "f"), One), Bin("Equal", Get(Var("b"), "g"), Get(Var("a"), "g"))>>)),
  Call1("import", PathE("/cycle")),
  (* import of a file that does not compile *)
  Call1("import", PathE("/bad")),
  (* functors and __toString *)
  Let(<<Def("s", AttrSet(<<Def("__functor", Fn("self", Fn("x", Bin("Add", Get(Var("self"), "n"), Var("x"))))),
                           Def("n", One),
                           Def("__toString", Fn("self", Str(<<Lit("n="), Call1("toString", Get(Var("self"), "n"))>>)))>>))>>,
      List(<<Apply(Var("s"), Two), Str(<<Lit("<"), Var("s"), Lit(">")>>),
             Call1("toString", List(<<One, List(<<Var("true"), Lit("x")>>), Var("null")>>)),
             Bin("Add", Lit("a"), PathE("/p")), Bin("Add", PathE("/p"), Lit("q")),
             Bin("Add", AttrSet(<<Def("outPath", Lit("o"))>>), Lit("b"))>>)),
  (* equality: functions, derivations, order of failures *)
  Let(<<Def("f", Fn("x", Var("x"))),
        Def("d", AttrSet(<<Def("type", Lit("derivation")), Def("outPath", Lit("o")), Def("a", One)>>)),
        Def("e", AttrSet(<<Def("type", Lit("derivation")), Def("outPath", Lit("o")), Def("a", Throw("e"))>>))>>,
      List(<<Bin("Equal", Var("f"), Var("f")), Bin("Equal", List(<<Var("f")>>), List(<<Var("f")>>)),
             Bin("NotEqual", Var("d"), Var("e")),
             Bin("Equal", AttrSet(<<Def("a", One), Def("b", Throw("b"))>>),
                          AttrSet(<<Def("a", Two), Def("b", One)>>)),
             Bin("Less", List(<<One, Two>>), List(<<One, Num(3)>>)),
             Bin("MoreOrEq", List(<<One>>), List(<<One, One>>)),
             Bin("LessOrEq", Lit("a"), Lit("b")), Call2("lessThan", Two, One)>>)),
  (* logic: what decides, decides *)
  List(<<Bin("And", Bin("Less", Two, One), Throw("r")), Bin("Or", Bin("Less", One, Two), Throw("r")),
         Bin("Implication", Bin("Less", Two, One), Throw("r")), Un("Invert", Bin("Less", Two, One)),
         Un("Negate", One), Bin("Div", Num(7), Un("Negate", Two)),
         Bin("Or", Var("false"), Bin("Equal", One, One)), Bin("And", Bin("Equal", One, One), Var("true"))>>),
  (* [ 1 ] ++ 2 *)
  Bin("Concat", List(<<One>>), Two),
  (* { a = 1; } ? a.b, nested select, select with a default, dynamic key, search path *)
  Let(<<Def("s", AttrSet(<<Deep2("a", "b", One)>>)), Def("k", Lit("a"))>>,
      List(<<Has(Var("s"), <<Lit("a"), Lit("b")>>), Has(Var("s"), <<Lit("c"), Lit("b")>>), Has(One, <<Lit("a")>>),
             Select(Var("s"), <<Var("k"), Lit("b")>>, None), Select(Var("s"), <<Lit("b"), Lit("a")>>, Two),
             [t |-> "search", v |-> "nixpkgs"], Bin("Concat", List(<<>>), List(<<Num(4)>>)),
             [t |-> "legacylet", bs |-> [inh |-> <<>>, ents |-> <<Def("body", Var("y")), Def("y", Two)>>]]>>)),
  (* closures and partial application: let add = a: b: a + b; inc = add 1; in map inc [ 1 ] ++ genList inc 2 *)
  Let(<<Def("add", Fn("a", Fn("b", Bin("Add", Var("a"), Var("b"))))), Def("inc", Apply(Var("add"), One))>>,
      Bin("Concat", Call2("map", Var("inc"), List(<<One>>)), Call2("genList", Var("inc"), Two))),
  (* throw as an argument set, as a function, in a with *)
  List(<<Call1("tryEval", Apply(FnPat(<<F("a", None)>>, FALSE, "", Var("a")), Throw("args"))),
         Call1("tryEval", Apply(Throw("fn"), One)), Call1("tryEval", With(Throw("with"), Var("q"))),
         Call1("tryEval", [t |-> "search", v |-> "none"])>>),
  (* with { x = 1; }; y *)
  With(AttrSet(<<Def("x", One)>>), Var("y")),
  (* a throw inside the result *)
  AttrSet(<<Def("a", One), Def("b", List(<<Throw("in")>>))>>),
  (* attribute set builtins *)
  Let(<<Def("s", AttrSet(<<Def("a", One), Def("b", Two)>>))>>,
      List(<<Call1("attrNames", Var("s")), Call1("attrValues", Var("s")),
             Call2("intersectAttrs", AttrSet(<<Def("b", One), Def("c", One)>>), Var("s")),
             Call2("removeAttrs", Var("s"), List(<<Lit("a")>>)),
             Call2("mapAttrs", Fn("k", Fn("v", Str(<<Var("k"), Call1("toString", Var("v"))>>))), Var("s")),
             Call1("listToAttrs", List(<<AttrSet(<<Def("name", Lit("a")), Def("value", One)>>),
                                         AttrSet(<<Def("name", Lit("a")), Def("value", Two)>>)>>)),
             Call2("catAttrs", Lit("a"), List(<<Var("s"), AttrSet(<<>>)>>)),
             Call2("groupBy", Fn("x", IfElse(Bin("Less", Var("x"), Two), Lit("a"), Lit("b"))), List(<<One, Two, Num(3)>>)),
             Call2("partition", Fn("x", Bin("Less", Var("x"), Two)), List(<<One, Two>>)),
             Call1("functionArgs", FnPat(<<F("a", None), F("b", One)>>, FALSE, "", One))>>)),
  (* list builtins *)
  Let(<<Def("l", List(<<One, Lit("a")>>))>>,
      List(<<Call1("length", Var("l")), Call1("head", Var("l")), Call1("tail", Var("l")),
             Call2("elemAt", Var("l"), One), Call1("concatLists", List(<<Var("l"), Var("l")>>)),
             Call1("typeOf", Var("l")), Call2("seq", One, Two), Call2("deepSeq", Var("l"), Two),
             Call2("hasAttr", Lit("a"), AttrSet(<<>>)), Call2("getAttr", Lit("a"), AttrSet(<<Def("a", One)>>)),
             Call2("sub", Two, One), Call1("isFunction", Var("map")), Call1("isNull", One),
             Call1("isList", Var("l")), Call1("tryEval", Call2("elemAt", List(<<Throw("0")>>), Num(0)))>>)),
  Call1("abort", Lit("stop")),
  Call2("elemAt", List(<<One>>), One)
>>

(* let true = false; in [ (true || (1 == 1)) ]: the name is bound in the scope
   around the list, not in that of its element *)
Shadowed == Let(<<Def("true", Var("false"))>>,
                List(<<Bin("Or", Var("true"), Bin("Equal", One, One))>>))
(* rec { f = x: g; ${f 1} = 1; g = "k"; } *)
EarlyKey == RecSet(<<Def("f", Fn("x", Var("g"))), Dyn(Apply(Var("f"), One), One),
                     Def("g", Lit("k"))>>)

All == (Programs \o Programs2) \o <<Shadowed, EarlyKey>>
FileName(i) == "main" \o ToString(i)
MCFiles == {FileName(i) : i \in DOMAIN All} \cup {"/lib", "/cycle", "/bad"}
MCSource ==
  [f \in {FileName(i) : i \in DOMAIN All} |->
     [e |-> All[CHOOSE i \in DOMAIN All : FileName(i) = f], env |-> <<>>]] @@
  ("/lib" :> [e |-> RecSet(<<Def("f", Fn("x", Bin("Add", Var("x"), Var("g")))), Def("g", Two)>>),
              env |-> <<>>]) @@
  ("/bad" :> [e |-> Var("nowhere"), env |-> <<>>]) @@
  ("/cycle" :> [e |-> Call1("import", PathE("/cycle")), env |-> <<>>])
MCMains == {FileName(i) : i \in 1 .. Len(All) - 2}
MCShadowed == {FileName(Len(All) - 1)}
MCEarlyKey == {FileName(Len(All))}
MCKeyOrder == <<"__functor", "__toString", "a", "add", "b", "body", "c", "d", "e", "f", "g", "k", "key",
                "n", "name", "operator", "outPath", "right", "s", "startSet", "success", "type", "v",
                "value", "wrong", "x", "y", "z">>
MCSearchPath == [nixpkgs |-> "/nixpkgs"]
MCGlobals ==
  [b \in {"throw", "abort", "map", "toString", "removeAttrs", "import", "tryEval", "sort", "filter",
          "foldl", "any", "all", "concatMap", "elem", "genericClosure", "lessThan", "genList",
          "attrNames", "attrValues", "intersectAttrs", "mapAttrs", "listToAttrs", "catAttrs",
          "groupBy", "partition", "functionArgs", "length", "head", "tail", "elemAt",
          "concatLists", "typeOf", "seq", "deepSeq", "hasAttr", "getAttr", "sub",
          "isFunction", "isNull", "isList"} |->
     <<"builtin", b, <<>>>>] @@
  [true |-> BoolV(TRUE), false |-> BoolV(FALSE), null |-> NullV]

-----------------------------------------------------------------------------
(* The result of the machine in full. *)
RECURSIVE Canon(_, _)
Canon(v0, depth) ==
  LET v == Whnf(v0)
      parts == IF v[1] = "list" THEN v[3] ELSE SortedVals(v[3])
      deep == [i \in DOMAIN parts |-> Canon(parts[i], depth - 1)]
  IN CASE v[1] \in {"closure", "builtin"} -> <<"lambda">>
       [] v[1] \in {"list", "attrs"} ->
            IF depth = 0 THEN <<v[1]>>
            ELSE IF v[1] = "list" THEN <<"list", deep>> ELSE <<"attrs", SortedKeys(v[3]), deep>>
       [] OTHER -> v

Result == IF out = <<>> THEN <<>>
          ELSE IF out[1] = "value" THEN Canon(out[2], Depth)
          ELSE IF out[1] = "error" THEN <<"err">> ELSE out

Promise == INSTANCE Evaluation WITH answer <- Result

(* Compiling an expression and running its bytecode gives, once and for all,
   the value the expression means (Compiler and VM against NixSemantics). *)
Agrees == Promise!Spec

=============================================================================
