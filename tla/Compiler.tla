------------------------------ MODULE Compiler ------------------------------
(***************************************************************************)
(* The bytecode compiler of tvix-eval (eval/src/compiler): expressions to  *)
(* chunks of instructions, with the bookkeeping of locals, upvalues, scope *)
(* depths, `with' stacks, thunks and finalisers that the virtual machine   *)
(* relies on.                                                              *)
(*                                                                         *)
(* Expressions are records with a tag t, built by the constructors at the  *)
(* head of the module.  Instructions are addressed by their position, not  *)
(* by byte; warnings, spans and observers are left out.  A compilation is  *)
(* a function from one compiler state `c' to the next:                     *)
(*   ctx    the stack of LambdaCtx (code, locals, upvalues, depth ...)     *)
(*   lams   the lambdas finished so far, thunk bodies included             *)
(*   consts the suspended thunks that sit in constant tables               *)
(*   dead   the nesting of dead code, errs the compile errors              *)
(*   panic  TRUE once an index into an empty chunk or a short locals table *)
(*          aborted the compiler                                           *)
(***************************************************************************)
EXTENDS Integers, Sequences, SequencesExt, FiniteSets, FiniteSetsExt

CONSTANTS
  Globals        \* the global scope: a function from names to values

-----------------------------------------------------------------------------
(* Values that the compiler places in constants. *)

IntV(n) == <<"int", n>>
BoolV(b) == <<"bool", b>>
NullV == <<"null">>
StrV(s) == <<"str", s>>
PathV(p) == <<"path", p>>
CatchV(kind, msg) == <<"catch", kind, msg>>
AttrsV(id, f) == <<"attrs", id, f>>
NoAttrs == [n \in {} |-> NullV]

(* Expressions. *)

Num(n) == [t |-> "int", v |-> n]
Lit(s) == [t |-> "lit", v |-> s]
Var(n) == [t |-> "id", n |-> n]
Apply(f, a) == [t |-> "app", f |-> f, a |-> a]
Fn(x, b) == [t |-> "lam", x |-> x, b |-> b]
FnPat(fs, ell, at, b) == [t |-> "pat", fs |-> fs, ell |-> ell, at |-> at, b |-> b]
IfElse(p, a, b) == [t |-> "if", p |-> p, a |-> a, b |-> b]
Bin(op, l, r) == [t |-> "bin", op |-> op, l |-> l, r |-> r]
None == [t |-> "none"]
Select(e, path, d) == [t |-> "sel", e |-> e, path |-> path, d |-> d]
SetOf(kind, bs) == [t |-> "set", kind |-> kind, bs |-> bs]

-----------------------------------------------------------------------------
(* Contexts, instructions and scopes (compiler/mod.rs, compiler/scope.rs). *)

Top(c) == c.ctx[Len(c.ctx)]
SetTop(c, x) == [c EXCEPT !.ctx[Len(c.ctx)] = x]
Err(c, e) == [c EXCEPT !.errs = @ \union {e}]

(* One thing after another, until a panic. *)
Then(c, next(_)) == IF c.panic THEN c ELSE next(c)
InOrder(step(_, _), c0, items) ==
  LET RECURSIVE Go(_, _)
      Go(c, i) == IF c.panic \/ i > Len(items) THEN c ELSE Go(step(c, items[i]), i + 1)
  IN Go(c0, 1)
InOrderWith(step(_, _), d0, items) ==       \* the same for <<c, ...>>
  LET RECURSIVE Go(_, _)
      Go(d, i) == IF d[1].panic \/ i > Len(items) THEN d ELSE Go(step(d, items[i]), i + 1)
  IN Go(d0, 1)

(* push_op and the index it returned; dead code emits nothing and index 0 *)
PushOp(c, op) ==
  IF c.dead > 0 THEN c ELSE [c EXCEPT !.ctx[Len(c.ctx)].code = Append(@, op)]
CodeIdx(c) == IF c.dead > 0 THEN 0 ELSE Len(Top(c).code)

EmitConstant(c, v) == PushOp(c, <<"Constant", v>>)
EmitForce(c) == PushOp(c, <<"Force">>)

(* patch_jump writes into the chunk whether or not the scope is dead *)
PatchJump(c, i) ==
  IF i = 0 THEN [c EXCEPT !.panic = TRUE]
  ELSE [c EXCEPT !.ctx[Len(c.ctx)].code[i] = <<@[1], Len(Top(c).code) + 1>>]

Local(name, depth, init) ==
  [name |-> name, depth |-> depth, init |-> init, fin |-> FALSE, must |-> FALSE]

DeclarePhantom(c, init) ==
  [c EXCEPT !.ctx[Len(c.ctx)].locals = Append(@, Local("", Top(c).depth, init))]
LastLocal(c) == Len(Top(c).locals)

(* resolve_local: the innermost local of that name in one context, 0 if none *)
ResolveLocal(x, name) ==
  Max({0} \union {i \in 1..Len(x.locals) : x.locals[i].name = name})

DeclareLocal(c, name) ==
  LET shadowed == ResolveLocal(Top(c), name)
      c1 == [c EXCEPT !.ctx[Len(c.ctx)].locals =
                        Append(@, Local(name, Top(c).depth, FALSE))]
  IN IF shadowed > 0 /\ Top(c).locals[shadowed].depth = Top(c).depth
     THEN Err(c1, "VariableAlreadyDefined") ELSE c1

MarkInitialised(c, i) == [c EXCEPT !.ctx[Len(c.ctx)].locals[i].init = TRUE]

(* Position of a local on the stack of its frame, counted from 0. *)
StackIndex(x, i) ==
  (i - 1) - Cardinality({j \in 1..(i - 1) :
              ~x.locals[j].init /\ x.locals[i].depth > x.locals[j].depth})

BeginScope(c) == [c EXCEPT !.ctx[Len(c.ctx)].depth = @ + 1]

(* end_scope drops the locals of the innermost depth *)
Kept(x) == Max({0} \union {i \in 1..Len(x.locals) : x.locals[i].depth # x.depth})
EndScope(c) ==
  LET x == Top(c)
  IN SetTop(c, [x EXCEPT !.locals = SubSeq(@, 1, Kept(x)), !.depth = @ - 1])
CleanupScope_Single(c) ==       \* one local is not worth a CloseScope
  LET x == Top(c)
      pops == Cardinality({i \in Kept(x) + 1 .. Len(x.locals) : x.locals[i].init})
  IN IF pops > 1 THEN PushOp(EndScope(c), <<"CloseScope", pops>>) ELSE EndScope(c)
CleanupScope(c) ==
  LET x == Top(c)
      pops == Cardinality({i \in Kept(x) + 1 .. Len(x.locals) : x.locals[i].init})
  IN IF pops > 0 THEN PushOp(EndScope(c), <<"CloseScope", pops>>) ELSE EndScope(c)

HasWith(x) == x.withs > 0

(* has_dynamic_ancestor: the contexts below the first one with a `with'
   capture the with-stack *)
FirstWith(c) == {k \in 1..Len(c.ctx) : HasWith(c.ctx[k])}
HasDynamicAncestor(c) == FirstWith(c) # {}
CaptureWiths(c) ==
  InOrder(LAMBDA d, k : [d EXCEPT !.ctx[k].capw = @ \/ \E j \in FirstWith(c) : j < k],
          c, [k \in DOMAIN c.ctx |-> k])

-----------------------------------------------------------------------------
(* Upvalues: add_upvalue and resolve_upvalue (compiler/bindings.rs). *)

AddUpvalue(c, k, kind) ==
  IF kind \in Range(c.ctx[k].upv) THEN c
  ELSE [c EXCEPT !.ctx[k].upv = Append(@, kind)]
UpvalueIdx(c, k, kind) == CHOOSE i \in DOMAIN c.ctx[k].upv : c.ctx[k].upv[i] = kind

RECURSIVE ResolveUpvalue(_, _, _)
ResolveUpvalue(c, k, name) ==       \* <<c', index or 0>>
  IF k = 1 THEN <<c, 0>>
  ELSE LET i == ResolveLocal(c.ctx[k - 1], name)
           up == ResolveUpvalue(c, k - 1, name)
           Add(d, kind) == LET d1 == AddUpvalue(d, k, kind)
                           IN <<d1, UpvalueIdx(d1, k, kind)>>
       IN IF i > 0 THEN Add(c, <<"local", i>>)
          ELSE IF up[2] > 0 THEN Add(up[1], <<"upvalue", up[2]>>)
          ELSE <<c, 0>>

-----------------------------------------------------------------------------
(* compile_lambda_or_thunk is split into what it does before and after its
   content: a fresh context with the phantom of its own result in slot 1, and
   the emission of the finished lambda into the surrounding context. *)

BeginLambda(c, outer) ==
  IF outer > LastLocal(c) THEN [c EXCEPT !.panic = TRUE]
  ELSE [c EXCEPT !.ctx = Append(@,
         [code |-> <<>>, locals |-> <<Local("", 0, FALSE)>>, upv |-> <<>>,
          depth |-> 1, withs |-> Top(c).withs, capw |-> FALSE])]

(* emit_upvalue_data: where the runtime finds each upvalue *)
UpvalueData(x, upv) ==
  [u \in DOMAIN upv |->
     IF upv[u][1] = "upvalue" THEN upv[u]
     ELSE <<IF x.locals[upv[u][2]].init THEN "stack" ELSE "deferred",
            StackIndex(x, upv[u][2])>>]
MarkCaptured_NotSelf(x, slot, upv) ==       \* a value that captures itself is not finalised
  [x EXCEPT !.locals[slot].fin = @ \/ \E u \in Range(upv) :
                u[1] = "local" /\ u[2] # slot /\ ~x.locals[u[2]].init]
MarkCaptured(x, slot, upv) ==
  [x EXCEPT !.locals[slot].fin = @ \/ \E u \in Range(upv) :
                u[1] = "local" /\ ~x.locals[u[2]].init,
            !.locals[slot].must = @ \/ \E u \in Range(upv) :
                u = <<"local", slot>> /\ x.locals[slot].init]

(* the context `done' is finished and `out' is the state around it, with slot x
   marked *)
EmitLambda(out, x, done, op, id) ==
  IF done.upv = <<>> /\ ~done.capw
  THEN IF op = "ThunkSuspended"
       THEN [EmitConstant(out, <<"thunk", Len(out.consts) + 1>>)
               EXCEPT !.consts = Append(@, id)]
       ELSE EmitConstant(out, <<"closure", 0, id, [vals |-> <<>>, with |-> <<>>]>>)
  ELSE [PushOp(SetTop(out, x), <<op, id, UpvalueData(Top(out), done.upv), done.capw>>)
          EXCEPT !.panic = @ \/ (op = "Closure" /\ out.dead > 0)]
PopLambda(c, formals) ==
  [c EXCEPT !.ctx = Front(@),
            !.lams = Append(@, [code |-> Append(Top(c).code, <<"Return">>), formals |-> formals])]
FinishLambda(c, suspended, outer, formals) ==
  LET out == PopLambda(c, formals)
      x == MarkCaptured(Top(out), outer, Top(c).upv)
      op == IF suspended THEN "ThunkSuspended"
            ELSE IF x.locals[outer].fin \/ x.locals[outer].must THEN "ThunkClosure"
            ELSE "Closure"
  IN IF outer > LastLocal(out) THEN [out EXCEPT !.panic = TRUE]
     ELSE EmitLambda(out, x, Top(c), op, Len(out.lams))
EndLambda(c, suspended, outer, throwIdx, formals) ==
  Then(c, LAMBDA d :
    Then(IF throwIdx >= 0 THEN PatchJump(CleanupScope(d), throwIdx) ELSE CleanupScope(d),
         LAMBDA f : FinishLambda(f, suspended, outer, formals)))

-----------------------------------------------------------------------------
(* Expressions (compiler/mod.rs).  Compile is `compile': literals, paths,
   plain strings and identifiers are emitted in place, everything else becomes
   a thunk whose content is Content.  `s' is the slot the value will occupy. *)

RECURSIVE Compile(_, _, _), Content(_, _, _), CompileBindings(_, _, _, _)

IsLitBool(e, name) == e.t = "id" /\ e.n = name
LitBool(e) == IsLitBool(e, "true") \/ IsLitBool(e, "false")
CompileDeadCode(c, s, e) ==
  [Compile([c EXCEPT !.dead = @ + 1], s, e) EXCEPT !.dead = @ - 1]

(* is_user_defined looks at the locals of the innermost context only *)
IsUserDefined(c, name) == ResolveLocal(Top(c), name) > 0

(* optimise_bin_op: <<c', expression to compile instead>> *)
OptimiseBinOp(c, s, e) ==
  LET unit == IF e.op = "Or" THEN "false" ELSE "true"       \* no effect
      zero == IF e.op = "Or" THEN "true" ELSE "false"       \* decides
  IN IF IsUserDefined(c, "true") \/ IsUserDefined(c, "false")
        \/ e.op \notin {"Or", "And"} THEN <<c, e>>
     ELSE IF IsLitBool(e.l, unit) /\ ~LitBool(e.r) THEN <<c, e.r>>
     ELSE IF IsLitBool(e.r, unit) /\ ~LitBool(e.l) THEN <<c, e.l>>
     ELSE IF IsLitBool(e.l, zero) /\ ~LitBool(e.r) THEN <<CompileDeadCode(c, s, e.r), e.l>>
     ELSE IF IsLitBool(e.r, zero) THEN <<c, e.r>>
     ELSE IF e.op = "Or" /\ LitBool(e.l) THEN <<c, e.l>>
     ELSE <<c, e>>

CompileIdent(c, s, name) ==         \* compile_identifier_access
  LET i == ResolveLocal(Top(c), name)
      up == ResolveUpvalue(c, Len(c.ctx), name)
      w == BeginLambda(CaptureWiths(c), s)
      r == AddUpvalue(BeginLambda(c, s), Len(c.ctx) + 1, <<"local", i>>)
  IN IF i > 0 /\ Top(c).locals[i].init THEN PushOp(c, <<"GetLocal", StackIndex(Top(c), i)>>)
     ELSE IF i > 0
     THEN EndLambda(PushOp(r, <<"GetUpvalue", 1>>), TRUE, s, -1, None)
     ELSE IF up[2] > 0 THEN PushOp(up[1], <<"GetUpvalue", up[2]>>)
     ELSE IF name \in DOMAIN Globals THEN EmitConstant(c, Globals[name])
     ELSE IF ~HasDynamicAncestor(c) THEN Err(c, "UnknownStaticVariable")
     ELSE EndLambda(PushOp(EmitConstant([w EXCEPT !.ctx[Len(w.ctx)].capw = TRUE],
                                        StrV(name)), <<"ResolveWith">>),
                    TRUE, s, -1, None)

Emitted == {"int", "lit", "path", "id"}
CompileEmitted(c, s, e) ==
  CASE e.t = "int" -> EmitConstant(c, IntV(e.v))
    [] e.t = "lit" -> EmitConstant(c, StrV(e.v))
    [] e.t = "path" -> EmitConstant(c, PathV(e.v))
    [] e.t = "id" -> CompileIdent(c, s, e.n)
CompileThunk(c, s, e) == EndLambda(Content(BeginLambda(c, s), 1, e), TRUE, s, -1, None)

Compile(c0, s, e0) ==
  LET o == IF e0.t = "bin" THEN OptimiseBinOp(c0, s, e0) ELSE <<c0, e0>>
      c == o[1]
      e == o[2]
  IN CASE c.panic -> c
       [] ~c.panic /\ e.t \in Emitted -> CompileEmitted(c, s, e)
       [] ~c.panic /\ e.t \notin Emitted ->
            IF s > LastLocal(c) THEN [c EXCEPT !.panic = TRUE] ELSE CompileThunk(c, s, e)

Forced(c, s, e) == Then(Compile(c, s, e), EmitForce)

(* A jump that is patched later: <<c', index>> *)
JumpOp(c, op) == LET c1 == PushOp(c, <<op, 0>>) IN <<c1, CodeIdx(c1)>>

LogicOps == {"And", "Or", "Implication"}
(* compile_and, compile_or, compile_implication *)
CompileLogic(c, s, e) ==
  Then(Forced(c, s, e.l), LAMBDA l :
    LET t == JumpOp(l, "JumpIfCatchable")
        inv == IF e.op = "Implication" THEN PushOp(t[1], <<"Invert">>) ELSE t[1]
        j == JumpOp(inv, IF e.op = "And" THEN "JumpIfFalse" ELSE "JumpIfTrue")
    IN Then(Forced(PushOp(j[1], <<"Pop">>), s, e.r), LAMBDA r :
         PatchJump(PushOp(PatchJump(r, j[2]), <<"AssertBool">>), t[2])))

CompileBinOp(c, s, e) ==
  Then(Forced(c, s, e.l), LAMBDA l :
    Then(Forced(l, s, e.r), LAMBDA r :
      IF e.op = "NotEqual" THEN PushOp(PushOp(r, <<"Equal">>), <<"Invert">>)
      ELSE PushOp(r, <<e.op>>)))

(* compile_str_parts: the parts go on the stack in reverse *)
CompileStrParts_InOrder(c, s, parts) ==     \* the parts are not reversed
  LET Part(d, p) == IF p.t = "lit" THEN EmitConstant(d, StrV(p.v))
                    ELSE PushOp(Compile(d, s, p), <<"CoerceToString", FALSE>>)
      all == InOrder(Part, c, parts)
  IN Then(all, LAMBDA d : IF Len(parts) = 1 THEN d ELSE PushOp(d, <<"Interpolate", Len(parts)>>))
CompileStrParts(c, s, parts) ==
  LET Part(d, p) == IF p.t = "lit" THEN EmitConstant(d, StrV(p.v))
                    ELSE PushOp(Compile(d, s, p), <<"CoerceToString", FALSE>>)
      all == InOrder(Part, c, Reverse(parts))
  IN Then(all, LAMBDA d : IF Len(parts) = 1 THEN d ELSE PushOp(d, <<"Interpolate", Len(parts)>>))

CompileList(c, s, es) ==
  LET Item(d, i) ==
        LET d1 == IF i = 1 THEN d ELSE DeclarePhantom(d, FALSE)
            slot == IF i = 1 THEN s ELSE LastLocal(d1)
        IN Then(Compile(d1, slot, es[i]), LAMBDA v : MarkInitialised(v, slot))
  IN Then(InOrder(Item, BeginScope(c), [i \in DOMAIN es |-> i]), LAMBDA all :
       EndScope(PushOp(all, <<"List", Len(es)>>)))

IsStatic(a) == a.t = "lit"
CompileAttr(c, s, a) == IF IsStatic(a) THEN EmitConstant(c, StrV(a.v)) ELSE Forced(c, s, a)

CompileHasAttr(c, s, e) ==
  LET Fragment(d, i) ==
        CompileAttr(IF i > 1 THEN EmitForce(PushOp(d, <<"AttrsTrySelect">>)) ELSE d,
                    s, e.path[i])
  IN Then(InOrder(Fragment, Forced(c, s, e.e), [i \in DOMAIN e.path |-> i]), LAMBDA all :
       PushOp(all, <<"HasAttr">>))

(* optimise_select: a constant set and one static key, resolved at once *)
SelectsConstant(c, path) ==
  LET code == Top(c).code
  IN /\ code # <<>> /\ Len(path) = 1 /\ IsStatic(path[1])
     /\ code[Len(code)][1] = "Constant"
     /\ code[Len(code)][2][1] = "attrs"
     /\ path[1].v \in DOMAIN code[Len(code)][2][3]
SelectConstant(c, path) ==
  [c EXCEPT !.ctx[Len(c.ctx)].code[Len(Top(c).code)] = <<"Constant", @[2][3][path[1].v]>>]

CompileSelect(c, s, e) ==
  LET Plain(d, a) == PushOp(CompileAttr(EmitForce(d), s, a), <<"AttrsSelect">>)
      (* the state and the jumps to the default *)
      Try(d, a) ==
        LET j == JumpOp(PushOp(CompileAttr(EmitForce(d[1]), s, a), <<"AttrsTrySelect">>),
                        "JumpIfNotFound")
        IN <<j[1], Append(d[2], j[2])>>
      Default(tried) ==
        LET over == JumpOp(tried[1], "Jump")
        IN Then(Compile(InOrder(PatchJump, over[1], tried[2]), s, e.d), LAMBDA d :
             PatchJump(d, over[2]))
  IN Then(Compile(c, s, e.e), LAMBDA set :
       CASE SelectsConstant(set, e.path) -> SelectConstant(set, e.path)
         [] ~SelectsConstant(set, e.path) /\ e.d = None -> InOrder(Plain, set, e.path)
         [] ~SelectsConstant(set, e.path) /\ e.d # None ->
              Default(InOrderWith(Try, <<set, <<>>>>, e.path)))

(* compile_if_else; compile_assert is the same with AssertFail for an else *)
CompileBranch(c, s, e) ==
  Then(Forced(c, s, e.p), LAMBDA p :
    LET t == JumpOp(p, "JumpIfCatchable")
        j == JumpOp(t[1], "JumpIfFalse")
    IN Then(Compile(PushOp(j[1], <<"Pop">>), s, e.a), LAMBDA a :
         LET over == JumpOp(a, "Jump")
             else == PushOp(PatchJump(over[1], j[2]), <<"Pop">>)
         IN Then(IF e.t = "if" THEN Compile(else, s, e.b) ELSE PushOp(else, <<"AssertFail">>),
                 LAMBDA b : PatchJump(PatchJump(b, over[2]), t[2]))))

CompileWith(c, s, e) ==
  Then(Compile(BeginScope(c), s, e.e), LAMBDA set :
    LET ns == DeclarePhantom(set, TRUE)
        in == PushOp([ns EXCEPT !.ctx[Len(ns.ctx)].withs = @ + 1],
                     <<"PushWith", StackIndex(Top(ns), LastLocal(ns))>>)
    IN Then(Compile(in, s, e.b), LAMBDA body :
         CleanupScope([PushOp(body, <<"PopWith">>) EXCEPT !.ctx[Len(body.ctx)].withs = @ - 1])))

-----------------------------------------------------------------------------
(* Lambdas.  compile_param_pattern declares every formal, selects each from the
   argument set (or compiles its default and asks for finalisation), and then
   finalises the defaults that captured later formals. *)

(* a formal whose default captured a later formal is finalised, if the default
   was taken *)
FinaliseFormal(c, f, slot) ==
  LET j == JumpOp(PushOp(c, <<"GetLocal", StackIndex(Top(c), slot + 1)>>),
                  "JumpIfNoFinaliseRequest")
      fin == PushOp(j[1], <<"Finalise", StackIndex(Top(c), slot)>>)
  IN IF ~Top(c).locals[slot].fin THEN c
     ELSE IF f.d = None THEN [c EXCEPT !.panic = TRUE]
     ELSE PushOp(PatchJump(fin, j[2]), <<"Pop">>)

CompileParamPattern(c, e) ==        \* <<c', index of the JumpIfCatchable>>
  LET set == MarkInitialised(IF e.at = "" THEN DeclarePhantom(c, TRUE)
                             ELSE DeclareLocal(c, e.at), LastLocal(c) + 1)
      t == JumpOp(EmitForce(set), "JumpIfCatchable")
      checked == PushOp(t[1], <<"AssertAttrs">>)
      closed == IF e.ell THEN checked ELSE PushOp(checked, <<"ValidateClosedFormals">>)
      Declare(d, f) ==              \* <<c', slot of each formal>>
        LET d1 == DeclareLocal(d[1], f.n)
        IN <<IF f.d = None THEN d1 ELSE DeclarePhantom(d1, FALSE),
             Append(d[2], LastLocal(d1))>>
      declared == InOrderWith(Declare, <<closed, <<>>>>, e.fs)
      slot == declared[2]
      Bind(d, i) ==
        LET f == e.fs[i]
            key == EmitConstant(PushOp(d, <<"GetLocal", StackIndex(Top(d), LastLocal(set))>>),
                                StrV(f.n))
            j == JumpOp(PushOp(key, <<"AttrsTrySelect">>), "JumpIfNotFound")
            over == JumpOp(EmitConstant(j[1], <<"request", FALSE>>), "Jump")
            default == EmitConstant(Compile(PatchJump(over[1], j[2]), slot[i], f.d),
                                    <<"request", TRUE>>)
        IN IF f.d = None
           THEN MarkInitialised(PushOp(key, <<"AttrsSelect">>), slot[i])
           ELSE MarkInitialised(MarkInitialised(PatchJump(default, over[2]), slot[i]),
                                slot[i] + 1)
      bound == InOrder(Bind, declared[1], [i \in DOMAIN e.fs |-> i])
  IN <<InOrder(LAMBDA d, i : FinaliseFormal(d, e.fs[i], slot[i]), bound, [i \in DOMAIN e.fs |-> i]),
       t[2]>>

CompileLambda(c, s, e) ==
  LET b == BeginLambda(c, s)
      arg == MarkInitialised(DeclareLocal(b, e.x), LastLocal(b) + 1)
      pat == CompileParamPattern(b, e)
  IN IF b.panic THEN b
     ELSE IF e.t = "lam" THEN EndLambda(Compile(arg, 1, e.b), FALSE, s, -1, None)
     ELSE EndLambda(Then(pat[1], LAMBDA d : Compile(d, 1, e.b)), FALSE, s, pat[2],
                    [args |-> {e.fs[i].n : i \in DOMAIN e.fs},
                     defaults |-> {e.fs[i].n : i \in {j \in DOMAIN e.fs : e.fs[j].d # None}},
                     ell |-> e.ell])

-----------------------------------------------------------------------------
(* Bindings (compiler/bindings.rs).  A set of bindings is
     [inh |-> <<[from |-> expression or None, names |-> <<name, ...>>], ...>>,
      ents |-> <<[path |-> <<attr, ...>>, v |-> expression], ...>>]
   and its kind "let", "rec" or "attrs".  A tracked binding is
     [key |-> "none" | "static" | "dynamic", name, attr, kslot, vslot, b]. *)

IsAttrs(kind) == kind # "let"

(* Binding::merge: the binding that path = value is merged into *)
Merge(b, path, v) ==
  LET set == IF b.t = "nested" THEN b
             ELSE [t |-> "nested", kind |-> b.e.kind, bs |-> b.e.bs]
  IN IF path # <<>>
     THEN [set EXCEPT !.bs.ents = Append(@, [path |-> path, v |-> v])]
     ELSE [set EXCEPT !.bs.inh = @ \o v.bs.inh, !.bs.ents = @ \o v.bs.ents]
MergeError(b) ==
  IF b.t = "from" THEN {"UnmergeableInherit"}
  ELSE IF b.t = "plain" /\ b.e.t # "set" THEN {"UnmergeableValue"} ELSE {}

(* try_merge: the tracked binding an entry belongs to, 0 if it is a new one *)
MergeTarget(tracked, ent) ==
  IF ~IsStatic(ent.path[1]) \/ (Len(ent.path) = 1 /\ ent.v.t # "set") THEN 0
  ELSE LET same == {i \in DOMAIN tracked : tracked[i].key # "dynamic"
                                          /\ tracked[i].name = ent.path[1].v}
       IN IF same = {} THEN 0 ELSE Min(same)

(* compile_plain_inherits: <<c', count, namespaced inherits>> *)
PlainInherit(d, kind, s, name) ==
  LET c == d[1]
      i == ResolveLocal(Top(c), name)
      keyed == IF IsAttrs(kind) THEN DeclarePhantom(EmitConstant(c, StrV(name)), TRUE) ELSE c
      slot(v) == IF kind = "attrs" THEN DeclarePhantom(v, FALSE) ELSE DeclareLocal(v, name)
  IN IF kind = "let" /\ i > 0 /\ Top(c).locals[i].init THEN d
     ELSE <<Then(CompileIdent(keyed, s, name), LAMBDA v :
              MarkInitialised(slot(v), LastLocal(v) + 1)), d[2] + 1, d[3]>>

CompileInherits(c0, kind, s, inhs) ==
  LET One(d, inh) ==
        IF inh.names = <<>> THEN d
        ELSE IF inh.from # None
        THEN <<d[1], d[2] + Len(inh.names),
               d[3] \o [i \in DOMAIN inh.names |->
                          [t |-> "from", ns |-> inh.from, name |-> inh.names[i]]]>>
        ELSE IF ~IsAttrs(kind) /\ ~HasDynamicAncestor(d[1]) THEN d
        ELSE InOrderWith(LAMBDA g, n : PlainInherit(g, kind, s, n),
                         IF IsAttrs(kind) THEN d ELSE <<CaptureWiths(d[1]), d[2], d[3]>>,
                         inh.names)
  IN InOrderWith(One, <<c0, 0, <<>>>>, inhs)

(* declare_namespaced_inherits and declare_bindings: slots for key and value.
   d = <<c', tracked bindings, count>> *)
Track(d, kind, attr, b) ==
  LET key == IF ~IsAttrs(kind) THEN "none" ELSE IF IsStatic(attr) THEN "static" ELSE "dynamic"
      keyed == IF IsAttrs(kind) THEN DeclarePhantom(d[1], FALSE) ELSE d[1]
      slot == IF kind # "attrs" /\ IsStatic(attr) THEN DeclareLocal(keyed, attr.v)
              ELSE DeclarePhantom(keyed, FALSE)
  IN <<slot, Append(d[2], [key |-> key, name |-> IF IsStatic(attr) THEN attr.v ELSE "",
                           attr |-> attr, kslot |-> LastLocal(keyed),
                           vslot |-> LastLocal(slot), b |-> b]), d[3]>>

DeclareBinding(d, kind, ent) ==
  LET m == MergeTarget(d[2], ent)
      rest == Tail(ent.path)
      b == IF rest = <<>> THEN [t |-> "plain", e |-> ent.v]
           ELSE [t |-> "nested", kind |-> "attrs",
                 bs |-> [inh |-> <<>>, ents |-> <<[path |-> rest, v |-> ent.v]>>]]
      counted == <<d[1], d[2], d[3] + 1>>
  IN IF m > 0 /\ MergeError(d[2][m].b) # {}
     THEN <<[d[1] EXCEPT !.errs = @ \union MergeError(d[2][m].b)], d[2], d[3]>>
     ELSE IF m > 0 THEN <<d[1], [d[2] EXCEPT ![m].b = Merge(@, rest, ent.v)], d[3]>>
     ELSE IF kind = "let" /\ ~IsStatic(ent.path[1])
     THEN <<Err(d[1], "DynamicKeyInScope"), d[2], d[3] + 1>>
     ELSE Track(counted, kind, ent.path[1], b)

(* bind_values: key, value and, at the end, the finalisers *)
BoundValue(c, tb) ==
  LET b == tb.b
      in == BeginLambda(c, tb.vslot)
      from == PushOp(EmitConstant(Forced(in, 1, b.ns), StrV(b.name)), <<"AttrsSelect">>)
      (* the slot passed on is the outer one *)
      nested == EndScope(CompileBindings(BeginScope(in), tb.vslot, b.kind, b.bs))
  IN IF b.t = "plain" THEN Compile(c, tb.vslot, b.e)
     ELSE EndLambda(IF b.t = "from" THEN from ELSE nested, TRUE, tb.vslot, -1, None)
BindValue(c, tb) ==
  LET keyed == IF tb.key = "none" THEN c
               ELSE MarkInitialised(CompileAttr(c, tb.kslot, tb.attr), tb.kslot)
      value == Then(keyed, LAMBDA d : BoundValue(d, tb))
  IN Then(value, LAMBDA d : MarkInitialised(d, tb.vslot))

Finaliser(c, tb) ==
  IF Top(c).locals[tb.vslot].fin
  THEN PushOp(c, <<"Finalise", StackIndex(Top(c), tb.vslot)>>) ELSE c

DeclareAll(inh, kind, ents) ==
  InOrderWith(LAMBDA d, ent : DeclareBinding(d, kind, ent),
              InOrderWith(LAMBDA d, b : Track(d, kind, Lit(b.name), b),
                          <<inh[1], <<>>, inh[2]>>, inh[3]),
              ents)
BindAll(d, kind) ==
  IF d[3] = 0 THEN IF IsAttrs(kind) THEN EmitConstant(d[1], AttrsV(0, NoAttrs)) ELSE d[1]
  ELSE Then(InOrder(BindValue, d[1], d[2]), LAMBDA c :
         Then(InOrder(Finaliser, c, d[2]), LAMBDA f :
           IF IsAttrs(kind) THEN PushOp(f, <<"Attrs", d[3]>>) ELSE f))
CompileBindings(c, s, kind, bs) ==
  BindAll(DeclareAll(CompileInherits(BeginScope(c), kind, s, bs.inh), kind, bs.ents), kind)

CompileLetIn(c, s, e) ==
  Then(CompileBindings(c, s, "let", e.bs), LAMBDA in :
    Then(Compile(in, s, e.b), LAMBDA d : CleanupScope(d)))
CompileApply(c, s, e) ==
  Then(Compile(c, s, e.a), LAMBDA a :
    Then(Forced(a, s, e.f), LAMBDA f : PushOp(f, <<"Call">>)))

Content(c, s, e) ==
  CASE e.t = "bin" -> IF e.op \in LogicOps THEN CompileLogic(c, s, e) ELSE CompileBinOp(c, s, e)
    [] e.t = "un" -> Then(Forced(c, s, e.e), LAMBDA d : PushOp(d, <<e.op>>))
    [] e.t = "str" -> CompileStrParts(c, s, e.parts)
    [] e.t = "list" -> CompileList(c, s, e.es)
    [] e.t = "has" -> CompileHasAttr(c, s, e)
    [] e.t = "sel" -> CompileSelect(c, s, e)
    [] e.t \in {"if", "assert"} -> CompileBranch(c, s, e)
    [] e.t = "with" -> CompileWith(c, s, e)
    [] e.t = "app" -> CompileApply(c, s, e)
    [] e.t \in {"lam", "pat"} -> CompileLambda(c, s, e)
    [] e.t = "let" -> CompileLetIn(c, s, e)
    [] e.t = "set" -> EndScope(CompileBindings(BeginScope(c), s, e.kind, e.bs))
    [] e.t = "legacylet" ->
         PushOp(EmitConstant(EndScope(CompileBindings(BeginScope(c), s, "rec", e.bs)),
                             StrV("body")), <<"AttrsSelect">>)
    [] e.t = "search" -> PushOp(EmitConstant(c, StrV(e.v)), <<"FindFile">>)

(* compile: the top level of a file, with the variables of a REPL in its first
   slots; the last lambda is the root *)
CompileProgram(e, env) ==
  LET declare(c, v) == EmitConstant([c EXCEPT !.ctx[1].locals =
                                       Append(@, Local(v[1], 0, TRUE))], v[2])
      start == [ctx |-> <<[code |-> <<>>, locals |-> <<>>, upv |-> <<>>, depth |-> 0,
                           withs |-> 0, capw |-> FALSE]>>,
                lams |-> <<>>, consts |-> <<>>, dead |-> 0, errs |-> {}, panic |-> FALSE]
      root == DeclarePhantom(InOrder(declare, start, env), FALSE)
      closed(c) == IF env = <<>> THEN c ELSE PushOp(c, <<"CloseScope", Len(env)>>)
      finish(c) == [c EXCEPT !.ctx = <<>>,
                             !.lams = Append(@, [code |-> c.ctx[1].code, formals |-> None])]
  IN Then(Forced(root, Len(env) + 1, e), LAMBDA c : finish(PushOp(closed(c), <<"Return">>)))

=============================================================================
