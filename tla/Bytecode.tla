------------------------------ MODULE Bytecode ------------------------------
(***************************************************************************)
(* The instructions of tvix-eval's machine (execute_bytecode), one action  *)
(* for each or for a family that differs in the value it computes.         *)
(***************************************************************************)
EXTENDS VMState

-----------------------------------------------------------------------------
(* Stack, scope and jumps. *)

OpConstant == InCall({"Constant"}) /\ Push(stack, Relocate(Arg(2), Frm.ref))
OpGetLocal == InCall({"GetLocal"}) /\ Push(stack, At(Arg(2)))
OpGetUpvalue == InCall({"GetUpvalue"}) /\ Push(stack, Frm.upv.vals[Arg(2)])
OpPop == InCall({"Pop"}) /\ stack' = Drop(1) /\ Continue /\ UNCHANGED <<out, heap, nextId>>
OpAssertFail == InCall({"AssertFail"}) /\ Push(stack, CatchV("assert", ""))
OpCloseScope == InCall({"CloseScope"}) /\ Push(Drop(Arg(2) + 1), Peek(0))

(* A branch keeps the value it looked at; only JumpIfNotFound drops it. *)
Branches == {"Jump", "JumpIfFalse", "JumpIfTrue", "JumpIfCatchable", "JumpIfNotFound",
             "JumpIfNoFinaliseRequest"}
OpJump ==
  /\ InCall(Branches)
  /\ LET op == Arg(1)
         taken == CASE op = "Jump" -> TRUE
                    [] op = "JumpIfFalse" -> Peek(0) = BoolV(FALSE)
                    [] op = "JumpIfTrue" -> Peek(0) = BoolV(TRUE)
                    [] op = "JumpIfCatchable" -> IsCatchable(Peek(0))
                    [] op = "JumpIfNotFound" -> Peek(0)[1] = "notfound"
                    [] op = "JumpIfNoFinaliseRequest" -> Peek(0) = <<"request", FALSE>>
     IN IF op \in {"JumpIfFalse", "JumpIfTrue"} /\ Peek(0)[1] # "bool"
        THEN Fail(TypeError("bool", Peek(0)))
        ELSE IF op = "JumpIfNoFinaliseRequest" /\ Peek(0)[1] # "request"
        THEN Panic("no finalise request")
        ELSE /\ Goto(IF taken THEN Arg(2) ELSE Frm.ip + 1)
             /\ stack' = IF taken /\ op = "JumpIfNotFound" THEN Drop(1) ELSE stack
             /\ UNCHANGED <<out, heap, nextId>>

OpAssert ==
  /\ InCall({"AssertBool", "AssertAttrs"})
  /\ LET want == IF Arg(1) = "AssertBool" THEN "bool" ELSE "attrs"
     IN IF Peek(0)[1] \in {want, "catch"}
        THEN Continue /\ UNCHANGED <<stack, out, heap, nextId>>
        ELSE Fail(TypeError(want, Peek(0)))

OpValidateClosedFormals ==
  /\ InCall({"ValidateClosedFormals"})
  /\ IF ~IsCatchable(Peek(0)) /\ DOMAIN Peek(0)[3] \
          Lambda(Frm.ref).formals.args # {}
     THEN Fail(<<"UnexpectedArgument">>)
     ELSE Continue /\ UNCHANGED <<stack, out, heap, nextId>>

(* Operators that give way to a catchable operand, the topmost first
   (lifted_pop!). *)
Lifted == [op \in {"Invert", "Negate"} |-> 1] @@
  [op \in {"Equal", "AttrsSelect", "AttrsUpdate", "HasAttr", "Concat", "Add", "Sub", "Mul",
           "Div", "Less", "LessOrEq", "More", "MoreOrEq"} |-> 2]
LiftedCatchable == \E i \in 0..(Lifted[Arg(1)] - 1) : IsCatchable(Peek(i))
OpLifted ==
  /\ InCall(DOMAIN Lifted) /\ LiftedCatchable
  /\ LET n == Lifted[Arg(1)]
         first == Min({i \in 0..(n - 1) : IsCatchable(Peek(i))})
     IN Push(Drop(n), Peek(first))

Abs(i) == IF i < 0 THEN -i ELSE i
Arith(op, a, b) ==
  IF op = "Div" /\ b = IntV(0) THEN FailV(<<"DivisionByZero">>)
  ELSE IF a[1] # "int" \/ b[1] # "int"
  THEN FailV(TypeError("number", IF a[1] = "int" THEN b ELSE a))
  ELSE CASE op = "Add" -> IntV(a[2] + b[2]) [] op = "Sub" -> IntV(a[2] - b[2])
         [] op = "Mul" -> IntV(a[2] * b[2])
         [] op = "Div" -> IntV((IF (a[2] < 0) # (b[2] < 0) THEN -1 ELSE 1) *
                                 (Abs(a[2]) \div Abs(b[2])))

SelectAttr(a, k) ==
  IF k[1] # "str" THEN FailV(TypeError("contextless strings", k))
  ELSE IF a[1] # "attrs" THEN FailV(TypeError("set", a))
  ELSE IF k[2] \notin DOMAIN a[3] THEN FailV(<<"AttributeNotFound", k[2]>>)
  ELSE a[3][k[2]]

(* The operators that neither force nor allocate. *)
OpSimple ==
  /\ InCall({"Sub", "Mul", "Div", "AttrsSelect", "HasAttr", "Invert", "Negate"})
  /\ ~LiftedCatchable
  /\ LET op == Arg(1)
         b == Peek(0)
         a == Peek(1)
         v == CASE op \in {"Sub", "Mul", "Div"} -> Arith(op, a, b)
                [] op = "AttrsSelect" -> SelectAttr(a, b)
                [] op = "HasAttr" ->
                     IF b[1] # "str" THEN FailV(TypeError("contextless strings", b))
                     ELSE BoolV(a[1] = "attrs" /\ b[2] \in DOMAIN a[3])
                [] op = "Invert" -> IF b[1] = "bool" THEN BoolV(~b[2])
                                    ELSE FailV(TypeError("bool", b))
                [] op = "Negate" -> IF b[1] = "int" THEN IntV(-b[2])
                                    ELSE FailV(TypeError("number", b))
     IN Push(Drop(Lifted[op]), v)

OpAttrsTrySelect ==
  /\ InCall({"AttrsTrySelect"})
  /\ LET k == Peek(0)
         a == Peek(1)
     IN Push(Drop(2), IF k[1] # "str" THEN FailV(TypeError("contextless strings", k))
                      ELSE IF a[1] = "attrs" /\ k[2] \in DOMAIN a[3] THEN a[3][k[2]]
                      ELSE <<"notfound">>)

(* NixAttrs::update keeps the identity of a side that the other cannot change *)
OpAttrsUpdate ==
  /\ InCall({"AttrsUpdate"}) /\ ~LiftedCatchable
  /\ LET a == Peek(1)
         b == Peek(0)
     IN IF b[1] # "attrs" \/ a[1] # "attrs"
        THEN Fail(TypeError("set", IF b[1] # "attrs" THEN b ELSE a))
        ELSE IF DOMAIN b[3] = {} THEN Push(Drop(2), a)
        ELSE IF DOMAIN a[3] = {} THEN Push(Drop(2), b)
        ELSE PushNew(Drop(2), LAMBDA id : AttrsV(id, Updated(a[3], b[3])))

OpConcat ==
  /\ InCall({"Concat"}) /\ ~LiftedCatchable
  /\ LET a == Peek(1)
         b == Peek(0)
     IN IF b[1] # "list" \/ a[1] # "list"
        THEN Fail(TypeError("list", IF b[1] # "list" THEN b ELSE a))
        ELSE PushNew(Drop(2), LAMBDA id : <<"list", id, a[3] \o b[3]>>)

OpList ==
  /\ InCall({"List"})
  /\ PushNew(Drop(Arg(2)),
             LAMBDA id : <<"list", id, SubSeq(stack, Len(stack) - Arg(2) + 1, Len(stack))>>)

(* NixAttrs::construct, from the last pair to the first *)
RECURSIVE Construct(_, _)
Construct(kvs, f) ==
  IF kvs = <<>> THEN <<"ok", f>>
  ELSE LET k == kvs[Len(kvs) - 1]
           rest == SubSeq(kvs, 1, Len(kvs) - 2)
       IN CASE k[1] = "str" -> IF k[2] \in DOMAIN f THEN FailV(<<"DuplicateAttrsKey">>)
                               ELSE Construct(rest, (k[2] :> kvs[Len(kvs)]) @@ f)
            [] k[1] = "null" -> Construct(rest, f)
            [] k[1] = "catch" -> k
            [] OTHER -> FailV(<<"InvalidAttributeName", TypeOf(k)>>)
OpAttrs ==
  /\ InCall({"Attrs"})
  /\ LET r == Construct(SubSeq(stack, Len(stack) - 2 * Arg(2) + 1, Len(stack)), NoAttrs)
     IN PushNew(Drop(2 * Arg(2)),
                LAMBDA id : IF r[1] = "ok" THEN AttrsV(id, r[2]) ELSE r)

(* run_interpolate: fragments come off the stack in the order of the string *)
RECURSIVE Interpolated(_, _)
Interpolated(n, s) ==
  IF n = 0 THEN StrV(s)
  ELSE LET v == Peek(Arg(2) - n)
       IN CASE v[1] = "catch" -> v
            [] v[1] = "str" -> Interpolated(n - 1, s \o v[2])
            [] OTHER -> FailV(TypeError("contextful string", v))
OpInterpolate == InCall({"Interpolate"}) /\ Push(Drop(Arg(2)), Interpolated(Arg(2), ""))

OpFindFile ==
  /\ InCall({"FindFile"})
  /\ Push(Drop(1), IF Peek(0)[2] \in DOMAIN SearchPath THEN PathV(SearchPath[Peek(0)[2]])
                   ELSE CatchV("nix_path", Peek(0)[2]))

OpWith ==
  /\ InCall({"PushWith", "PopWith"})
  /\ withs' = IF Arg(1) = "PushWith" THEN Append(withs, Frm.off + Arg(2) + 1) ELSE Front(withs)
  /\ Continue /\ UNCHANGED <<stack, out, heap, nextId>>

(* populate_upvalues: deferred captures wait for OpFinalise *)
Captured(data, capw, stk) ==
  [vals |-> [i \in DOMAIN data |->
               CASE data[i][1] = "stack" -> stk[Frm.off + data[i][2] + 1]
                 [] data[i][1] = "deferred" -> data[i]
                 [] data[i][1] = "upvalue" -> Frm.upv.vals[data[i][2]]],
   with |-> IF capw THEN Frm.upv.with \o [i \in DOMAIN withs |-> stk[withs[i]]] ELSE <<>>]

(* The thunk is on the stack when its upvalues are read: it may capture itself *)
OpThunk ==
  /\ InCall({"ThunkSuspended", "ThunkClosure"})
  /\ LET stk == Append(stack, <<"thunk", Len(heap) + 1>>)
         upv == Captured(Arg(3), Arg(4), stk)
         ref == <<Frm.ref[1], Arg(2), Frm.ref[3]>>
     IN /\ stack' = stk
        /\ heap' = Append(heap, IF Arg(1) = "ThunkSuspended" THEN Suspended(ref, upv)
                                ELSE Evaluated(<<"closure", nextId, ref, upv>>))
        /\ nextId' = nextId + 1
        /\ Continue /\ UNCHANGED out

OpClosure ==
  /\ InCall({"Closure"})
  /\ PushNew(stack, LAMBDA id : <<"closure", id, <<Frm.ref[1], Arg(2), Frm.ref[3]>>,
                                 Captured(Arg(3), Arg(4), stack)>>)

(* Thunk::finalise *)
Resolved(upv) ==
  [upv EXCEPT !.vals = [i \in DOMAIN @ |-> IF @[i][1] = "deferred" THEN At(@[i][2]) ELSE @[i]]]
OpFinalise ==
  /\ InCall({"Finalise"})
  /\ LET v == At(Arg(2))
         cell == heap[v[2]]
     IN IF ~IsThunk(v) THEN Panic("attempted to finalise a non-thunk")
        ELSE IF cell[1] = "suspended"
        THEN /\ heap' = [heap EXCEPT ![v[2]][3] = Resolved(cell[3])]
             /\ Continue /\ UNCHANGED <<stack, out, nextId>>
        ELSE IF cell[1] = "evaluated" /\ cell[2][1] = "closure"
        THEN /\ heap' = [heap EXCEPT ![v[2]][2][4] = Resolved(cell[2][4])]
             /\ Continue /\ UNCHANGED <<stack, out, nextId>>
        ELSE Panic("upvalues() on non-suspended thunk")

-----------------------------------------------------------------------------
(* Instructions that hand over to a generator or to another frame. *)

ForceGen(v) == Gen("force", [t |-> v, also |-> <<>>])
OpForce ==
  /\ InCall({"Force"})
  /\ IF IsThunk(Peek(0))
     THEN stack' = Drop(1) /\ Suspend(ForceGen(Peek(0))) /\ UNCHANGED <<out, heap, nextId>>
     ELSE Continue /\ UNCHANGED <<stack, out, heap, nextId>>

EqGen(a, b, pe) == Gen("nix_eq", [vals |-> <<<<a, b, pe>>>>])
CoerceGen(v, strong, imp) ==
  Gen("coerce_to_string", [vals |-> <<v>>, res |-> "", head |-> "none", strong |-> strong,
                           imp |-> imp, called |-> FALSE])
CmpGen(op, a, b) == Gen("compare", [op |-> op, vals |-> <<<<a, b, FALSE>>>>])
OpGenerator ==
  /\ InCall({"Equal", "Add", "Less", "LessOrEq", "More", "MoreOrEq"}) /\ ~LiftedCatchable
  /\ stack' = Drop(2) /\ UNCHANGED <<out, heap, nextId>>
  /\ LET a == Peek(1)
         b == Peek(0)
     IN Suspend(CASE Arg(1) = "Equal" -> EqGen(a, b, 0)
                  [] Arg(1) = "Add" -> Gen("add_values", [a |-> a, b |-> b, s |-> <<>>])
                  [] OTHER -> CmpGen(Arg(1), a, b))
OpCoerceToString ==
  /\ InCall({"CoerceToString"})
  /\ stack' = Drop(1) /\ UNCHANGED <<out, heap, nextId>>
  /\ Suspend(CoerceGen(Peek(0), FALSE, TRUE))
OpResolveWith ==
  /\ InCall({"ResolveWith"})
  /\ stack' = Drop(1) /\ UNCHANGED <<out, heap, nextId>>
  /\ Suspend(Gen("resolve_with", [name |-> Peek(0)[2], vm |-> Len(withs),
                                  up |-> Len(Frm.upv.with)]))

(* call_value, the argument on top of `stk'; a builtin or a catchable does  *)
(* not come back to the calling frame (`kept' has it, `dropped' has not)    *)
CallValue(c, stk, kept, dropped) ==
  /\ UNCHANGED <<heap, nextId>>
  /\ CASE c[1] = "closure" ->
            /\ frames' = Append(kept, CallFrame(c[3], c[4], Len(stk) - 1))
            /\ stack' = stk /\ UNCHANGED out
       [] c[1] = "builtin" ->
            LET args == Append(c[3], Last(stk))
            IN /\ UNCHANGED out
               /\ IF Len(args) = Len(Strict[c[2]])
                  THEN /\ frames' = Append(dropped, Gen(c[2], [args |-> args, i |-> 0, acc |-> <<>>]))
                       /\ stack' = Front(stk)
                  ELSE /\ frames' = dropped
                       /\ stack' = Append(Front(stk), <<"builtin", c[2], args>>)
       [] c[1] = "attrs" ->
            /\ frames' = Append(kept, Gen("call_functor", [set |-> c, primed |-> FALSE]))
            /\ stack' = stk /\ UNCHANGED out
       [] c[1] = "catch" ->
            frames' = dropped /\ stack' = Append(Front(stk), c) /\ UNCHANGED out
       [] OTHER -> out' = <<"error", <<"NotCallable", TypeOf(c)>>>> /\ UNCHANGED <<frames, stack>>

OpCall ==
  /\ InCall({"Call"})
  /\ CallValue(Peek(0), Drop(1), Append(Below, [Frm EXCEPT !.ip = @ + 1]), Below)

OpReturn == InCall({"Return"}) /\ frames' = Below /\ UNCHANGED <<stack, out, heap, nextId>>

Instruction ==
  \/ OpConstant \/ OpGetLocal \/ OpGetUpvalue \/ OpPop \/ OpAssertFail \/ OpCloseScope
  \/ OpJump \/ OpAssert \/ OpValidateClosedFormals \/ OpLifted \/ OpSimple
  \/ OpAttrsTrySelect \/ OpAttrsUpdate \/ OpConcat \/ OpList \/ OpAttrs \/ OpInterpolate
  \/ OpFindFile \/ OpThunk \/ OpClosure \/ OpFinalise \/ OpForce \/ OpGenerator
  \/ OpCoerceToString \/ OpResolveWith \/ OpCall \/ OpReturn

=============================================================================
