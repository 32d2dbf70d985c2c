------------------------------- MODULE VMState -------------------------------
(***************************************************************************)
(* The state of tvix-eval's virtual machine (eval/src/vm): a stack of call *)
(* frames and generator frames over one value stack, with thunks on a      *)
(* heap.  Bytecode has the instructions, Generators the coroutines, VM the *)
(* machine that runs both.                                                 *)
(*                                                                         *)
(* A value is a tuple that starts with its kind.  Lists, sets and closures *)
(* carry the identity of their Rc.  String contexts, floats and spans are  *)
(* left out.                                                               *)
(***************************************************************************)
EXTENDS Compiler, TLC

CONSTANTS
  Files,         \* the source files: what can be evaluated or imported
  Source,        \* their contents, [e |-> expression, env |-> variables]
  KeyOrder,      \* every attribute name, in byte order
  SearchPath     \* what the NIX_PATH resolves, a function from names to paths

VARIABLES
  main,          \* the file under evaluation
  code,          \* the files compiled so far, a function to what Compiler made of them
  frames,        \* the frame stack
  stack,         \* the value stack
  withs,         \* the with-stack: indices into the value stack
  heap,          \* thunks: suspended, blackhole, evaluated or moved
  nextId,        \* identities of lists, sets and closures (their Rc)
  cache,         \* import cache: pairs of file and thunk
  out            \* <<>> while running, else the result or the failure

vars == <<main, code, frames, stack, withs, heap, nextId, cache, out>>

-----------------------------------------------------------------------------
(* Values on the heap. *)

CompiledFile(f) == CompileProgram(Source[f].e, Source[f].env)
Lambda(ref) == code[ref[1]].lams[ref[2]]

Suspended(ref, upv) == <<"suspended", ref, upv>>
Evaluated(v) == <<"evaluated", v>>
Blackhole == <<"blackhole">>
Moved == <<"moved">>      \* not a representation: the cell is gone, its contents are another's

IsThunk(v) == v[1] = "thunk"
IsForced(v) == IsThunk(v) => heap[v[2]][1] = "evaluated" /\ ~IsThunk(heap[v[2]][2])
Whnf(v) == IF IsThunk(v) THEN heap[v[2]][2] ELSE v
IsCatchable(v) == v[1] = "catch"
Internal == {"thunk", "deferred", "request", "notfound"}

NoUpvalues == [vals |-> <<>>, with |-> <<>>]

(* Constants of a file are placed at `base' in the heap when it is loaded. *)
Relocate(v, ref) ==
  CASE v[1] = "thunk" -> <<"thunk", ref[3] + v[2]>>
    [] v[1] = "closure" -> <<"closure", 0, <<ref[1], v[3], ref[3]>>, v[4]>>
    [] OTHER -> v
LoadedConsts(p, f, base) ==
  [k \in DOMAIN p.consts |-> Suspended(<<f, p.consts[k], base>>, NoUpvalues)]
RootRef(p, f, base) == <<f, Len(p.lams), base>>

(* Thunk::new_suspended_call: a chunk that applies a value to an argument *)
SuspendedCall(f, a) == Suspended(<<"", 0, 0>>, [vals |-> <<a, f>>, with |-> <<>>])
SuspendedCallCode ==
  <<<<"GetUpvalue", 1>>, <<"GetUpvalue", 2>>, <<"Force">>, <<"Call">>, <<"Return">>>>

(* Attribute names of a set in the order of iteration. *)
SortedKeys(f) == SelectSeq(KeyOrder, LAMBDA k : k \in DOMAIN f)
SortedVals(f) == LET ks == SortedKeys(f) IN [i \in DOMAIN ks |-> f[ks[i]]]
Updated(f, g) == g @@ f

TypeOf(v) ==
  CASE v[1] = "str" -> "string" [] v[1] = "attrs" -> "set"
    [] v[1] \in {"closure", "builtin"} -> "lambda"
    [] v[1] = "catch" -> "internal[catchable]"
    [] v[1] \in Internal -> "internal" [] OTHER -> v[1]
TypeError(expected, v) == <<"TypeError", expected, TypeOf(v)>>

-----------------------------------------------------------------------------
(* Frames. *)

(* Builtins, with the strictness of their arguments. *)
Strict ==
  [b \in {"throw", "abort", "length", "head", "tail", "concatLists", "listToAttrs",
          "attrNames", "attrValues", "typeOf", "functionArgs", "genericClosure", "import",
          "isFunction", "isNull", "isList"} |->
     <<TRUE>>] @@
  [b \in {"seq", "deepSeq", "any", "all", "filter", "partition", "concatMap", "groupBy",
          "elem", "elemAt", "sort", "catAttrs", "getAttr", "hasAttr", "removeAttrs",
          "intersectAttrs", "lessThan", "sub"} |-> <<TRUE, TRUE>>] @@
  [b \in {"map", "mapAttrs", "genList"} |-> <<FALSE, TRUE>>] @@
  [b \in {"tryEval", "toString"} |-> <<FALSE>>] @@
  [foldl |-> <<TRUE, FALSE, TRUE>>]

CallFrame(ref, upv, off) == [k |-> "call", ref |-> ref, upv |-> upv, ip |-> 1, off |-> off]
Gen(name, st) == [k |-> "gen", name |-> name, st |-> st, waits |-> FALSE]

Frm == frames[Len(frames)]
Below == Front(frames)
Running == out = <<>> /\ frames # <<>>
Chunk == IF Frm.ref[2] = 0 THEN SuspendedCallCode ELSE Lambda(Frm.ref).code
InCall(op) == Running /\ Frm.k = "call" /\ Chunk[Frm.ip][1] \in op
Arg(i) == Chunk[Frm.ip][i]

Peek(i) == stack[Len(stack) - i]
Drop(n) == SubSeq(stack, 1, Len(stack) - n)
At(i) == stack[Frm.off + i + 1]

Goto(ip) == frames' = Append(Below, [Frm EXCEPT !.ip = ip])
Continue == Goto(Frm.ip + 1)
Suspend(g) == frames' = Below \o <<[Frm EXCEPT !.ip = @ + 1], g>>
Stop(o) == out' = o /\ UNCHANGED <<frames, stack, heap, nextId>>
Fail(e) == Stop(<<"error", e>>)
Panic(why) == Stop(<<"panic", why>>)

FailV(e) == <<"fail", e>>
(* Leave a value, or stop with the error it stands for. *)
Push(stk, v) ==
  IF v[1] = "fail" THEN Fail(v[2])
  ELSE stack' = Append(stk, v) /\ Continue /\ UNCHANGED <<out, heap, nextId>>
PushNew(stk, mk(_)) ==         \* a value with a fresh identity
  IF mk(nextId)[1] = "fail" THEN Fail(mk(nextId)[2])
  ELSE stack' = Append(stk, mk(nextId)) /\ Continue /\ nextId' = nextId + 1
       /\ UNCHANGED <<out, heap>>

=============================================================================
