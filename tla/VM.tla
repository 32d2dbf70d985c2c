--------------------------------- MODULE VM ---------------------------------
(***************************************************************************)
(* tvix-eval's machine (VM::execute): it runs the frame on top of the      *)
(* frame stack until none is left, and returns the value on the stack.     *)
(***************************************************************************)
EXTENDS EvalBuiltins

CONSTANT Mains       \* the files under evaluation

Init ==
  /\ main \in Mains
  /\ code = <<>> /\ frames = <<>> /\ heap = <<>> /\ stack = <<>> /\ withs = <<>>
  /\ nextId = 1 /\ cache = {} /\ out = <<>>

(* compile, then run_lambda in strict mode: the root lambda over a generator
   that deep-forces what it leaves on the stack *)
Start ==
  /\ code = <<>> /\ out = <<>>
  /\ \E p \in {CompiledFile(main)} :
        /\ code' = main :> p
        /\ out' = IF p.panic THEN <<"panic", "compiler">>
                  ELSE IF p.errs # {} THEN <<"error", <<"CompileError">>>> ELSE <<>>
        /\ frames' = <<[Gen("final_deep_force", [i |-> 0]) EXCEPT !.waits = TRUE],
                       CallFrame(RootRef(p, main, 0), NoUpvalues, 0)>>
        /\ heap' = LoadedConsts(p, main, 0)
  /\ UNCHANGED <<main, stack, withs, nextId, cache>>

InGen == Running /\ Frm.k = "gen"
Message == IF Frm.waits THEN Last(stack) ELSE <<"empty">>
Popped == IF Frm.waits THEN Front(stack) ELSE stack
Waiting(g) == [g EXCEPT !.waits = TRUE]

-----------------------------------------------------------------------------
(* The thunks a value holds: the strong references Rc counts.  A lambda has the
   constants of its file. *)
RECURSIVE Held(_)
AllHeld(vs) == UNION {Held(vs[i]) : i \in DOMAIN vs}
ConstsHeld(ref) == IF ref[2] = 0 THEN {} ELSE {ref[3] + k : k \in DOMAIN code[ref[1]].consts}
LambdaHeld(ref, upv) == ConstsHeld(ref) \cup AllHeld(upv.vals) \cup AllHeld(upv.with)
Held(v) ==
  CASE v[1] = "thunk" -> {v[2]}
    [] v[1] \in {"list", "attrs", "builtin"} -> AllHeld(v[3])
    [] v[1] = "closure" -> LambdaHeld(v[3], v[4])
    [] OTHER -> {}
CellHeld(a) ==
  CASE heap[a][1] = "suspended" -> LambdaHeld(heap[a][2], heap[a][3])
    [] heap[a][1] = "evaluated" -> Held(heap[a][2])
    [] OTHER -> {}

(* What a builtin has gathered so far. *)
AccHeld(g) ==
  LET acc == g.st.acc
  IN CASE g.st.i = 0 \/ g.name \in {"any", "all"} -> {}
       [] g.st.i > 0 /\ g.name = "foldl" -> Held(acc)
       [] g.st.i > 0 /\ g.name = "partition" -> AllHeld(acc.right) \cup AllHeld(acc.wrong)
       [] g.st.i > 0 /\ g.name = "groupBy" -> UNION {AllHeld(acc[k]) : k \in DOMAIN acc}
       [] g.st.i > 0 /\ g.name = "sort" -> AllHeld(acc.data)
       [] g.st.i > 0 /\ g.name = "genericClosure" -> AllHeld(acc.work) \cup AllHeld(acc.res) \cup AllHeld(acc.done)
       [] OTHER -> AllHeld(acc)
GenHeld(g) ==
  CASE g.name = "force" -> Held(g.st.t) \cup Range(g.st.also)
    [] g.name \in {"nix_eq", "compare"} -> UNION {Held(p[1]) \cup Held(p[2]) : p \in Range(g.st.vals)}
    [] g.name = "coerce_to_string" -> AllHeld(g.st.vals)
    [] g.name = "deep_force" -> Held(g.st.self) \cup AllHeld(g.st.vals)
    [] g.name = "add_values" -> Held(g.st.a) \cup Held(g.st.b)
    [] g.name = "call_with" -> Held(g.st.f)
    [] g.name = "call_functor" -> Held(g.st.set)
    [] g.name \in DOMAIN Strict -> AllHeld(g.st.args) \cup AccHeld(g)
    [] OTHER -> {}
Roots ==
  AllHeld(stack) \cup {c[2] : c \in cache} \cup
  UNION {IF f.k = "call" THEN LambdaHeld(f.ref, f.upv) ELSE GenHeld(f) : f \in Range(frames)}
RECURSIVE Reached(_)
Reached(cells) ==
  LET more == cells \cup UNION {CellHeld(a) : a \in cells}
  IN IF more = cells THEN cells ELSE Reached(more)

(* Rc::try_unwrap of thunk i, which t has just let go: it fails while anyone
   that can still be reached holds i, and may fail for a cycle that cannot. *)
Shared(i, t) == i \in Roots \/ \E a \in Reached(Roots) \ {t} : i \in CellHeld(a)
MayBeShared(i, t) == i \in Roots \/ \E a \in DOMAIN heap \ {t} : i \in CellHeld(a)

-----------------------------------------------------------------------------
(* Thunk::force_, one round of its loop per step. *)
InForce == InGen /\ Frm.name = "force"
Cell == heap[Frm.st.t[2]]

(* the value was forced already: thunks that pointed at it are updated too *)
ForceDone ==
  /\ InForce /\ ~Frm.waits /\ IsForced(Frm.st.t)
  /\ stack' = Append(stack, Whnf(Frm.st.t))
  /\ heap' = [a \in DOMAIN heap |->
                IF \E i \in DOMAIN Frm.st.also : Frm.st.also[i] = a
                THEN Evaluated(Whnf(Frm.st.t)) ELSE heap[a]]
  /\ frames' = Below
  /\ UNCHANGED <<out, nextId>>

ForceEnter_NoBlackhole ==        \* the thunk under evaluation is not marked
  /\ InForce /\ ~Frm.waits /\ ~IsForced(Frm.st.t) /\ Cell[1] = "suspended"
  /\ frames' = Below \o <<Waiting(Frm), CallFrame(Cell[2], Cell[3], Len(stack))>>
  /\ UNCHANGED <<stack, out, nextId, heap>>
ForceEnter ==
  /\ InForce /\ ~Frm.waits /\ ~IsForced(Frm.st.t) /\ Cell[1] = "suspended"
  /\ heap' = [heap EXCEPT ![Frm.st.t[2]] = Blackhole]
  /\ frames' = Below \o <<Waiting(Frm), CallFrame(Cell[2], Cell[3], Len(stack))>>
  /\ UNCHANGED <<stack, out, nextId>>

ForceEntered ==
  /\ InForce /\ Frm.waits
  /\ heap' = [heap EXCEPT ![Frm.st.t[2]] = Evaluated(Last(stack))]
  /\ frames' = Append(Below, [Frm EXCEPT !.waits = FALSE])
  /\ stack' = Front(stack)
  /\ UNCHANGED <<out, nextId>>

(* a nested thunk: nobody else has it, and its contents are taken over ... *)
ForceSteal ==
  /\ InForce /\ ~Frm.waits /\ ~IsForced(Frm.st.t) /\ Cell[1] = "evaluated"
  /\ LET t == Frm.st.t[2]
         inner == Cell[2][2]
     IN ~Shared(inner, t) /\ heap' = [heap EXCEPT ![t] = heap[inner], ![inner] = Moved]
  /\ UNCHANGED <<frames, stack, out, nextId>>
(* ... or it is shared, and forced in the place of this one *)
ForceNested ==
  /\ InForce /\ ~Frm.waits /\ ~IsForced(Frm.st.t) /\ Cell[1] = "evaluated"
  /\ LET t == Frm.st.t[2]
         inner == Cell[2]
     IN /\ MayBeShared(inner[2], t)
        /\ IF IsForced(inner)
           THEN heap' = [heap EXCEPT ![t] = Evaluated(Whnf(inner))] /\ UNCHANGED frames
           ELSE /\ heap' = [heap EXCEPT ![t] = Blackhole]
                /\ frames' = Append(Below, [Frm EXCEPT !.st = [t |-> inner, also |-> Append(@.also, t)]])
  /\ UNCHANGED <<stack, out, nextId>>

ForceCycle ==
  /\ InForce /\ ~Frm.waits /\ ~IsForced(Frm.st.t) /\ Cell[1] = "blackhole"
  /\ Fail(<<"InfiniteRecursion">>)

-----------------------------------------------------------------------------
(* run_generator: what the machine does for a request. *)
InRequest == InGen /\ Frm.name # "force"

GenAwait(q) ==
  /\ q.r = "await"
  /\ frames' = Below \o <<Waiting(q.g), q.f>>
  /\ stack' = Popped \o q.push
  /\ UNCHANGED <<code, cache, heap, out, nextId>>
GenGo(q) ==
  /\ q.r = "go"
  /\ frames' = Append(Below, [q.g EXCEPT !.waits = FALSE])
  /\ stack' = Popped /\ UNCHANGED <<code, cache, heap, out, nextId>>
GenCall(q) ==
  /\ q.r = "call"
  /\ LET kept == Append(Below, Waiting(q.g)) IN CallValue(q.c, Popped, kept, kept)
  /\ UNCHANGED <<code, cache>>
GenDone(q) ==
  /\ q.r = "done"
  /\ CASE q.v[1] = "fail" -> Fail(q.v[2])
       [] q.v[1] = "panic" -> Panic(q.v[2])
       [] OTHER -> /\ stack' = Append(Popped, q.v)
                   /\ frames' = Below /\ heap' = heap \o q.new
                   /\ nextId' = nextId + 1 /\ UNCHANGED out
  /\ UNCHANGED <<code, cache>>
(* import_impl after the cache missed: the file is compiled and suspended *)
GenImport(q) ==
  /\ q.r = "import"
  /\ \E p \in {CompiledFile(q.file)} :
     LET f == q.file
         new == LoadedConsts(p, f, Len(heap))
         t == Len(heap) + Len(new) + 1
     IN IF p.panic \/ p.errs # {}
        THEN /\ IF p.panic THEN Panic("compiler") ELSE Fail(<<"ImportCompilerError", f>>)
             /\ UNCHANGED <<code, cache>>
        ELSE /\ code' = (f :> p) @@ code
             /\ heap' = (heap \o new) \o <<Suspended(RootRef(p, f, Len(heap)), NoUpvalues)>>
             /\ cache' = cache \cup {<<f, t>>}
             /\ stack' = Append(Popped, <<"thunk", t>>)
             /\ frames' = Below /\ UNCHANGED <<out, nextId>>

(* no frame is left *)
Finish ==
  /\ out = <<>> /\ code # <<>> /\ frames = <<>>
  /\ out' = <<"value", Last(stack)>>
  /\ UNCHANGED <<frames, stack, heap, nextId>>

Step ==
  \/ Instruction /\ UNCHANGED <<main, code, withs, cache>>
  \/ OpWith /\ UNCHANGED <<main, code, cache>>
  \/ /\ ForceDone \/ ForceEnter \/ ForceEntered \/ ForceSteal \/ ForceNested \/ ForceCycle \/ Finish
     /\ UNCHANGED <<main, code, withs, cache>>
  \/ /\ InRequest
     /\ \E q \in {Resume(Frm, Message)} :
          GenAwait(q) \/ GenGo(q) \/ GenCall(q) \/ GenDone(q) \/ GenImport(q)
     /\ UNCHANGED <<main, withs>>

Terminated == out # <<>> /\ UNCHANGED vars
Next == Start \/ Step \/ Terminated

Spec == Init /\ [][Next]_vars

-----------------------------------------------------------------------------
(* The compiler's count of locals and the machine's stack agree: a call frame
   that returns leaves one value in the place where it began, whatever its
   scopes, branches and defaults pushed. *)
FrameLeavesOne == InCall({"Return"}) => Len(stack) = Frm.off + 1

(* The machine has one with-stack for all frames and saves it nowhere: it is
   empty whenever another frame than the one that pushed to it can look names
   up, so no name resolves in the scope of a caller. *)
WithsStayInFrame ==
  \/ withs = <<>>
  \/ /\ Running /\ Frm.k = "call"
     /\ \A i \in DOMAIN withs : withs[i] \in Frm.off + 1 .. Len(stack)

(* A Call drops the frame of its caller when the callee is a builtin
   (call_value): the compiler must place every Call last. *)
CallsAreTail ==
  \A f \in DOMAIN code : \A l \in Range(code[f].lams) : \A i \in DOMAIN l.code :
    l.code[i][1] = "Call" => l.code[i + 1] = <<"Return">>

(* The one stack and the one with-stack that all frames share are used in turn:
   a frame leaves its value, its scopes and its calls where its caller expects
   them. *)
FramesBalanced == FrameLeavesOne /\ WithsStayInFrame /\ CallsAreTail

(* A captured local that was not initialised yet is filled in by OpFinalise
   before anyone reads it ("Upvalues must be finalised before leaving the initial
   state", ThunkRepr).  Not so when a dynamic key of a recursive set needs a
   binding that captures a later one: keys are forced in between the bindings,
   the finalisers come after all of them. *)
UpvaluesFinalised ==
  InCall({"GetUpvalue"}) => Frm.upv.vals[Arg(2)][1] # "deferred"

(* A thunk is evaluated once: it is a blackhole while its code runs, its code is
   never run again, and the value it settled on stays (a recursive closure still
   gets its deferred upvalues).  A thunk that evaluated to another may take that
   one's code or value over; there is then one thunk less, and nobody asks for
   it any more. *)
Settled(v) == <<v[1], IF v[1] = "closure" THEN v[3] ELSE v>>
TakenBy(i, t) ==
  heap[t] = Evaluated(<<"thunk", i>>) /\ heap'[t] = heap[i] /\ heap[i] # Moved /\ heap'[i] = Moved
Taken(i) == \E t \in DOMAIN heap : TakenBy(i, t)
ThunksSettle ==
  [][\A t \in DOMAIN heap :
       /\ heap[t][1] = "suspended" => heap'[t][1] \in {"suspended", "blackhole"} \/ Taken(t)
       /\ heap[t][1] # "suspended" /\ heap'[t][1] = "suspended" => \E i \in DOMAIN heap : TakenBy(i, t)
       /\ IsForced(<<"thunk", t>>) =>
            \/ Taken(t)
            \/ heap'[t][1] = "evaluated" /\ Settled(heap'[t][2]) = Settled(heap[t][2])]_vars

=============================================================================
