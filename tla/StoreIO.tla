-------------------------------- MODULE StoreIO --------------------------------
(***************************************************************************)
(* TvixStoreIO (glue tvix_store_io.rs): evaluators that share a store and a *)
(* build server.  Each runs a program of builtin calls, which fills its      *)
(* KnownPaths, and of reads of store paths, which fetch and build what is    *)
(* not stored yet.  store_path_to_node calls itself for the inputs of a      *)
(* derivation: its frames are a stack.                                       *)
(***************************************************************************)
EXTENDS BuildService

CONSTANTS Workloads,  \* what the evaluators may run: evaluator -> program
          Dictionary, \* names of digests
          Served,     \* url -> what the server may send for it
          MaxFaults,  \* bound on failing operations
          MaxRestarts \* bound on the evaluators' restarts

VARIABLES infos,      \* the PathInfoService: store path -> PathInfo
          program,    \* evaluator -> its program
          pc,         \* evaluator -> the next operation
          vals,       \* evaluator -> the values of its variables
          known,      \* evaluator -> KnownPaths
          stack,      \* evaluator -> the frames of store_path_to_node, innermost last
          answer,     \* evaluator -> the answer of the last operation
          faults, restarts

evalVars == <<infos, program, pc, vals, known, stack, answer, faults, restarts>>
vars == <<evalVars, buildVars>>

Init ==
    /\ BuildInit
    /\ infos = [p \in {} |-> None]
    /\ program \in Workloads
    /\ pc = [e \in Clients |-> 1]
    /\ vals = [e \in Clients |-> [x \in {} |-> None]]
    /\ known = [e \in Clients |-> NoKnownPaths]
    /\ stack = [e \in Clients |-> <<>>]
    /\ answer = [e \in Clients |-> None]
    /\ faults = 0 /\ restarts = 0

Op(e) == program[e][pc[e]]
Idle(e) == stack[e] = <<>>
Running(e) == Idle(e) /\ pc[e] <= Len(program[e])

(* Values in a program may name an attribute of an earlier result. *)
Resolve(e, v) ==
    CASE v[1] = "ref" -> vals[e][v[2]][v[3]]
      [] v[1] = "list" -> <<"list", [i \in DOMAIN v[2] |->
                              IF v[2][i][1] = "ref" THEN vals[e][v[2][i][2]][v[2][i][3]] ELSE v[2][i]]>>
      [] OTHER -> v

ResolveAll(e, args) == [a \in DOMAIN args |-> Resolve(e, args[a])]

(* The operation's value is bound and the next one is due. *)
Advance(e, x, v) ==
    /\ pc' = [pc EXCEPT ![e] = @ + 1]
    /\ vals' = [vals EXCEPT ![e] = Put(@, x, v)]
    /\ answer' = [answer EXCEPT ![e] = Ok(<<"attrs", v>>)]

(* The evaluation ends with an error. *)
Fail(e, r) ==
    /\ pc' = [pc EXCEPT ![e] = Len(program[e]) + 1]
    /\ answer' = [answer EXCEPT ![e] = r]
    /\ UNCHANGED vals

Same == UNCHANGED <<program, faults, restarts, buildVars>>

(* Fetcher::download: what the server answers; it may answer differently each time. *)
Download(url) == Served[url]

-----------------------------------------------------------------------------
(* The builtins *)

(* Host paths among the arguments are imported as they are coerced. *)
HostPaths(input) ==
    {input[a][2] : a \in {b \in CoercedArgs(input) : input[b][1] = "path"}} \cap DOMAIN HostFiles

(* import_path_as_nar_ca *)
ImportedInfos(input) ==
    LET info(h) == PathInfo(ImportPath(h)[2], HostFiles[h], {}, NarSize(HostFiles[h]), NarSha256(HostFiles[h]),
                            None, <<"nar", NarSha256(HostFiles[h])>>)
    IN [p \in {ImportPath(h)[2] : h \in {g \in HostPaths(input) : IsOk(ImportPath(g))}} |->
          info(CHOOSE h \in HostPaths(input) : ImportPath(h)[2] = p)]

CallDerivation(e) ==
    /\ Running(e) /\ Op(e)[1] = "derivation"
    /\ \E input \in {ResolveAll(e, Op(e)[3])} :
         /\ \E r \in {DerivationStrict(input, known[e], Dictionary)} :
              IF IsOk(r)
              THEN /\ Advance(e, Op(e)[2], r[2].value)
                   /\ known' = [known EXCEPT ![e] = r[2].known]
              ELSE Fail(e, r) /\ UNCHANGED known
         /\ infos' = Override(infos, ImportedInfos(input))
    /\ UNCHANGED stack /\ Same

(* A builtin that ends by putting a PathInfo and returns its path. *)
PutResult(e, r) ==
    /\ IF IsOk(r)
       THEN /\ infos' = Put(infos, r[2].path, r[2])
            /\ Advance(e, Op(e)[2], [x \in {"path"} |-> PlainValue(r[2].path)])
       ELSE Fail(e, r) /\ UNCHANGED infos
    /\ UNCHANGED <<known, stack>> /\ Same

CallToFile(e) ==
    /\ Running(e) /\ Op(e)[1] = "toFile"
    /\ \E r \in {ToFile(Op(e)[3], Resolve(e, Op(e)[4]))} : PutResult(e, r)

CallPath(e) ==
    /\ Running(e) /\ Op(e)[1] = "path"
    /\ LET a == Op(e)[3] IN
       \E r \in {ImportHelper(a.path, a.name, a.filter, a.recursive, a.sha256)} : PutResult(e, r)

(* fetchurl and fetchTarball: a fetch whose hash is known is left for later. *)
CallFetch(e) ==
    /\ Running(e) /\ Op(e)[1] \in {"fetchurl", "fetchTarball"}
    /\ LET args == ExtractFetchArgs(Op(e)[3])
           f == FetchOf(Op(e)[1], args[2])
           path == FetchStorePath(f[2], f[1])
       IN IF ~IsOk(args) THEN Fail(e, args) /\ UNCHANGED <<infos, known, stack>> /\ Same
          ELSE IF ~IsOk(path) THEN Fail(e, path) /\ UNCHANGED <<infos, known, stack>> /\ Same
          ELSE IF path[2] # None
               THEN /\ known' = [known EXCEPT ![e] = AddFetch(@, f[1], f[2])]
                    /\ Advance(e, Op(e)[2], [x \in {"path"} |-> PlainValue(path[2])])
                    /\ UNCHANGED <<infos, stack>> /\ Same
          ELSE \E served \in Download(args[2].url) :
                 \E r \in {IngestAndPersist(f[1], f[2], served)} :
                    r[1] # "pending" /\ PutResult(e, r)  \* a pending call never returns

-----------------------------------------------------------------------------
(* store_path_to_node *)

Frame(path) == [path |-> path, stage |-> "lookup", drvPath |-> None, todo |-> <<>>,
                inputs |-> [p \in {} |-> None], response |-> None]

Top(e) == Last(stack[e])
At(e, stage) == stack[e] # <<>> /\ Top(e).stage = stage
SetTop(e, f) == stack' = [stack EXCEPT ![e] = Append(Front(@), f)]

(* The reads of the program: path_exists, open, file_type, read_dir, storePath. *)
Read(e) ==
    /\ Running(e) /\ Op(e)[1] = "read"
    /\ LET v == vals[e][Op(e)[3]][Op(e)[4]] IN
       stack' = [stack EXCEPT ![e] = <<Frame(v[2][1][2])>>]
    /\ UNCHANGED <<infos, pc, vals, known, answer>> /\ Same

(* descend_to *)
Descend(root, sub) ==
    FoldLeft(LAMBDA node, c : IF node = None THEN None
                              ELSE IF node[1] # "dir" THEN None
                              ELSE IF c \notin DOMAIN node[2] THEN None ELSE node[2][c],
             root, sub)

(* What the EvalIO operation makes of the node; a store path Tvix does not  *)
(* know is looked for on the host, which has none.                           *)
IOAnswer(op, node) ==
    CASE op \in {"path_exists", "storePath"} ->
            IF op = "storePath" /\ node = None THEN Err("NotFound") ELSE Ok(<<"bool", node # None>>)
      [] op = "open" -> IF node = None THEN Err("NotFound")
                        ELSE IF node[1] = "file" THEN Ok(node[2]) ELSE Err("Unsupported")
      [] op = "file_type" -> IF node = None THEN Err("NotFound") ELSE Ok(<<"type", node[1]>>)
      [] op = "read_dir" -> IF node = None THEN Err("NotFound")
                            ELSE IF node[1] = "dir"
                                 THEN Ok(<<"list", [n \in DOMAIN node[2] |-> node[2][n][1]]>>)
                                 ELSE Err("Unsupported")

(* The innermost call returns node (None: not known). *)
Return(e, node) ==
    IF Len(stack[e]) = 1
    THEN LET r == IOAnswer(Op(e)[2], IF node = None THEN None ELSE Descend(node, Op(e)[5])) IN
         /\ stack' = [stack EXCEPT ![e] = <<>>]
         /\ answer' = [answer EXCEPT ![e] = r]
         /\ pc' = [pc EXCEPT ![e] = IF IsOk(r) THEN @ + 1 ELSE Len(program[e]) + 1]
    ELSE IF node = None
    THEN /\ stack' = [stack EXCEPT ![e] = <<>>]
         /\ answer' = [answer EXCEPT ![e] = Err("no node produced")]
         /\ pc' = [pc EXCEPT ![e] = Len(program[e]) + 1]
    ELSE /\ stack' = [stack EXCEPT ![e] =
                 LET below == Front(@) IN
                 [below EXCEPT ![Len(below)].inputs = Put(@, Top(e).path, node),
                               ![Len(below)].todo = Tail(@)]]
         /\ UNCHANGED <<pc, answer>>

(* An error ends every call on the stack. *)
Abort(e, r) ==
    /\ stack' = [stack EXCEPT ![e] = <<>>]
    /\ answer' = [answer EXCEPT ![e] = r]
    /\ pc' = [pc EXCEPT ![e] = Len(program[e]) + 1]

(* The inputs to ask for: the outputs of the input derivations, in the order *)
(* of their paths and names, then the sources.                              *)
InputPaths(drv, kp) ==
    LET outs(p) == [i \in DOMAIN Sorted(drv.inputDrvs[p]) |->
                       kp.drvs[p].outputs[Sorted(drv.inputDrvs[p])[i]].path] IN
    FlattenSeq([i \in DOMAIN SetToSeq(DOMAIN drv.inputDrvs) |-> outs(SetToSeq(DOMAIN drv.inputDrvs)[i])])
      \o SetToSeq(drv.inputSrcs)

(* What is to be done for a path that is not stored: a fetch is preferred. *)
Missing(e, f) ==
    IF f.path \in DOMAIN known[e].outputsToFetch THEN [f EXCEPT !.stage = "fetch"]
    ELSE IF f.path \in DOMAIN known[e].outputsToDrv
    THEN LET d == known[e].outputsToDrv[f.path] IN
         [f EXCEPT !.stage = "inputs", !.drvPath = d, !.todo = InputPaths(known[e].drvs[d], known[e])]
    ELSE [f EXCEPT !.stage = "unknown"]

(* The PathInfoService is asked. *)
Lookup(e) ==
    /\ At(e, "lookup")
    /\ IF Top(e).path \in DOMAIN infos THEN Return(e, infos[Top(e).path].node)
       ELSE IF Missing(e, Top(e)).stage = "unknown" THEN Return(e, None)
       ELSE SetTop(e, Missing(e, Top(e))) /\ UNCHANGED <<pc, answer>>
    /\ UNCHANGED <<infos, vals, known>> /\ Same

(* The fetch is done and persisted. *)
Fetch(e) ==
    /\ At(e, "fetch")
    /\ LET f == known[e].outputsToFetch[Top(e).path] IN
       \E served \in Download(f[2][2]) :
         \E r \in {IngestAndPersist(f[1], f[2], served)} :
           IF IsOk(r) THEN Return(e, r[2].node) /\ infos' = Put(infos, r[2].path, r[2])
           ELSE IF r[1] = "pending"
           THEN SetTop(e, [Top(e) EXCEPT !.stage = "pending"]) /\ UNCHANGED <<infos, pc, answer>>
           ELSE Abort(e, r) /\ UNCHANGED infos
    /\ UNCHANGED <<vals, known>> /\ Same

(* The next input is asked for, by a call of its own. *)
NextInput(e) ==
    /\ At(e, "inputs") /\ Top(e).todo # <<>>
    /\ stack' = [stack EXCEPT ![e] = Append(@, Frame(Head(Top(e).todo)))]
    /\ UNCHANGED <<infos, pc, vals, known, answer>> /\ Same

DrvOf(e) == known[e].drvs[Top(e).drvPath]

(* An evaluator that panics, or is killed: its memory is gone. *)
Die(e) ==
    /\ restarts < MaxRestarts
    /\ restarts' = restarts + 1
    /\ pc' = [pc EXCEPT ![e] = 1]
    /\ vals' = [vals EXCEPT ![e] = [x \in {} |-> None]]
    /\ known' = [known EXCEPT ![e] = NoKnownPaths]
    /\ stack' = [stack EXCEPT ![e] = <<>>]
    /\ answer' = [answer EXCEPT ![e] = None]
    /\ UNCHANGED <<program, faults>>

(* A panic ends the evaluation. *)
Panic(e, what) == Abort(e, <<"panic", what>>)

(* All inputs are there: the build is requested. *)
Request(e) ==
    /\ At(e, "inputs") /\ Top(e).todo = <<>>
    /\ \E r \in {DerivationToBuildRequest(DrvOf(e), Top(e).inputs)} :
         IF ~IsOk(r) THEN Abort(e, r) /\ UNCHANGED buildVars
         ELSE IF ~IsOk(OverGrpc(r[2])) THEN Abort(e, OverGrpc(r[2])) /\ UNCHANGED buildVars
         ELSE /\ Submit(e, OverGrpc(r[2])[2])
              /\ SetTop(e, [Top(e) EXCEPT !.stage = "building"])
              /\ UNCHANGED <<pc, answer>>
    /\ UNCHANGED <<infos, vals, known, program, faults, restarts>>

(* The answer arrives: with nodes that carry a name the first conversion     *)
(* panics.                                                                  *)
BuildDone(e) ==
    /\ At(e, "building") /\ Building(e, "done")
    /\ LET r == builds[e][2] IN
       IF ~IsOk(r) THEN Abort(e, r)
       ELSE IF r[2].outputs # <<>> /\ r[2].outputs[1].name # None THEN Panic(e, "invalid node")
       ELSE /\ SetTop(e, [Top(e) EXCEPT !.stage = "put", !.response = r])
            /\ UNCHANGED <<pc, answer>>
    /\ Taken(e)
    /\ UNCHANGED <<infos, vals, known, program, faults, restarts>>

Deriver(drvPath) == [drvPath EXCEPT ![4][2] = ""]

(* The PathInfo of the i-th output: node and needles in the order of the     *)
(* response, path in the order of the output names.                          *)
BuiltInfo(drv, drvPath, response, i) ==
    LET node == response.outputs[i].node
        needles == GetRefscanNeedles(drv) IN
    PathInfo(OutputsByName(drv)[i], node, {needles[j] : j \in response.needles[i]}, NarSize(node),
             NarSha256(node), Deriver(drvPath),
             IF FodDigest(drv) = None THEN None ELSE <<"nar", <<"sha256", FodDigest(drv)>>>>)

(* Outputs put so far. *)
PutSoFar(f) == Len(f.todo)

(* The next output is put; after the last one the node asked for is looked   *)
(* for by name, which an anonymous node does not have.                       *)
PutOutput(e) ==
    /\ At(e, "put")
    /\ LET f == Top(e)
           i == PutSoFar(f) + 1
       IN IF i <= Len(f.response[2].outputs)
          THEN /\ \E info \in {BuiltInfo(DrvOf(e), f.drvPath, f.response[2], i)} :
                    infos' = Put(infos, info.path, info)
               /\ SetTop(e, [f EXCEPT !.todo = Append(@, i)])
               /\ UNCHANGED <<pc, answer>>
          ELSE Panic(e, "invalid node") /\ UNCHANGED infos
    /\ UNCHANGED <<vals, known>> /\ Same

-----------------------------------------------------------------------------
(* Faults *)

(* The store answers a lookup or a put with an error. *)
StoreFails(e) ==
    /\ faults < MaxFaults
    /\ At(e, "lookup") \/ (At(e, "put") /\ PutSoFar(Top(e)) < Len(Top(e).response[2].outputs))
    /\ Abort(e, Err("store"))
    /\ faults' = faults + 1
    /\ UNCHANGED <<infos, vals, known, program, restarts, buildVars>>

BuildFails(e) ==
    /\ faults < MaxFaults
    /\ faults' = faults + 1
    /\ BuildFault(e)
    /\ UNCHANGED <<infos, program, pc, vals, known, stack, answer, restarts>>

(* The evaluator is killed; the server drops its call. *)
Killed(e) ==
    /\ ~Idle(e)
    /\ Die(e)
    /\ Cancel(e)
    /\ UNCHANGED infos

(* It is run again after an evaluation that ended. *)
RunAgain(e) ==
    /\ Idle(e) /\ pc[e] > Len(program[e])
    /\ Die(e)
    /\ UNCHANGED <<infos, buildVars>>

Serve(e) == BuildStep(e) /\ UNCHANGED evalVars
OrphanDone == OrphanExits /\ UNCHANGED evalVars

Builtin(e) == CallDerivation(e) \/ CallToFile(e) \/ CallPath(e) \/ CallFetch(e)
Step(e) == \/ Read(e) \/ Lookup(e) \/ Fetch(e) \/ NextInput(e) \/ Request(e) \/ BuildDone(e)
           \/ PutOutput(e)

Next == \/ \E e \in Clients : \/ Builtin(e) \/ Step(e) \/ Serve(e)
                              \/ StoreFails(e) \/ BuildFails(e) \/ Killed(e) \/ RunAgain(e)
        \/ OrphanDone

Spec == Init /\ [][Next]_vars /\ \A e \in Clients : WF_vars(Step(e) \/ Serve(e))
=============================================================================
