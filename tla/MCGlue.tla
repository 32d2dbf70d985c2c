--------------------------------- MODULE MCGlue ---------------------------------
(***************************************************************************)
(* Two evaluators that share a store and a build server with one permit.    *)
(***************************************************************************)
EXTENDS StoreIO

CONSTANTS e1, e2

MCNameOrder == <<"__ignoreNulls", "__structuredAttrs", "args", "bad=key", "builder", "dev", "executable",
                 "name", "out", "outputHash", "outputHashAlgo", "outputHashMode", "outputs",
                 "passAsFile", "src", "system", "text", "url">>

MCHostFiles == [p \in {<<"host", "tree">>} |->
    <<"dir", [n \in {"dev", "out"} |-> IF n = "dev" THEN <<"file", <<"lit", "h">>, TRUE>>
                                       ELSE <<"dir", [m \in {"src"} |-> <<"symlink", "x">>]>>]>>]

Lit(s) == <<"str", <<<<"lit", s>>>>, {}>>
HashText(h) == <<"str", <<<<"hash", h[1], h[2], TRUE>>>>, {}>>
Strings(names) == <<"list", [i \in DOMAIN names |-> Lit(names[i])]>>

Right == <<"lit", "served to builders">>
Wrong == <<"lit", "something else">>
Unpacked == <<"dir", [n \in {"src"} |-> <<"file", Right, FALSE>>]>>
Chunk(chunks, compression, content, unpacked) ==
    [chunks |-> chunks, compression |-> compression, content |-> content, unpacked |-> unpacked]

MCServed == [u \in {"u", "t", "n"} |->
    CASE u = "u" -> {Chunk(<<6>>, "none", Right, None), Chunk(<<6>>, "none", Wrong, None)}
      [] u = "t" -> {Chunk(<<6>>, "gzip", Right, Unpacked), Chunk(<<6>>, "none", Right, Unpacked),
                     Chunk(<<2, 6>>, "xz", Right, Unpacked)}
      [] u = "n" -> {Chunk(<<6>>, "bzip2", Right, Unpacked), Chunk(<<6>>, "xz", Wrong, MCHostFiles[<<"host", "tree">>])}]

Args(name) == [a \in {"name", "builder", "system"} |->
                 IF a = "name" THEN Lit(name) ELSE IF a = "builder" THEN Lit("sh") ELSE Lit("linux")]
Drv(x, name, more) == <<"derivation", x, Override(Args(name), more)>>
ReadOp(op, x, attr, sub) == <<"read", op, x, attr, sub>>

FixedArgs(hash, mode) == [a \in {"outputHash", "outputHashMode"} |->
                            IF a = "outputHash" THEN HashText(hash) ELSE Lit(mode)]

(* A file by builtin:fetchurl, and the same file by a builder of its own. *)
ByFetchurl(mode, url, hash, exec) ==
    Drv("f", "f", Override(FixedArgs(hash, mode),
        [a \in {"builder", "system", "url"} \cup (IF exec THEN {"executable"} ELSE {}) |->
           IF a = "builder" THEN Lit("builtin:fetchurl") ELSE IF a = "system" THEN Lit("builtin")
           ELSE IF a = "url" THEN Lit(url) ELSE <<"bool", TRUE>>]))
ByBuilder == Drv("f", "f", FixedArgs(FlatHash("sha256", Right), "flat"))

(* Two outputs and a source of a text; a derivation that uses one of them and the file. *)
TheText == <<"toFile", "t", "t", Lit("hello")>>
TwoOutputs == Drv("a", "a", [a \in {"outputs", "src"} |->
                 IF a = "outputs" THEN Strings(<<"out", "dev">>) ELSE <<"ref", "t", "path">>])
UserOf(attr) == Drv("b", "b", [a \in {"src", "text", "passAsFile"} |->
                   IF a = "src" THEN <<"list", <<<<"ref", "a", attr>>, <<"ref", "f", "out">>>>>>
                   ELSE IF a = "text" THEN Lit("contents") ELSE Strings(<<"text">>)])
Simple(name, more) == Drv(name, name, more)
NoMore == [a \in {} |-> Lit("")]

FetchFile == ByFetchurl("flat", "u", FlatHash("sha256", Right), FALSE)
Deep(file) == <<TheText, TwoOutputs, file, UserOf("dev"), ReadOp("file_type", "b", "out", <<"f">>)>>

Small == <<
    <<ByFetchurl("recursive", "n", NarHash("sha256", Unpacked), FALSE), ReadOp("read_dir", "f", "out", <<>>)>>,
    <<ByFetchurl("recursive", "u", NarHash("sha512", <<"file", Right, TRUE>>), TRUE), ReadOp("open", "f", "out", <<>>)>>,
    <<<<"fetchurl", "f", <<"attrs", [a \in {"url", "sha256"} |->
         IF a = "url" THEN Lit("u") ELSE HashText(FlatHash("sha256", Right))]>>>>,
      ReadOp("open", "f", "path", <<>>)>>,
    <<<<"fetchTarball", "f", Lit("t")>>, ReadOp("storePath", "f", "path", <<"src">>)>>,
    <<<<"path", "p", [path |-> <<"host", "tree">>, name |-> <<"name", "p">>, filter |-> <<"filter", {<<"dev">>}>>,
                      recursive |-> TRUE, sha256 |-> None]>>, ReadOp("read_dir", "p", "path", <<"out">>)>>,
    <<Simple("c", [a \in {"src"} |-> <<"path", <<"host", "tree">>>>]), ReadOp("path_exists", "c", "out", <<>>)>>,
    <<Simple("c", [a \in {"outputs"} |-> Strings(<<"dev">>)]), ReadOp("open", "c", "dev", <<>>)>>,
    <<Simple("c", [a \in {"passAsFile"} |-> Strings(<<"src">>)]), ReadOp("open", "c", "out", <<>>)>>,
    <<Simple("c", [a \in {"bad=key"} |-> Lit("v")]), ReadOp("open", "c", "out", <<>>)>>,
    <<Simple("c", NoMore), Simple("b", [a \in {"src"} |-> <<"ref", "c", "drvPath">>]),
      ReadOp("open", "b", "out", <<>>)>> >>

(* Same name and inputs, another environment. *)
Variant(text) == <<Simple("c", [a \in {"text"} |-> Lit(text)]), ReadOp("path_exists", "c", "out", <<>>)>>

Alone(p) == [e \in {e1, e2} |-> IF e = e1 THEN p ELSE <<>>]
Both(p, q) == [e \in {e1, e2} |-> IF e = e1 THEN p ELSE q]

MCWorkloads == {Alone(Small[i]) : i \in DOMAIN Small} \cup {Both(Variant("1"), Variant("2")),
                   Both(Deep(FetchFile), Deep(ByBuilder))}
OneBuild == {Alone(Deep(FetchFile))}

(* The dictionary: the terms hashed when the programs are run one after the  *)
(* other.                                                                   *)
Masked(drv) == [drv EXCEPT !.outputs = [o \in DOMAIN @ |-> [@[o] EXCEPT !.path = None]],
                           !.environment = [k \in DOMAIN @ |-> IF k \in DOMAIN drv.outputs THEN <<>> ELSE @[k]]]

Distinct(dict, t) ==
    IF t \in DOMAIN dict THEN dict ELSE Put(dict, t, <<"digest", Cardinality(DOMAIN dict)>>)

ValueIn(vs, v) == IF v[1] = "ref" THEN vs[v[2]][v[3]] ELSE v
ValuesIn(vs, args) == [a \in DOMAIN args |->
    IF args[a][1] = "list" THEN <<"list", [i \in DOMAIN args[a][2] |-> ValueIn(vs, args[a][2][i])]>>
    ELSE ValueIn(vs, args[a])]

DrvIn(r) == r[2].known.drvs[r[2].value["drvPath"][2][1][2]]

HashedBy(run, x, input) ==
    LET modulo(drv) == ATerm(Masked(drv), ReplacedInputs(drv, run.known.modulo))
        terms(dict, drv) == Distinct(Distinct(dict, ATerm(drv, ReplacedInputs(drv, run.known.modulo))),
                                     ATerm(drv, drv.inputDrvs))
        result(dict, r) == [dict |-> dict, known |-> r[2].known, vs |-> Put(run.vs, x, r[2].value)]
        strict(dict) == DerivationStrict(input, run.known, dict)
    IN With(strict(run.dict), LAMBDA r1 : With(Distinct(run.dict, modulo(DrvIn(r1))), LAMBDA d1 :
       With(strict(d1), LAMBDA r2 : With(terms(d1, DrvIn(r2)), LAMBDA d2 :
       With(strict(d2), LAMBDA r3 : result(d2, r3))))))

RunOp(run, op) ==
    IF op[1] = "derivation" THEN HashedBy(run, op[2], ValuesIn(run.vs, op[3]))
    ELSE IF op[1] = "toFile"
    THEN [run EXCEPT !.vs = Put(@, op[2], [x \in {"path"} |-> PlainValue(ToFile(op[3], op[4])[2].path)])]
    ELSE run

RunProgram(dict, p) ==
    FoldLeft(LAMBDA run, op : With(run, LAMBDA r : RunOp(r, op)),
             [dict |-> dict, known |-> NoKnownPaths, vs |-> [x \in {} |-> None]], p).dict

MCDictionary ==
    FoldLeft(LAMBDA dict, p : With(dict, LAMBDA d : RunProgram(d, p)), [t \in {} |-> None],
             Small \o <<Deep(FetchFile), Deep(ByBuilder), Variant("1"), Variant("2")>>)

EveryNaming == {"named", "anonymous"}
OnlyNamed == {"named"}

-----------------------------------------------------------------------------
(* Properties *)

IsFixedPath(p) == p[2][1] # "output" \/ p[3][1] = "fixed:out"
Addressed(info) ==
    CASE info.ca[1] = "flat" -> info.ca[2] = FlatHash(info.ca[2][1], info.node[2])
      [] info.ca[1] = "nar" -> info.ca[2] = NarHash(info.ca[2][1], info.node)
      [] info.ca[1] = "text" -> info.ca[2] = FlatHash("sha256", info.node[2])

(* What was fetched or imported is stored below the path of its own contents *)
(* (ingest_and_persist, import_helper, toFile): whatever the server sends,   *)
(* and whoever puts it.  A reference recorded with a path is to a stored     *)
(* path, or to another output of the same derivation, which a crash between  *)
(* two puts may leave out.  The hash and the size recorded are those of the  *)
(* node's NAR, but for an executable that was fetched with a sha256: it is   *)
(* recorded with the size of the file (fetchers/mod.rs, Fetch::Executable).  *)
FetchedExecutable(i) == i.deriver = None /\ i.node[1] = "file" /\ i.node[3] /\ IsNarSha256(i.ca)

StoreSound ==
    \A p \in DOMAIN infos :
        LET i == infos[p] IN
        /\ i.path = p /\ i.narSha256 = NarSha256(i.node)
        /\ i.narSize = NarSize(i.node) \/ (FetchedExecutable(i) /\ i.narSize = FileSize(i.node[2]))
        /\ i.deriver = None => Addressed(i) /\ BuildCaPath(PathName(p), i.ca, i.refs, FALSE) = Ok(p)
        /\ \A r \in i.refs : r \in DOMAIN infos \/ r[3] = p[3]

(* What is stored at a path never changes: evaluators that build the same     *)
(* path, with an input fetched by one and built by the other, after crashes   *)
(* between the puts of two outputs, agree on it (store_path_to_node,          *)
(* hash_derivation_modulo).                                                  *)
PathsStable ==
    [][\A p \in DOMAIN infos : p \in DOMAIN infos' /\ infos'[p].node = infos[p].node]_vars

(* While a build runs, every input of its derivation is visible read-only at  *)
(* its path, every output is in the writable scratch space it is ingested     *)
(* from, and a variable passed as a file is not set but among the request's   *)
(* files, with its value (derivation_to_build_request, make_spec,             *)
(* get_host_output_paths).                                                   *)
SandboxRight ==
    \A e \in Clients :
        (builds[e] # None /\ builds[e][1] \in {"run", "exited"}) =>
            LET r == builds[e][2]
                drv == DrvOf(e)
                needed == ToSet(InputPaths(drv, known[e]))
                asFile == IF "passAsFile" \in DOMAIN drv.environment
                          THEN ToSet(SplitSpaces(drv.environment["passAsFile"])) ELSE {}
            IN /\ \A p \in needed : MountAt(MakeSpec(r), InStore(p)) = <<<<"input", p>>, InStore(p), "ro">>
               /\ \A p \in OutputPaths(drv) :
                     MountAt(MakeSpec(r), InStore(p))[1] = <<"scratch", HostOutputPath(r, InStore(p))[2]>>
               /\ \A x \in asFile : /\ x \notin DOMAIN r.environment_vars
                                    /\ \E f \in DOMAIN r.additional_files :
                                          r.additional_files[f] = drv.environment[x]

(* Every request ends, though builds wait for each other's permit and start   *)
(* builds of their inputs: no permit is held while waiting (store_path_to_node, do_build). *)
RequestsEnd == \A e \in Clients : (stack[e] # <<>>) ~> (stack[e] = <<>>)

(* tvix_store_io.rs: a build that succeeds gives the node asked for; the      *)
(* service names the nodes it returns.                                       *)
BuildGivesNode == \A e \in Clients : answer[e] # <<"panic", "invalid node">>
=============================================================================
