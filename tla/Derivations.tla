------------------------------ MODULE Derivations ------------------------------
(***************************************************************************)
(* Store paths, derivations and the table of paths an evaluation knows how *)
(* to produce (nix-compat store_path/utils.rs and derivation/, glue        *)
(* known_paths.rs, fetchurl.rs, builtins/derivation.rs).                   *)
(*                                                                         *)
(* A digest is the term it was computed from, so that two digests are      *)
(* equal exactly when what was hashed is; a term of the dictionary, an     *)
(* injective function to names, is written as its name there, which keeps  *)
(* the states small.  Every such term is a tuple                           *)
(* whose first component is a tag.  A text is a sequence of fragments      *)
(* <<"lit", s>>, <<"path", store path>> and <<"hash", algo, what, sri>>.   *)
(* A Nix value is <<"str", text, context>>, <<"path", p>>, <<"list", vs>>, *)
(* <<"bool", b>>, <<"null">> or <<"catchable", kind>>.                     *)
(***************************************************************************)
EXTENDS Naturals, FiniteSets, SequencesExt

CONSTANTS NameOrder,            \* the attribute and output names, in byte order
          HashesSortLikeNames,  \* do the digests of a derivation's outputs sort like their names?
          HostFiles             \* the host's files: path -> node

ASSUME HashesSortLikeNames \in BOOLEAN

None == <<"none">>
Ok(x) == <<"ok", x>>
Err(e) == <<"err", e>>
Catch(k) == <<"catchable", k>>
IsOk(r) == r[1] = "ok"

Digest(dict, t) == IF t \in DOMAIN dict THEN dict[t] ELSE t

(* F(x), with x evaluated first. *)
With(x, F(_)) == CHOOSE y \in {F(z) : z \in {x}} : TRUE

(* The elements of S, a set of names, in the order of a BTreeMap. *)
Sorted(S) == SelectSeq(NameOrder, LAMBDA n : n \in S)

-----------------------------------------------------------------------------
(* Store paths: <<"sp", fingerprint type, inner digest, <<base, suffix>>>>. *)

ValidName(name) == name[1] \notin {"", "not/valid"}

BuildStorePath(ty, inner, name) ==
    IF ValidName(name) THEN Ok(<<"sp", ty, inner, name>>) ELSE Err("InvalidStorePath")

(* A content address is <<mode, nix hash>>, a nix hash <<algorithm, what was hashed>>. *)
IsNarSha256(ca) == ca[1] = "nar" /\ ca[2][1] = "sha256"

BuildCaPath(name, ca, refs, selfRef) ==
    IF selfRef /\ IsNarSha256(ca) THEN Err("InvalidReference")
    ELSE IF ca[1] = "text" THEN BuildStorePath(<<"text", refs>>, ca[2], name)
    ELSE IF IsNarSha256(ca) THEN BuildStorePath(<<"source", refs, selfRef>>, ca[2], name)
    ELSE IF refs # {} THEN Err("InvalidReference")
    ELSE BuildStorePath(<<"output", "out">>, <<"fixed:out", ca[1], ca[2]>>, name)

BuildTextPath(name, content, refs) == BuildCaPath(name, <<"text", <<"sha256", content>>>>, refs, FALSE)

BuildOutputPath(modulo, output, name) ==
    BuildStorePath(<<"output", output>>, <<"modulo", modulo>>, name)

PathName(p) == p[4]
IsDrvPath(p) == PathName(p)[2] = ".drv"

-----------------------------------------------------------------------------
(* Derivations: records with the fields of the struct; outputs maps output  *)
(* names to [path, ca], each None when unset.                               *)

UnsetOutput == [path |-> None, ca |-> None]

NewDerivation == [arguments |-> <<>>, builder |-> <<>>, environment |-> [k \in {} |-> <<>>],
                  inputDrvs |-> [p \in {} |-> {}], inputSrcs |-> {},
                  outputs |-> [o \in {"out"} |-> UnsetOutput], system |-> <<>>]

IsFixed(output) == output.ca # None

FodDigest(drv) ==
    IF DOMAIN drv.outputs = {"out"} /\ IsFixed(drv.outputs["out"])
    THEN <<"fod", drv.outputs["out"].ca, drv.outputs["out"].path>> ELSE None

(* The ATerm, with inputDrvs in the place of the derivation's own. *)
ATerm(drv, inputDrvs) == <<"drv", [drv EXCEPT !.inputDrvs = <<>>], inputDrvs>>

(* The map keyed by the modulo digests of the inputs: of two inputs with one *)
(* digest the later in path order stays (digests are in no meaningful order). *)
ReplacedInputs(drv, modulo) ==
    [h \in {modulo[p] : p \in DOMAIN drv.inputDrvs} |->
        drv.inputDrvs[CHOOSE p \in DOMAIN drv.inputDrvs : modulo[p] = h]]

(* Mutant: the environment is left out of what is hashed. *)
HashDerivationModulo_NoEnv(drv, modulo, dict) ==
    IF FodDigest(drv) # None THEN FodDigest(drv)
    ELSE Digest(dict, ATerm([drv EXCEPT !.environment = <<>>], ReplacedInputs(drv, modulo)))

HashDerivationModulo(drv, modulo, dict) ==
    IF FodDigest(drv) # None THEN FodDigest(drv)
    ELSE Digest(dict, ATerm(drv, ReplacedInputs(drv, modulo)))

OutputPathName(name, output) == <<name, IF output = "out" THEN "" ELSE "-" \o output>>

OutputPath(drv, name, modulo, o) ==
    IF IsFixed(drv.outputs[o])
    THEN BuildCaPath(OutputPathName(name, o), drv.outputs[o].ca, {}, FALSE)
    ELSE BuildOutputPath(modulo, o, OutputPathName(name, o))

CalculateOutputPaths(drv, name, modulo) ==
    LET path == [o \in DOMAIN drv.outputs |-> OutputPath(drv, name, modulo, o)] IN
    IF \E o \in DOMAIN path : ~IsOk(path[o]) THEN Err("InvalidOutputDerivationPath")
    ELSE Ok([drv EXCEPT
               !.outputs = [o \in DOMAIN @ |-> [@[o] EXCEPT !.path = path[o][2]]],
               !.environment = [k \in DOMAIN @ \cup DOMAIN path |->
                                  IF k \in DOMAIN path THEN <<<<"path", path[k][2]>>>> ELSE @[k]]])

CalculateDerivationPath(drv, name, dict) ==
    LET r == BuildTextPath(<<name, ".drv">>, Digest(dict, ATerm(drv, drv.inputDrvs)),
                           drv.inputSrcs \cup DOMAIN drv.inputDrvs)
    IN IF IsOk(r) THEN r ELSE Err("InvalidOutputName")

ValidOutputName(o) == o \notin {"", "drv"} /\ ValidName(<<o, "">>)

OutputFault(output, paths) ==
    IF IsFixed(output) /\ output.ca[1] \notin {"flat", "nar"} THEN "InvalidCAHash"
    ELSE IF paths /\ output.path = None THEN "MissingOutputPath" ELSE "ok"

(* Derivation::validate: "ok" or the error. *)
Validate(drv, paths) ==
    LET outs == DOMAIN drv.outputs IN
    IF outs = {} THEN "NoOutputs"
    ELSE IF \E o \in outs : ~ValidOutputName(o) THEN "InvalidOutputName"
    ELSE IF \E o \in outs : IsFixed(drv.outputs[o]) /\ Cardinality(outs) # 1 THEN "MoreThanOneOutputButFixed"
    ELSE IF \E o \in outs : IsFixed(drv.outputs[o]) /\ o # "out" THEN "InvalidOutputNameForFixed"
    ELSE IF \E o \in outs : OutputFault(drv.outputs[o], paths) # "ok" THEN "InvalidOutput"
    ELSE IF \E p \in DOMAIN drv.inputDrvs : ~IsDrvPath(p) THEN "InvalidInputDerivationPrefix"
    ELSE IF \E p \in DOMAIN drv.inputDrvs : drv.inputDrvs[p] = {} THEN "EmptyInputDerivationOutputNames"
    ELSE IF \E p \in DOMAIN drv.inputDrvs : \E o \in drv.inputDrvs[p] : ~ValidOutputName(o)
         THEN "InvalidInputDerivationOutputName"
    ELSE IF drv.system = <<>> THEN "InvalidPlatform"
    ELSE IF drv.builder = <<>> THEN "InvalidBuilder"
    ELSE IF "" \in DOMAIN drv.environment THEN "InvalidEnvironmentKey" ELSE "ok"

-----------------------------------------------------------------------------
(* Fetches: <<kind, url, expected hash or None>>. *)

FetchStorePath(fetch, name) ==
    IF fetch[3] = None THEN Ok(None)
    ELSE BuildCaPath(<<name, "">>, <<IF fetch[1] = "URL" THEN "flat" ELSE "nar", fetch[3]>>, {}, FALSE)

LitOf(text) == IF text = <<>> THEN "" ELSE text[1][2]

(* fetchurl_derivation_to_fetch: <<name, fetch>> of a builtin:fetchurl derivation. *)
FetchurlDerivationToFetch(drv) ==
    LET env == drv.environment IN
    IF drv.arguments # <<>> THEN Err("ArgumentsInvalid")
    ELSE IF LitOf(drv.system) # "builtin" THEN Err("SystemInvalid")
    ELSE IF FodDigest(drv) = None THEN Err("NoFOD")
    ELSE IF "name" \notin DOMAIN env THEN Err("NameMissing")
    ELSE IF "url" \notin DOMAIN env THEN Err("URLMissing")
    ELSE LET ca == drv.outputs["out"].ca
             kind == IF ca[1] = "flat" THEN "URL"
                     ELSE IF "executable" \in DOMAIN env /\ LitOf(env["executable"]) = "1"
                          THEN "Executable" ELSE "NAR"
         IN Ok(<<LitOf(env["name"]), <<kind, LitOf(env["url"]), ca[2]>>>>)

-----------------------------------------------------------------------------
(* KnownPaths. *)

NoKnownPaths == [drvs |-> [p \in {} |-> None], modulo |-> [p \in {} |-> None],
                 outputsToDrv |-> [p \in {} |-> None], outputsToFetch |-> [p \in {} |-> None]]

Put(f, k, v) == [x \in DOMAIN f \cup {k} |-> IF x = k THEN v ELSE f[x]]
PutNew(f, S, v) == [x \in DOMAIN f \cup S |-> IF x \in DOMAIN f THEN f[x] ELSE v]

OutputPaths(drv) == {drv.outputs[o].path : o \in DOMAIN drv.outputs}

AddDerivation(known, drvPath, drv, dict) ==
    [known EXCEPT !.drvs = Put(@, drvPath, drv),
                  !.modulo = Put(@, drvPath, HashDerivationModulo(drv, @, dict)),
                  !.outputsToDrv = PutNew(@, OutputPaths(drv), drvPath)]

AddFetch(known, name, fetch) ==
    [known EXCEPT !.outputsToFetch = Put(@, FetchStorePath(fetch, name)[2], <<name, fetch>>)]

-----------------------------------------------------------------------------
(* String coercion as the builtins request it: strong, importing paths. *)

NarSha256(node) == <<"sha256", <<"nar", node>>>>

(* EvalIO::import_path: the store path of a host file's copy. *)
ImportPath(p) ==
    IF p \notin DOMAIN HostFiles THEN Err("NotFound")
    ELSE BuildCaPath(<<p[2], "">>, <<"nar", NarSha256(HostFiles[p])>>, {}, FALSE)

CoerceOne(v) ==
    CASE v[1] = "str"  -> v
      [] v[1] = "null" -> <<"str", <<>>, {}>>
      [] v[1] = "bool" -> <<"str", IF v[2] THEN <<<<"lit", "1">>>> ELSE <<>>, {}>>
      [] v[1] = "path" -> LET r == ImportPath(v[2]) IN
                          IF IsOk(r) THEN <<"str", <<<<"path", r[2]>>>>, {<<"Plain", r[2]>>}>> ELSE r
      [] OTHER         -> v

IsStr(v) == v[1] = "str"

(* The elements of a list joined by spaces; the first that cannot be coerced wins. *)
CoerceList(vs) ==
    LET bad == SelectSeq(vs, LAMBDA v : ~IsStr(v))
        text == FoldSeq(LAMBDA v, acc : IF acc = <<>> THEN v[2] ELSE v[2] \o <<<<"lit", " ">>>> \o acc,
                        <<>>, vs)
    IN IF bad # <<>> THEN bad[1] ELSE <<"str", text, UNION {vs[i][3] : i \in DOMAIN vs}>>

CoerceToString(v) ==
    IF v[1] = "list" THEN CoerceList([i \in DOMAIN v[2] |-> CoerceOne(v[2][i])]) ELSE CoerceOne(v)

(* The contextful JSON of a value. *)
JsonContext(v) ==
    IF v[1] = "str" THEN v[3] ELSE IF v[1] = "list" THEN UNION {v[2][i][3] : i \in DOMAIN v[2]} ELSE {}

-----------------------------------------------------------------------------
(* builtins.derivationStrict *)

STRUCTURED_ATTRS == "__structuredAttrs"
IGNORE_NULLS == "__ignoreNulls"

Flag(input, a) == IF a \in DOMAIN input THEN input[a] ELSE <<"bool", FALSE>>

(* What the argument loop makes of argument a: the value itself, what stops  *)
(* the call, or (for outputs and args) the list.                            *)
ArgOutcome(input, a, structured) ==
    LET v == input[a] IN
    IF a = "args" THEN IF v[1] # "list" THEN Err("TypeError") ELSE CoerceToString(v)
    ELSE IF a = "outputs"
         THEN IF v[1] # "list" \/ \E i \in DOMAIN v[2] : ~IsStr(v[2][i]) THEN Err("TypeError")
              ELSE IF \E i, j \in DOMAIN v[2] : i # j /\ LitOf(v[2][i][2]) = LitOf(v[2][j][2])
                   THEN Err("DuplicateOutput")
              ELSE CoerceList(v[2])
    ELSE IF a \in {"builder", "system"} \/ ~structured THEN CoerceToString(v)
    ELSE IF v[1] = "catchable" THEN v ELSE <<"str", <<<<"json", v>>>>, JsonContext(v)>>

(* The arguments that reach the derivation. *)
SeenArgs(input, ignoreNulls, structured) ==
    {a \in DOMAIN input : /\ ~(ignoreNulls /\ input[a] = <<"null">>)
                          /\ a # IGNORE_NULLS
                          /\ ~(a = STRUCTURED_ATTRS /\ structured)}

SelectString(input, a) == IF a \in DOMAIN input THEN CoerceToString(input[a]) ELSE None

(* nixhash::from_str on the hash texts of the model. *)
ParseHash(text, algo) ==
    IF Len(text) # 1 THEN Err("InvalidOutputHash")
    ELSE IF text[1][1] # "hash" THEN Err("InvalidOutputHash")
    ELSE LET h == text[1] IN
         IF algo # "" /\ algo # h[2] THEN Err("InvalidOutputHash")
         ELSE IF algo = "" /\ ~h[4] THEN Err("InvalidOutputHash")
         ELSE Ok(<<h[2], h[3]>>)

HandleFixedOutput(drv, hash, algo, mode) ==
    IF hash = None THEN Ok(drv)
    ELSE LET h == ParseHash(hash[2], IF algo = None THEN "" ELSE LitOf(algo[2]))
             m == IF mode = None THEN "flat" ELSE LitOf(mode[2])
         IN IF ~IsOk(h) THEN h
            ELSE IF m \notin {"flat", "recursive"} THEN Err("InvalidOutputHashMode")
            ELSE Ok([drv EXCEPT !.outputs = Put(@, "out", [path |-> None,
                         ca |-> <<IF m = "flat" THEN "flat" ELSE "nar", h[2]>>])])

ContextDrvs(context) == {c[3] : c \in {d \in context : d[1] = "Single"}}
                          \cup {c[2] : c \in {d \in context : d[1] = "Derivation"}}

PopulateInputs(drv, context, known) ==
    [drv EXCEPT
       !.inputSrcs = {c[2] : c \in {d \in context : d[1] \in {"Plain", "Derivation"}}},
       !.inputDrvs = [p \in ContextDrvs(context) |->
            {c[2] : c \in {d \in context : d[1] = "Single" /\ d[3] = p}}
              \cup IF <<"Derivation", p>> \in context THEN DOMAIN known.drvs[p].outputs ELSE {}]]

(* The derivation the arguments describe, before its inputs are known. *)
FromArguments(input, seen, structured) ==
    LET str == [a \in seen |-> ArgOutcome(input, a, structured)]
        names == IF "outputs" \in seen THEN {LitOf(v[2]) : v \in ToSet(input["outputs"][2])} ELSE {"out"}
        env == IF structured THEN {} ELSE seen \ {"args"}
    IN [NewDerivation EXCEPT
          !.arguments = IF "args" \in seen
                        THEN [i \in DOMAIN input["args"][2] |-> CoerceOne(input["args"][2][i])[2]] ELSE <<>>,
          !.builder = IF "builder" \in seen THEN str["builder"][2] ELSE <<>>,
          !.system = IF "system" \in seen THEN str["system"][2] ELSE <<>>,
          !.outputs = [o \in names |-> UnsetOutput],
          !.environment = [a \in env |-> str[a][2]]]

(* Every output is an (empty) variable; structured attributes become __json. *)
WithOutputVariables(drv, seen, input, structured) ==
    LET outs == DOMAIN drv.outputs
        json == IF structured THEN {"__json"} ELSE {} IN
    [drv EXCEPT !.environment = [k \in DOMAIN @ \cup outs \cup json |->
        IF k \in json THEN <<<<"json", [a \in seen \ {"args"} |-> input[a]]>>>>
        ELSE IF k \in outs THEN <<>> ELSE @[k]]]

(* The attribute set returned. *)
ResultAttrs(drvPath, drv) ==
    [o \in DOMAIN drv.outputs \cup {"drvPath"} |->
        IF o = "drvPath" THEN <<"str", <<<<"path", drvPath>>>>, {<<"Derivation", drvPath>>}>>
        ELSE <<"str", <<<<"path", drv.outputs[o].path>>>>, {<<"Single", o, drvPath>>}>>]

(* Registration of a derivation whose paths are known. *)
Registered(drv, path, known, dict) ==
    LET isFetch == LitOf(drv.builder) = "builtin:fetchurl"
        fetch == FetchurlDerivationToFetch(drv)
        fetches == IF isFetch THEN AddFetch(known, fetch[2][1], fetch[2][2]) ELSE known
    IN IF isFetch /\ ~IsOk(fetch) THEN fetch
       ELSE Ok([value |-> ResultAttrs(path, drv), known |-> AddDerivation(fetches, path, drv, dict)])

(* Validation, path calculation and registration of a complete derivation. *)
Register(drv, name, known, dict) ==
    IF Validate(drv, FALSE) # "ok" THEN Err(Validate(drv, FALSE))
    ELSE With(CalculateOutputPaths(drv, name, HashDerivationModulo(drv, known.modulo, dict)), LAMBDA out :
           IF ~IsOk(out) THEN out
           ELSE With(CalculateDerivationPath(out[2], name, dict), LAMBDA path :
                  IF ~IsOk(path) THEN path ELSE Registered(out[2], path[2], known, dict)))

(* The arguments coerced before the first that stops the call. *)
CoercedArgs(input) ==
    LET ignore == Flag(input, IGNORE_NULLS)
        structured == Flag(input, STRUCTURED_ATTRS)
        order == Sorted(SeenArgs(input, ignore[2], structured[2]))
        bad == SelectInSeq(order, LAMBDA a : ~IsStr(ArgOutcome(input, a, structured[2])))
    IN IF ~IsStr(input["name"]) \/ input["name"][2] = <<>> \/ ignore[1] # "bool" \/ structured[1] # "bool"
       THEN {} ELSE ToSet(IF bad = 0 THEN order ELSE SubSeq(order, 1, bad))

DerivationStrict(input, known, dict) ==
    LET name == input["name"]
        ignore == Flag(input, IGNORE_NULLS)
        structuredFlag == Flag(input, STRUCTURED_ATTRS)
        structured == structuredFlag[2]
        seen == SeenArgs(input, ignore[2], structured)
        bad == SelectSeq(Sorted(seen), LAMBDA a : ~IsStr(ArgOutcome(input, a, structured)))
        fixed == [a \in {"outputHash", "outputHashAlgo", "outputHashMode"} |-> SelectString(input, a)]
        badFixed == SelectSeq(<<"outputHash", "outputHashAlgo", "outputHashMode">>,
                              LAMBDA a : fixed[a] # None /\ ~IsStr(fixed[a]))
        args == FromArguments(input, seen, structured)
        drv == HandleFixedOutput(args, fixed["outputHash"], fixed["outputHashAlgo"], fixed["outputHashMode"])
        context == UNION {ArgOutcome(input, a, structured)[3] : a \in seen}
    IN IF name[1] = "catchable" THEN name
       ELSE IF ~IsStr(name) THEN Err("TypeError")
       ELSE IF name[2] = <<>> THEN Err("Abort")
       ELSE IF ignore[1] # "bool" \/ structuredFlag[1] # "bool" THEN Err("TypeError")
       ELSE IF bad # <<>> THEN ArgOutcome(input, bad[1], structured)
       ELSE IF badFixed # <<>> THEN fixed[badFixed[1]]
       ELSE IF ~IsOk(drv) THEN drv
       ELSE With(WithOutputVariables(drv[2], seen, input, structured), LAMBDA d :
              With(context, LAMBDA ctx :
                With(PopulateInputs(d, ctx, known), LAMBDA complete :
                  Register(complete, LitOf(name[2]), known, dict))))
=============================================================================
