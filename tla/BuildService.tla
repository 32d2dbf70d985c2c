------------------------------ MODULE BuildService ------------------------------
(***************************************************************************)
(* Builds: the request made of a derivation (glue tvix_build.rs), its trip  *)
(* over gRPC (build proto/mod.rs, grpc.rs, grpc_buildservice_wrapper.rs),   *)
(* the sandbox it asks for (oci/spec.rs, oci/bundle.rs) and do_build of the *)
(* OCI builder (buildservice/oci.rs), which several clients share.           *)
(*                                                                          *)
(* A path in the sandbox is the sequence of its segments: Seg(name), a store *)
(* path (below nix/store) or the hash in the name of a passed file.           *)
(***************************************************************************)
EXTENDS StoreImports

CONSTANTS Clients,                \* the evaluators using the build service
          MAX_CONCURRENT_BUILDS,  \* permits of the semaphore
          Naming                  \* how a service may name the nodes it returns

ASSUME MAX_CONCURRENT_BUILDS \in Nat \ {0}
ASSUME Naming \subseteq {"named", "anonymous"}

VARIABLES builds,     \* client -> the do_build call it waits for, or None
          permits,    \* permits left in concurrent_builds
          queue,      \* callers waiting for a permit, first come first served
          children    \* number of runc processes alive

buildVars == <<builds, permits, queue, children>>

-----------------------------------------------------------------------------
(* derivation_to_build_request *)

Seg(name) == <<"seg", name>>

NIX_ENVIRONMENT_VARS == [k \in {"PATH"} |-> <<<<"lit", "/path-not-set">>>>]

Override(f, g) == [k \in DOMAIN f \cup DOMAIN g |-> IF k \in DOMAIN g THEN g[k] ELSE f[k]]
Without(f, k) == [x \in DOMAIN f \ {k} |-> f[x]]

(* passAsFile's text split at its spaces: an empty text is one empty name. *)
SplitSpaces(text) ==
    IF text = <<>> THEN <<"">>
    ELSE LET names == SelectSeq(text, LAMBDA t : t # <<"lit", " ">>) IN
         [i \in DOMAIN names |-> names[i][2]]

PassOne(r, x) ==
    IF ~IsOk(r) THEN r
    ELSE IF x \notin DOMAIN r[2].env THEN Err("passAsFile refers to non-existent env key")
    ELSE Ok([env |-> Put(Without(r[2].env, x), x \o "Path", <<<<"attr", x>>>>),
             files |-> Put(r[2].files, <<Seg("build"), <<"attr", x>>>>, r[2].env[x])])

HandlePassAsFile(env) ==
    LET start == Ok([env |-> env, files |-> [p \in {} |-> <<>>]]) IN
    IF "passAsFile" \notin DOMAIN env THEN start
    ELSE FoldLeft(PassOne, start, SplitSpaces(env["passAsFile"]))

(* The outputs' paths in the order of their names. *)
OutputsByName(drv) == [i \in DOMAIN Sorted(DOMAIN drv.outputs) |->
                          drv.outputs[Sorted(DOMAIN drv.outputs)[i]].path]

(* The same, sorted: digests are in an order of their own. *)
SortedOutputs(drv) == IF HashesSortLikeNames THEN OutputsByName(drv) ELSE Reverse(OutputsByName(drv))

GetRefscanNeedles(drv) ==
    OutputsByName(drv) \o SetToSeq(drv.inputSrcs) \o SetToSeq(DOMAIN drv.inputDrvs)

STORE_DIR == <<Seg("nix"), Seg("store")>>
InStore(p) == Append(STORE_DIR, p)

DerivationToBuildRequest(drv, inputs) ==
    LET r == HandlePassAsFile(Override(NIX_ENVIRONMENT_VARS, drv.environment))
        single == Cardinality(DOMAIN drv.outputs) = 1
        network == single /\ IsFixed(drv.outputs["out"])
    IN IF ~IsOk(r) THEN r
       ELSE IF single /\ "out" \notin DOMAIN drv.outputs THEN <<"panic", "Derivation has no out output">>
       ELSE Ok([command_args |-> <<drv.builder>> \o drv.arguments,
                environment_vars |-> r[2].env,
                additional_files |-> r[2].files,
                constraints |-> {<<"System", drv.system>>, <<"ProvideBinSh">>}
                                  \cup IF network THEN {<<"NetworkAccess">>} ELSE {},
                outputs |-> [i \in DOMAIN SortedOutputs(drv) |-> InStore(SortedOutputs(drv)[i])],
                inputs |-> inputs,
                inputs_dir |-> STORE_DIR,
                working_dir |-> <<Seg("build")>>,
                scratch_paths |-> <<<<Seg("build")>>, STORE_DIR>>,
                refscan_needles |-> GetRefscanNeedles(drv)])

-----------------------------------------------------------------------------
(* The request over gRPC: every path clean, no key empty or with a '=' (the  *)
(* model's one such key is "bad=key"), and what the message cannot say is    *)
(* filled in.                                                               *)
Clean(path) == ToSet(path) \cap {Seg(""), Seg("."), Seg("..")} = {}

ValidRequest(r) ==
    /\ Clean(r.working_dir) /\ Clean(r.inputs_dir)
    /\ \A i \in DOMAIN r.scratch_paths : Clean(r.scratch_paths[i])
    /\ \A i \in DOMAIN r.outputs : Clean(r.outputs[i])
    /\ DOMAIN r.environment_vars \cap {"", "bad=key"} = {}
    /\ \A c \in r.constraints : c[1] = "System" => c[2] # <<>>
    /\ \A p \in DOMAIN r.additional_files : Clean(p)

OverGrpc(r) ==
    IF ~ValidRequest(r) THEN Err("invalid build request")
    ELSE Ok([r EXCEPT !.constraints = @ \cup {<<"MinMemory", 0>>}])

-----------------------------------------------------------------------------
(* The sandbox: mounts are <<source, destination, mode>>, a later one hides  *)
(* an earlier one below its destination.                                     *)
HasConstraint(r, c) == \E d \in r.constraints : d[1] = c
StandardMounts == <<<<<<"proc">>, <<Seg("proc")>>, "rw">>, <<<<"tmpfs">>, <<Seg("tmp")>>, "rw">>>>
InputNames(r) == SetToSeq(DOMAIN r.inputs)
EtcFiles == <<"resolv.conf", "services", "hosts">>

ScratchMounts(r) == [i \in DOMAIN r.scratch_paths |->
                        <<<<"scratch", r.scratch_paths[i]>>, r.scratch_paths[i], "rw">>]
InputMounts(r) == [i \in DOMAIN InputNames(r) |->
                      <<<<"input", InputNames(r)[i]>>, Append(r.inputs_dir, InputNames(r)[i]), "ro">>]
ShellMount(r) == IF HasConstraint(r, "ProvideBinSh") THEN <<<<<<"shell">>, <<Seg("bin"), Seg("sh")>>, "ro">>>> ELSE <<>>
NetworkMounts(r) == IF HasConstraint(r, "NetworkAccess")
                    THEN [i \in 1..3 |-> <<<<"host">>, <<Seg("etc"), Seg(EtcFiles[i])>>, "ro">>] ELSE <<>>

(* Mutant: the inputs are mounted before the scratch paths. *)
ConfigureMounts_InputsFirst(r) ==
    StandardMounts \o InputMounts(r) \o ScratchMounts(r) \o ShellMount(r) \o NetworkMounts(r)

ConfigureMounts(r) ==
    StandardMounts \o ScratchMounts(r) \o InputMounts(r) \o ShellMount(r) \o NetworkMounts(r)

Namespaces(r) == {"pid", "ipc", "uts", "mount", "cgroup", "user"}
                   \cup IF HasConstraint(r, "NetworkAccess") THEN {} ELSE {"network"}

MakeSpec(r) == [args |-> r.command_args, env |-> r.environment_vars, cwd |-> r.working_dir,
                namespaces |-> Namespaces(r), mounts |-> ConfigureMounts(r)]

(* What a process sees at path: the last mount over it. *)
MountAt(spec, path) ==
    LET over == SelectSeq(spec.mounts, LAMBDA m : IsPrefix(m[2], path)) IN
    IF over = <<>> THEN None ELSE Last(over)

(* get_host_output_paths: where each output is found on the host, by the     *)
(* last scratch path above it; None when there is none.                      *)
HostOutputPath(r, out) ==
    LET i == SelectLastInSeq(r.scratch_paths, LAMBDA s : IsPrefix(s, out)) IN
    IF i = 0 THEN None
    ELSE <<"host", r.scratch_paths[i], SubSeq(out, Len(r.scratch_paths[i]) + 1, Len(out))>>

(* The builder (external): its files are a function of what it is given and  *)
(* sees; a build with network access yields what its source serves.          *)
Mentioned(env) == {t[2] : t \in {u \in UNION {ToSet(env[k]) : k \in DOMAIN env} : u[1] = "path"}}

Produced(r, path) ==
    IF HasConstraint(r, "NetworkAccess") THEN <<"file", <<"lit", "served to builders">>, FALSE>>
    ELSE <<"dir", [n \in {"f"} |-> <<"file", <<"built", r.command_args, r.environment_vars, r.inputs, path>>,
                                     FALSE>>]>>

ContainedPaths(r) == IF HasConstraint(r, "NetworkAccess") THEN {} ELSE Mentioned(r.environment_vars)

FoundNeedles(r) == {i \in DOMAIN r.refscan_needles : r.refscan_needles[i] \in ContainedPaths(r)}

(* The Build message: a node and the needles found for each output. *)
Response(r, naming) ==
    [outputs |-> [i \in DOMAIN r.outputs |->
        [name |-> IF naming = "named" THEN Last(r.outputs[i]) ELSE None,
         node |-> Produced(r, Last(r.outputs[i]))]],
     needles |-> [i \in DOMAIN r.outputs |-> FoundNeedles(r)]]

-----------------------------------------------------------------------------
(* do_build *)

BuildInit == /\ builds = [c \in Clients |-> None]
             /\ permits = MAX_CONCURRENT_BUILDS
             /\ queue = <<>>
             /\ children = 0

Building(c, stage) == builds[c] # None /\ builds[c][1] = stage
Holding == {c \in Clients : builds[c] # None /\ builds[c][1] \in {"mount", "run", "exited"}}

(* The call arrives and waits for a permit. *)
Submit(c, request) ==
    /\ builds' = [builds EXCEPT ![c] = <<"queued", request>>]
    /\ queue' = Append(queue, c)
    /\ UNCHANGED <<permits, children>>

(* The first in the queue gets a permit, writes its bundle and mounts its    *)
(* inputs, unless it could not find its outputs afterwards.                  *)
Acquire(c) ==
    /\ queue # <<>> /\ c = Head(queue) /\ permits > 0
    /\ queue' = Tail(queue)
    /\ LET r == builds[c][2] IN
       IF \E i \in DOMAIN r.outputs : HostOutputPath(r, r.outputs[i]) = None
       THEN builds' = [builds EXCEPT ![c] = <<"done", Err("unable to find path")>>] /\ UNCHANGED permits
       ELSE builds' = [builds EXCEPT ![c][1] = "mount"] /\ permits' = permits - 1
    /\ UNCHANGED children

(* The call ends: permit and mount are dropped. *)
Finish(c, result) ==
    /\ builds' = [builds EXCEPT ![c] = <<"done", result>>]
    /\ permits' = permits + 1
    /\ UNCHANGED queue

(* Mounted: runc is started. *)
Spawn(c) ==
    /\ Building(c, "mount")
    /\ builds' = [builds EXCEPT ![c][1] = "run"]
    /\ children' = children + 1
    /\ UNCHANGED <<permits, queue>>

(* Mutant: the permit of a call that cannot mount its inputs is not given back. *)
MountFails_LeakPermit(c) ==
    /\ Building(c, "mount")
    /\ builds' = [builds EXCEPT ![c] = <<"done", Err("mounting")>>]
    /\ UNCHANGED <<permits, queue, children>>

(* The FUSE daemon or runc cannot be started. *)
MountFails(c) ==
    /\ Building(c, "mount")
    /\ Finish(c, Err("mounting"))
    /\ UNCHANGED children

(* The process exits. *)
ChildExits(c) ==
    /\ Building(c, "run")
    /\ builds' = [builds EXCEPT ![c][1] = "exited"]
    /\ children' = children - 1
    /\ UNCHANGED <<permits, queue>>

ChildFails(c) ==
    /\ Building(c, "run")
    /\ Finish(c, Err("nonzero exit code"))
    /\ children' = children - 1

(* The outputs are ingested and scanned, all at once. *)
IngestOutputs(c) ==
    /\ Building(c, "exited")
    /\ \E naming \in Naming : Finish(c, Ok(Response(builds[c][2], naming)))
    /\ UNCHANGED children

(* An output is not there. *)
IngestFails(c) ==
    /\ Building(c, "exited")
    /\ Finish(c, Err("Unable to ingest output"))
    /\ UNCHANGED children

(* The caller takes the result. *)
Taken(c) == /\ builds' = [builds EXCEPT ![c] = None]
            /\ UNCHANGED <<permits, queue, children>>

(* The caller goes away and its call is dropped, with permit and mount; the  *)
(* process runs on.                                                         *)
Cancel(c) ==
    /\ builds' = [builds EXCEPT ![c] = None]
    /\ permits' = IF c \in Holding THEN permits + 1 ELSE permits
    /\ queue' = SelectSeq(queue, LAMBDA d : d # c)
    /\ UNCHANGED children

(* A process nobody waits for exits. *)
OrphanExits ==
    /\ children > Cardinality({c \in Clients : Building(c, "run")})
    /\ children' = children - 1
    /\ UNCHANGED <<builds, permits, queue>>

(* One step of the call of c. *)
BuildStep(c) == Acquire(c) \/ Spawn(c) \/ ChildExits(c) \/ IngestOutputs(c)
BuildFault(c) == MountFails(c) \/ ChildFails(c) \/ IngestFails(c)
=============================================================================
