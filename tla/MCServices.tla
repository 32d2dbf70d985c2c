------------------------------ MODULE MCServices ------------------------------
(***************************************************************************)
(* Services and the calls between them: a directory service served over     *)
(* gRPC, the composition that builds services from their configuration, and  *)
(* a binary cache with its users.  The parts share no state; each behaviour   *)
(* runs one of them.                                                         *)
(***************************************************************************)
EXTENDS DirectoryGrpc, Composition, NarBridge

CONSTANT
    Parts        \* what the behaviours are about: "remote", "composition", "bridge"

(* remote: a leaf, a parent of it, and a root referring to both. *)
MCDirs == {"leaf", "mid", "top"}

Ref(d, n) == [digest |-> d, size |-> n]

MCEntries ==
    [d \in MCDirs |->
        CASE d = "leaf" -> <<>>
          [] d = "mid"  -> <<Ref("leaf", 0)>>
          [] d = "top"  -> <<Ref("leaf", 0), Ref("mid", 1)>>]

MCSizeOf == [d \in MCDirs |-> CASE d = "leaf" -> 0 [] d = "mid" -> 1 [] d = "top" -> 3]

MCDepth == [d \in MCDirs |-> CASE d = "leaf" -> 2 [] d = "mid" -> 1 [] d = "top" -> 0]

-----------------------------------------------------------------------------
(* composition: all configurations of three stores with up to two dependencies each. *)
MCStores == {"a", "b", "c"}

DepLists == {<<>>} \cup {<<d>> : d \in MCStores \cup {"gone"}}
                   \cup {<<d, e>> : d \in MCStores, e \in MCStores}

AllGraphs == [MCStores -> DepLists]

\* Stores refer to later ones only: no recursion.
Later == [s \in MCStores |-> CASE s = "a" -> {"b", "c"} [] s = "b" -> {"c"} [] s = "c" -> {}]
AcyclicGraphs == {g \in AllGraphs : \A s \in MCStores : Range(g[s]) \ {"gone"} \subseteq Later[s]}

\* Two stores that refer to each other.
Mutual == [s \in MCStores |-> CASE s = "a" -> <<"b">> [] s = "b" -> <<"a">> [] s = "c" -> <<>>]

\* One thread, as construct_services_from_configs; two threads.
OneThread == [t \in {"t1", "t2"} |-> IF t = "t1" THEN <<"a", "b">> ELSE <<>>]
TwoThreads == [t \in {"t1", "t2"} |-> IF t = "t1" THEN <<"a", "c">> ELSE <<"b", "a">>]

Configured(graphs, w, d) == {[deps |-> g, work |-> w, drops |-> d] : g \in graphs}

(* Every configuration built by one thread; every one without recursion    *)
(* built by two, of which one may be dropped.                              *)
MCScenarios == Configured(AllGraphs, OneThread, {}) \cup Configured(AcyclicGraphs, TwoThreads, {"t1"})

RecursiveScenarios == Configured({Mutual}, TwoThreads, {})

-----------------------------------------------------------------------------
(* bridge: two uploads of the same path with different metadata, an import,    *)
(* messages put directly (well-formed and not), and readers in between.        *)
MCNarSizes == [n |-> 10, m |-> 20, absent |-> 30]

P1 == <<"d1", "one">>
P2 == <<"d2", "two">>

Upload(path, node, size, refs, deriver, ca, compression) ==
    [store_path |-> path, nar_hash |-> NarHash(node), nar_size |-> size, references |-> refs,
     signatures |-> <<<<"builder", <<path, NarHash(node), size, <<>>>>>>>>,
     ca |-> ca, system |-> Some("system"), deriver |-> deriver, url |-> <<"url", node, size>>,
     compression |-> compression, file_hash |-> None, file_size |-> None]

NarinfoA == Display(Upload(P1, "n", 10, <<P2, P1>>, Some(P2), Some(<<"nar", "sha256", "x">>), Some("none")))
NarinfoB == Display(Upload(P1, "m", 20, <<>>, None, Some(<<"text", "sha256", "y">>), None))
Unsigned == Display(Upload(P2, "m", 20, <<P1>>, None, None, None))
OtherSize == Display(Upload(P2, "n", 11, <<>>, None, None, None))

\* One text after the other.
Both(s, t) == [tag \in DOMAIN s |-> s[tag] \o t[tag]]

PutNarOf(node, hash) == [do |-> "put_nar", node |-> node, hash |-> hash, suffix |-> ""]
PutInfo(text) == [do |-> "put_narinfo", text |-> text]
Get(d) == [do |-> "get", digest |-> d]
Message(m) == [do |-> "put_message", message |-> m]

Plain(path, node) == ToProto(PathInfo(path, node, <<P1>>, MCNarSizes[node], NarHash(node), <<>>, None, Some(<<"flat", "sha1", "z">>)))
Lie == [Plain(P2, "n") EXCEPT !.narinfo = Some([@[1] EXCEPT !.nar_sha256 = NarHash("m")])]
Malforms ==
    {[Plain(P1, "n") EXCEPT !.narinfo = None],
     [Plain(P1, "n") EXCEPT !.references = <<Malformed>>],
     [Plain(P1, "n") EXCEPT !.references = <<"d2">>],
     [Plain(P1, "n") EXCEPT !.references = <<>>],
     [Plain(P1, "n") EXCEPT !.node = None],
     [Plain(P1, "n") EXCEPT !.node = Some(<<BadPair, "n">>)],
     [Plain(P1, "n") EXCEPT !.narinfo = Some([@[1] EXCEPT !.ca = Some([type |-> <<"text", "md5">>, digest |-> "x"])])]}

Reader == <<Get("d1"), Get("d2"), Get("d1")>>

On(backing_, trusted, s) == [script |-> s, backing |-> backing_, keys |-> {trusted}]

TwoUploads ==
    [up |-> <<PutNarOf("n", NarHash("n")), PutInfo(NarinfoA)>>,
     other |-> <<PutNarOf("m", NarHash("m")), PutInfo(NarinfoB)>>,
     reader |-> Reader]

ImportAndMessages ==
    [up |-> <<PutNarOf("n", NarHash("n")), [do |-> "import", path |-> P1, node |-> "n"], PutInfo(OtherSize)>>,
     other |-> <<Message(Lie), Message(Plain(P1, "absent"))>>,
     reader |-> Reader]

WrongHash ==
    [up |-> <<PutNarOf("n", NarHash("m")), PutInfo(NarinfoB), PutNarOf("m", NarHash("m"))>>,
     other |-> <<[do |-> "head", digest |-> "d1"], PutInfo(Unsigned), [do |-> "put_through"]>>,
     reader |-> Reader]

Refused(m) ==
    [up |-> <<Message(m)>>,
     other |-> <<PutInfo([NarinfoA EXCEPT !.StorePath = <<>>]), PutInfo(Both(NarinfoA, NarinfoB)),
                 [do |-> "put_nar", node |-> "n", hash |-> NarHash("n"), suffix |-> ".xz"]>>,
     reader |-> <<[do |-> "fetch", method |-> "HEAD", node |-> "n", size |-> 9],
                  [do |-> "fetch", method |-> "RANGE", node |-> "n", size |-> 9]>>]

MCSetups ==
    {On("memory", "server", TwoUploads), On("bigtable", "server", TwoUploads),
     On("redb", "server", ImportAndMessages), On("bigtable", "server", ImportAndMessages),
     On("redb", "builder", WrongHash)}
    \cup {On("redb", "server", Refused(m)) : m \in Malforms}

-----------------------------------------------------------------------------
VARIABLE part

all == <<allvars, compVars, bridgeVars, part>>

Is(p) == part = p /\ UNCHANGED part

InRemote == Is("remote") /\ UNCHANGED <<compVars, bridgeVars>>
InComposition == Is("composition") /\ UNCHANGED <<allvars, bridgeVars>>
InBridge == Is("bridge") /\ UNCHANGED <<allvars, compVars>>

\* What is not run starts in one state.
Only(p, S) == IF part = p THEN S ELSE {CHOOSE x \in S : TRUE}

AnyScenario == CHOOSE sc \in Scenarios : TRUE
AnySetup == CHOOSE s \in Setups : TRUE

MCInit ==
    /\ part \in Parts
    /\ GrpcInit /\ root \in Only("remote", [Readers -> Dirs])
    /\ BridgeInit /\ (part = "bridge" \/ [script |-> script, backing |-> backing, keys |-> keys] = AnySetup)
    /\ CompInit /\ (part = "composition" \/ [deps |-> deps, work |-> work, drops |-> drops] = AnyScenario)

MCNext ==
    \/ InRemote /\ GrpcNext
    \/ InComposition /\ CompNext
    \/ InBridge /\ BridgeNext

(* Request tasks, handlers, a waiting close() and a stream being read are polled  *)
(* until they end; the runtime polls every task that was woken, and what a        *)
(* builder does beside resolving (connecting, opening files) ends; requests to    *)
(* and of the binary cache go on.                                                 *)
MCSpec ==
    /\ MCInit /\ [][MCNext]_all
    /\ \A c \in Uploaders :
          /\ WF_all(InRemote /\ ServerStep(c) /\ UNCHANGED <<dvars, promised>>)
          /\ WF_all(InRemote /\ TaskReturns(c) /\ UNCHANGED <<dvars, promised>>)
          /\ WF_all(InRemote /\ ClientClosed(c) /\ UNCHANGED <<dvars, promised>>)
    /\ \A r \in Readers :
          /\ WF_all(InRemote /\ (\E d \in Dirs : ServerSends(r, d)) /\ UNCHANGED <<uvars, promised>>)
          /\ WF_all(InRemote /\ (ClientReceives(r) \/ ClientEnds(r)) /\ UNCHANGED <<uvars, promised>>)
          /\ WF_all(InRemote /\ rpc[r] = "failed" /\ ClientFails(r) /\ UNCHANGED <<uvars, promised>>)
    /\ \A t \in Threads : WF_all(InComposition /\ ThreadStep(t))
    /\ \A s \in Stores : WF_all(InComposition /\ BuilderReturns(s))
    /\ WF_all(InBridge /\ UsersNext)

-----------------------------------------------------------------------------
(* CallsReturn: close() of an upload returns once the sender is dropped and every  *)
(* download ends, whatever else goes on at the server; no build call of the        *)
(* composition waits for ever ("The stack used to detect recursive instantiations  *)
(* and prevent deadlocks"): each returns or was dropped itself, and one that needs *)
(* a store whose builder was dropped with another call, and no other, panics; and  *)
(* every transfer from and to the binary cache is answered, whatever breaks.       *)
Waiting ==
    \/ part = "remote" /\ \/ \E c \in Uploaders : cput[c] = "closing"
                          \/ \E r \in Readers : cget[r] = "receiving"
    \/ part \in {"composition", "bridge"}

Returned ==
    \/ part = "remote" /\ (\A c \in Uploaders : cput[c] # "closing") /\ \A r \in Readers : cget[r] # "receiving"
    \/ part = "composition" /\ AllBuilt
    \/ part = "bridge" /\ AllAnswered

CallsReturn == Waiting ~> Returned
=============================================================================
