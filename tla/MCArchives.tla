------------------------------ MODULE MCArchives ------------------------------
(***************************************************************************)
(* Archives: a NAR ingested with its entries in any order of siblings, the  *)
(* graph of a tar archive, the wire packets a NAR is made of, the NAR reader *)
(* and writer, and the seekable NAR.  The parts share no state; each         *)
(* behaviour runs one of them.                                               *)
(***************************************************************************)
EXTENDS NarIngest, ArchiveGraph, NarWire, SeekableNar

(* ingest: two directories, three small files and a large one. *)
MCPaths == {"r", "r/a", "r/a/x", "r/a/y", "r/f", "r/g"}
MCParent == [p \in MCPaths \ {"r"} |-> IF p \in {"r/a/x", "r/a/y"} THEN "r/a" ELSE "r"]
MCDirPaths == {"r", "r/a"}
MCSizeOf == [p \in {"r/a/x", "r/a/y", "r/f", "r/g"} |->
    CASE p = "r/a/x" -> 1 [] p = "r/a/y" -> 2 [] p = "r/f" -> 3 [] p = "r/g" -> 1]
MCOrders == {Append(o, "r") : o \in {o \in SetToSeqs(MCPaths \ {"r"}) :
    \A i, j \in DOMAIN o : MCParent[o[j]] = o[i] => j < i}}

-----------------------------------------------------------------------------
(* archive *)
PathsOver(names, depth) == UNION {[1 .. n -> names] : n \in 1 .. depth}
Entries(paths) == [path : paths, kind : Kinds]

MCItems == Entries({p \in PathsOver({"a", "b"}, 3) : p[1] = "a" \/ p = <<"b">>})

\* Two directories that hold a file each, and are themselves replaced by files.
ReplacedDirectories ==
    {[path |-> <<"a", d>> \o f, kind |-> "file"] : d \in {"a", "b"}, f \in {<<>>, <<"x">>}}

-----------------------------------------------------------------------------
(* wire: packets around the block size, read in each of the ways. *)
Packet(n, max, tag, mode_) == [len |-> n, max |-> max, tag |-> tag, mode |-> mode_]

MCPackets ==
    {<<Packet(n, 9, t, k)>> : n \in {0, 2, 4, 5}, t \in {"Pad", "PadPar"}, k \in {"poll_read", "fill_buf"}}
    \cup {<<Packet(n, 9, "Pad", "read_bytes")>> : n \in {0, 2, 4, 5}}
    \cup {<<Packet(2, 9, "PadPar", "fill_buf"), Packet(5, 9, "Pad", "poll_read")>>,
          <<Packet(2, 1, "Pad", "read_bytes")>>,
          <<Packet(2, 9, "Pad", "read_bytes_buf")>>}
    \cup {<<Packet(n, 9, "Pad", "daemon")>> : n \in {4, 5}}
    \cup {<<Packet(n, 9, "Pad", "daemon"), Packet(0, 9, "Pad", "daemon")>> : n \in {0, 2}}
    \cup {<<Packet(2, 1, "Pad", "daemon")>>}

-----------------------------------------------------------------------------
(* nar *)
Contents(c) == <<"file", c, FALSE>>

MCTrees ==
    {<<"symlink", 1>>, Contents(<<>>), Contents(<<1>>), Contents(<<1, 1>>), <<"dir", <<>>>>,
     <<"dir", <<<<1, Contents(<<1>>)>>, <<2, <<"symlink", 1>>>>>>>>,
     <<"dir", <<<<2, <<"dir", <<<<1, <<"dir", <<>>>>>>>>>>>>>>>>,
     <<"dir", <<<<1, <<"file", <<>>, TRUE>>>>, <<2, <<"dir", <<>>>>>>>>>>}

-----------------------------------------------------------------------------
(* seek: files of zero, one and three bytes, one whose node has the wrong      *)
(* size, and a blob and a directory that are not in the store.                 *)
MCBlobOf == [e |-> <<>>, s |-> <<1>>, l |-> <<1, 2, 3>>]
MCDirsOf ==
    [x |-> <<<<1, <<"file", "l", 3, TRUE>>>>, <<2, <<"file", "e", 0, FALSE>>>>>>,
     y |-> <<<<1, <<"file", "s", 1, FALSE>>>>, <<2, <<"file", "l", 2, FALSE>>>>>>,
     z |-> <<<<1, <<"dir", "x">>>>, <<2, <<"symlink", 1>>>>>>]
MCRoots ==
    {<<"dir", "z">>, <<"dir", "y">>, <<"file", "l", 3, FALSE>>, <<"file", "gone", 1, FALSE>>, <<"dir", "gone">>}
MCSeeks ==
    {<<"start", n>> : n \in {0, 3, 8, 9, 10, 17, 18}} \cup {<<"end", -1>>, <<"current", 0>>, <<"current", 1>>, <<"current", -9>>}

-----------------------------------------------------------------------------
CONSTANT Parts  \* what the behaviours are about

VARIABLE part   \* what the behaviour is about

all == <<narvars, avars, wireVars, narVars, seekVars, part>>

Is(p) == part = p /\ UNCHANGED part

InIngest == Is("ingest") /\ UNCHANGED <<avars, wireVars, narVars, seekVars>>
InArchive == Is("archive") /\ UNCHANGED <<narvars, wireVars, narVars, seekVars>>
InWire == Is("wire") /\ UNCHANGED <<narvars, avars, narVars, seekVars>>
InNar == Is("nar") /\ UNCHANGED <<narvars, avars, wireVars, seekVars>>
InSeek == Is("seek") /\ UNCHANGED <<narvars, avars, wireVars, narVars>>

\* What is not run starts in one state.
Given(p, x, S) == part # p => x = CHOOSE y \in S : TRUE

MCInit ==
    /\ part \in Parts
    /\ NarInit /\ Given("ingest", order, Orders)
    /\ ArchiveInit
    /\ WireInit /\ Given("wire", packets, Packets)
    /\ FeedInit /\ Given("nar", mode, NarModes)
    /\ SeekInit /\ Given("seek", root_node, {n \in Roots : ClosureThere(n)})

MCNext ==
    \/ InIngest /\ NarNext
    \/ InArchive /\ ArchiveNext
    \/ InWire /\ WireNext
    \/ InNar /\ FeedNext
    \/ InSeek /\ SeekNext

(* try_join! polls both sides of an ingest whenever they are woken, and its     *)
(* background tasks are scheduled by the runtime; a caller that reads from the  *)
(* wire goes on reading.                                                        *)
MCSpec ==
    /\ MCInit /\ [][MCNext]_all
    /\ WF_all(InIngest /\ ProducerNext)
    /\ WF_all(InIngest /\ TaskNext)
    /\ WF_all(InIngest /\ ConsumerNext /\ UNCHANGED pvars)
    /\ WF_all(InIngest /\ Cancel /\ UNCHANGED cvars)
    /\ WF_all(InWire /\ ReaderStep)

(* ArchivesEnd: ingest_nar returns although producer and consumer wait for each *)
(* other and the producer for permits, and a reader of packets ends once the    *)
(* stream has; except that a NAR which ends within the name of an entry is read *)
(* for ever (read_bytes_buf does not look at what read_buf returned).           *)
Waiting ==
    \/ part = "ingest"
    \/ part = "wire" /\ StreamEnded

Finished ==
    \/ part = "ingest" /\ IngestEnded
    \/ part = "wire" /\ ReaderDone

ArchivesEnd == Waiting ~> Finished
=============================================================================
