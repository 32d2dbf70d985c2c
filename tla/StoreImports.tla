------------------------------ MODULE StoreImports ------------------------------
(***************************************************************************)
(* What the glue puts into the store without building: fetches (glue        *)
(* fetchers/mod.rs, fetchers/decompression.rs, builtins/fetchers.rs),       *)
(* builtins.path and filterSource (builtins/import.rs) and builtins.toFile  *)
(* (builtins/derivation.rs).                                                *)
(*                                                                          *)
(* A node is <<"file", content, executable>>, <<"dir", [name -> node]>> or  *)
(* <<"symlink", target>>.  What a server sends for a URL is a record: the    *)
(* chunks it arrives in (their lengths, cut at BYTES_NEEDED), the            *)
(* compression the magic bytes announce, the content, and what the content   *)
(* unpacks to as a tarball or a NAR.                                         *)
(***************************************************************************)
EXTENDS Derivations

BYTES_NEEDED == 6
Algorithms == {"gzip", "bzip2", "xz"}

FileSize(content) == <<"filesize", content>>
NarSize(node) == <<"narsize", node>>
FlatHash(algo, content) == <<algo, <<"flat", content>>>>
NarHash(algo, node) == <<algo, <<"nar", node>>>>

PathInfo(path, node, refs, narSize, narSha256, deriver, ca) ==
    [path |-> path, node |-> node, refs |-> refs, narSize |-> narSize, narSha256 |-> narSha256,
     deriver |-> deriver, ca |-> ca]

-----------------------------------------------------------------------------
(* DecompressedReader: the first read that fills the buffer decides.  Every  *)
(* poll starts with an empty buffer, so the bytes of a short first read are  *)
(* lost and the magic is looked for later in the stream; a stream that never *)
(* fills the buffer keeps the reader pending.                                *)
FirstFull(chunks) == SelectInSeq(chunks, LAMBDA n : n >= BYTES_NEEDED)

Decompress(served) ==
    IF FirstFull(served.chunks) = 0 THEN <<"pending">>
    ELSE IF FirstFull(served.chunks) = 1 /\ served.compression \in Algorithms THEN Ok(served.unpacked)
    ELSE Err("InvalidData")

(* Fetcher::ingest: Ok(<<node, content address, size>>). *)
IngestURL(expected, served) ==
    LET algo == IF expected = None THEN "sha256" ELSE expected[1]
        actual == FlatHash(algo, served.content) IN
    IF expected # None /\ expected # actual THEN Err("HashMismatch")
    ELSE Ok(<<<<"file", served.content, FALSE>>, <<"flat", actual>>, FileSize(served.content)>>)

IngestTarball(expected, served) ==
    LET r == Decompress(served)
        actual == NarHash("sha256", r[2]) IN
    IF ~IsOk(r) THEN r
    ELSE IF expected # None /\ expected # actual THEN Err("HashMismatch")
    ELSE Ok(<<r[2], <<"nar", actual>>, NarSize(r[2])>>)

IngestNAR(expected, served) ==
    LET r == Decompress(served) IN
    IF ~IsOk(r) THEN r
    ELSE IF expected # NarHash(expected[1], r[2]) THEN Err("HashMismatch")
    ELSE Ok(<<r[2], <<"nar", expected>>, NarSize(r[2])>>)

(* Mutant: the hash of an executable is not compared. *)
IngestExecutable_Unchecked(expected, served) ==
    Ok(<<<<"file", served.content, TRUE>>, <<"nar", expected>>, FileSize(served.content)>>)

IngestExecutable(expected, served) ==
    LET node == <<"file", served.content, TRUE>> IN
    IF expected # NarHash(expected[1], node) THEN Err("HashMismatch")
    ELSE Ok(<<node, <<"nar", expected>>, FileSize(served.content)>>)

Ingest(fetch, served) ==
    CASE fetch[1] = "URL" -> IngestURL(fetch[3], served)
      [] fetch[1] = "Tarball" -> IngestTarball(fetch[3], served)
      [] fetch[1] = "NAR" -> IngestNAR(fetch[3], served)
      [] fetch[1] = "Executable" -> IngestExecutable(fetch[3], served)

(* Fetcher::ingest_and_persist: the PathInfo to put. *)
IngestAndPersist(name, fetch, served) ==
    LET r == Ingest(fetch, served)
        node == r[2][1]
        ca == r[2][2]
        path == BuildCaPath(<<name, "">>, ca, {}, FALSE)
        nar == IF IsNarSha256(ca) THEN <<r[2][3], ca[2]>> ELSE <<NarSize(node), NarSha256(node)>>
    IN IF ~IsOk(r) THEN r
       ELSE IF ~IsOk(path) THEN path
       ELSE Ok(PathInfo(path[2], node, {}, nar[1], nar[2], None, ca))

(* The fetch builtins' argument: a URL, or an attribute set. *)
ExtractFetchArgs(args) ==
    IF IsStr(args) /\ args[3] = {} THEN Ok([url |-> LitOf(args[2]), name |-> None, sha256 |-> None])
    ELSE IF args[1] # "attrs" THEN Err("TypeError")
    ELSE LET sel == [a \in {"url", "name", "sha256"} |-> SelectString(args[2], a)]
             bad == SelectSeq(<<"url", "name", "sha256">>, LAMBDA a : sel[a] # None /\ ~IsStr(sel[a]))
             hash == ParseHash(sel["sha256"][2], "sha256")
         IN IF sel["url"] = None THEN Err("AttributeNotFound")
            ELSE IF bad # <<>> THEN sel[bad[1]]
            ELSE IF DOMAIN args[2] \ {"url", "name", "sha256"} # {} THEN Err("UnexpectedArgument")
            ELSE IF sel["sha256"] # None /\ ~IsOk(hash) THEN hash
            ELSE Ok([url |-> LitOf(sel["url"][2]),
                     name |-> IF sel["name"] = None THEN None ELSE <<"name", LitOf(sel["name"][2])>>,
                     sha256 |-> IF sel["sha256"] = None THEN None ELSE hash[2]])

(* fetchurl names the result after the URL (here its own base name), fetchTarball "source". *)
FetchOf(builtin, a) ==
    LET default == IF builtin = "fetchTarball" THEN "source" ELSE a.url IN
    <<IF a.name = None THEN default ELSE a.name[2],
      <<IF builtin = "fetchTarball" THEN "Tarball" ELSE "URL", a.url, a.sha256>>>>

-----------------------------------------------------------------------------
(* filtered_ingest: a pre-order walk of the directory (entries are          *)
(* <<path, type>> with path a sequence of names); what the filter rejects    *)
(* is left out, with everything below a rejected directory.                  *)
RECURSIVE WalkDir(_, _)
WalkDir(at, node) ==
    <<<<at, node[1]>>>> \o
      (IF node[1] # "dir" THEN <<>>
       ELSE FoldSeq(LAMBDA n, acc : WalkDir(Append(at, n), node[2][n]) \o acc, <<>>, Sorted(DOMAIN node[2])))

WalkStep(keep, w, e) ==
    IF w.skip # None /\ IsPrefix(w.skip[2], e[1]) THEN w
    ELSE IF e[1] \in keep THEN [entries |-> Append(w.entries, e[1]), skip |-> None]
    ELSE IF e[2] = "dir" THEN [w EXCEPT !.skip = <<"dir", e[1]>>]
    ELSE w

KeptEntries(keep, node) ==
    LET walk == WalkDir(<<>>, node) IN
    FoldLeft(LAMBDA w, e : WalkStep(keep, w, e), [entries |-> <<<<>>>>, skip |-> None], Tail(walk)).entries

(* The node the kept entries are ingested to. *)
RECURSIVE Prune(_, _, _)
Prune(kept, at, node) ==
    IF node[1] # "dir" THEN node
    ELSE <<"dir", [n \in {m \in DOMAIN node[2] : Append(at, m) \in kept} |->
                     Prune(kept, Append(at, n), node[2][n])]>>

FilteredIngest(node, keep) ==
    IF keep = None THEN node ELSE Prune(ToSet(KeptEntries(keep[2], node)), <<>>, node)

(* import_helper: the PathInfo to put for a host path. *)
ImportHelper(p, name, filter, recursive, expected) ==
    LET host == HostFiles[p]
        isFile == host[1] = "file"
        node == IF isFile THEN <<"file", host[2], FALSE>> ELSE FilteredIngest(host, filter)
        ca == IF isFile /\ ~recursive THEN <<"flat", FlatHash("sha256", host[2])>>
              ELSE <<"nar", NarSha256(node)>>
        path == BuildCaPath(<<IF name = None THEN p[2] ELSE name[2], "">>, ca, {}, FALSE)
    IN IF p \notin DOMAIN HostFiles THEN Err("NotFound")
       ELSE IF host[1] \notin {"file", "dir"} THEN Err("Unsupported")
       ELSE IF ~isFile /\ ~recursive THEN Err("FlatImportOfNonFile")
       ELSE IF expected # None /\ expected # ca[2] THEN Err("HashMismatch")
       ELSE IF ~IsOk(path) THEN path
       ELSE Ok(PathInfo(path[2], node, {}, NarSize(node), NarSha256(node), None, ca))

(* builtins.toFile: the PathInfo to put. *)
ToFile(name, content) ==
    LET node == <<"file", <<"text", content[2]>>, FALSE>>
        refs == {c[2] : c \in content[3]}
        ca == <<"text", FlatHash("sha256", <<"text", content[2]>>)>>
        path == BuildCaPath(<<name, "">>, ca, refs, FALSE)
    IN IF content[1] = "catchable" THEN content
       ELSE IF \E c \in content[3] : c[1] # "Plain" THEN Err("UnexpectedContext")
       ELSE IF ~IsOk(path) THEN Err("InvalidOutputName")
       ELSE Ok(PathInfo(path[2], node, refs, NarSize(node), NarSha256(node), None, ca))

(* The string a put path is returned as. *)
PlainValue(path) == <<"str", <<<<"path", path>>>>, {<<"Plain", path>>}>>
=============================================================================
