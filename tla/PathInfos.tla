------------------------------ MODULE PathInfos ------------------------------
(***************************************************************************)
(* PathInfo and what it is turned into: the narinfo of binary caches       *)
(* (nix-compat narinfo), the protobuf message (store proto), and the       *)
(* services that keep it (store pathinfoservice): memory, redb, LRU,       *)
(* Bigtable, and the wrapper that signs.                                   *)
(*                                                                         *)
(* A store path is <<digest, name>>.  An optional value is <<>> or <<x>>.  *)
(* In a message, a digest or node that does not decode is Malformed, a     *)
(* path, hash or signature is BadPair.  Of a narinfo text, whose lines may *)
(* come in any order, we keep the values each tag has: Some(x), or None    *)
(* where the value does not parse.                                         *)
(***************************************************************************)
EXTENDS Naturals, Sequences, Functions

None == <<>>
Some(x) == <<x>>
Malformed == "malformed"
BadPair == <<Malformed, Malformed>>
Ok(x) == <<"ok", x>>
Err(e) == <<"error", e>>
IsOk(r) == r[1] = "ok"

PathDigest(path) == path[1]

PathInfo(path, node, refs, size, hash, sigs, deriver, ca) ==
    [store_path |-> path, node |-> node, references |-> refs, nar_size |-> size, nar_sha256 |-> hash,
     signatures |-> sigs, deriver |-> deriver, ca |-> ca]

-----------------------------------------------------------------------------
(* CAHash: <<"flat" | "nar", algo, digest>> or <<"text", "sha256", digest>>. *)
to_nix_nixbase32_string(ca) ==
    IF ca[1] = "flat" THEN <<"fixed", ca[2], ca[3]>>
    ELSE IF ca[1] = "nar" THEN <<"fixed", "r", ca[2], ca[3]>>
    ELSE <<"text", "sha256", ca[3]>>

from_nix_hex_str(s) ==
    IF s[1] = "text" /\ Len(s) = 3 /\ s[2] = "sha256" THEN Ok(<<"text", "sha256", s[3]>>)
    ELSE IF s[1] = "fixed" /\ Len(s) = 4 /\ s[2] = "r" THEN Ok(<<"nar", s[3], s[4]>>)
    ELSE IF s[1] = "fixed" /\ Len(s) = 3 THEN Ok(<<"flat", s[2], s[3]>>)
    ELSE Err("ca")

HashTypes == {<<"flat", "sha256">>, <<"flat", "sha1">>, <<"flat", "md5">>, <<"flat", "sha512">>, <<"nar", "sha256">>,
              <<"nar", "sha1">>, <<"nar", "md5">>, <<"nar", "sha512">>, <<"text", "sha256">>}

CaToProto(ca) == [type |-> <<ca[1], ca[2]>>, digest |-> ca[3]]

CaFromProto(m) ==
    IF m.type \in HashTypes /\ m.digest # Malformed THEN Ok(<<m.type[1], m.type[2], m.digest>>) ELSE Err("ca")

-----------------------------------------------------------------------------
(* NarInfo.  A URL is <<"url", node, size>>. *)
NoUrl == <<"url">>

to_narinfo(p) ==
    [store_path |-> p.store_path, nar_hash |-> p.nar_sha256, nar_size |-> p.nar_size,
     references |-> p.references, signatures |-> p.signatures, ca |-> p.ca, system |-> None,
     deriver |-> p.deriver, url |-> NoUrl, compression |-> Some("none"), file_hash |-> None, file_size |-> None]

(* What a signature is over; a signature is <<key, fingerprint>>. *)
fingerprint(n) == <<n.store_path, n.nar_hash, n.nar_size, n.references>>

add_signature(n, key) == [n EXCEPT !.signatures = Append(@, <<key, fingerprint(n)>>)]

verify(key, print, sig) == sig = <<key, print>>

(* Display, of an optional value and of the narinfo.                       *)
Lines(opt) == IF opt = None THEN <<>> ELSE <<opt>>

Display(n) ==
    [StorePath |-> <<Some(n.store_path)>>, URL |-> <<Some(n.url)>>,
     Compression |-> Lines(n.compression),
     FileHash |-> Lines(n.file_hash), FileSize |-> Lines(n.file_size),
     NarHash |-> <<Some(n.nar_hash)>>, NarSize |-> <<Some(n.nar_size)>>,
     References |-> <<Some(n.references)>>,
     Deriver |-> Lines(n.deriver), System |-> Lines(n.system),
     Sig |-> [i \in DOMAIN n.signatures |-> Some(n.signatures[i])],
     CA |-> IF n.ca = None THEN <<>> ELSE <<Some(to_nix_nixbase32_string(n.ca[1]))>>]

(* parse: no field but Sig comes twice, five have to be there, and no      *)
(* compression means bzip2.                                                *)
Required == {"StorePath", "NarHash", "NarSize", "References", "URL"}
Single == Required \cup {"Compression", "FileHash", "FileSize", "System", "Deriver", "CA"}

Unreadable(tag, value) ==
    \/ value = None
    \/ tag = "URL" /\ value[1] = NoUrl
    \/ tag = "CA" /\ ~IsOk(from_nix_hex_str(value[1]))

First(values) == IF values = <<>> THEN None ELSE values[1]

NoText == [tag \in Single \cup {"Sig"} |-> <<>>]

Fields(t) ==
    [store_path |-> t.StorePath[1][1], nar_hash |-> t.NarHash[1][1],
     nar_size |-> t.NarSize[1][1], references |-> t.References[1][1],
     signatures |-> [i \in DOMAIN t.Sig |-> t.Sig[i][1]],
     ca |-> IF t.CA = <<>> THEN None ELSE Some(from_nix_hex_str(t.CA[1][1])[2]),
     system |-> First(t.System), deriver |-> First(t.Deriver), url |-> t.URL[1][1],
     compression |-> IF t.Compression = <<>> THEN Some("bzip2")
                     ELSE IF t.Compression[1][1] = "none" THEN None
                     ELSE t.Compression[1],
     file_hash |-> First(t.FileHash), file_size |-> First(t.FileSize)]

parse(t) ==
    IF \E tag \in Single \cup {"Sig"} : \E i \in DOMAIN t[tag] : Unreadable(tag, t[tag][i])
    THEN Err("field")
    ELSE IF \E tag \in Single : Len(t[tag]) > 1 THEN Err("DuplicateField")
    ELSE IF \E tag \in Required : t[tag] = <<>> THEN Err("MissingField")
    ELSE Ok(Fields(t))

-----------------------------------------------------------------------------
(* The protobuf message.  A root node carries the store path as its name. *)
ToProto(p) ==
    [node |-> Some(<<p.store_path, p.node>>),
     references |-> [i \in DOMAIN p.references |-> PathDigest(p.references[i])],
     narinfo |-> Some([nar_size |-> p.nar_size, nar_sha256 |-> p.nar_sha256, signatures |-> p.signatures,
                       reference_names |-> p.references, deriver |-> p.deriver,
                       ca |-> IF p.ca = None THEN None ELSE Some(CaToProto(p.ca[1]))])]

FromProto(m) ==
    LET n == m.narinfo[1] IN
    IF m.narinfo = None THEN Err("NarInfoFieldMissing")
    ELSE IF Malformed \in Range(m.references) THEN Err("InvalidReferenceDigestLen")
    ELSE IF DOMAIN n.reference_names # DOMAIN m.references THEN Err("InconsistentNumberOfReferences")
    ELSE IF BadPair \in Range(n.reference_names) THEN Err("InvalidNarinfoReferenceName")
    ELSE IF \E i \in DOMAIN m.references : PathDigest(n.reference_names[i]) # m.references[i]
         THEN Err("InconsistentNarinfoReferenceNameDigest")
    ELSE IF m.node = None THEN Err("NoNodePresent")
    ELSE IF m.node[1][2] = Malformed THEN Err("InvalidRootNode")
    ELSE IF m.node[1][1] = BadPair THEN Err("InvalidNodeName")
    ELSE IF n.nar_sha256 = BadPair THEN Err("InvalidNarSha256DigestLen")
    ELSE IF n.deriver = Some(BadPair) THEN Err("InvalidDeriverField")
    ELSE IF BadPair \in Range(n.signatures) THEN Err("InvalidSignature")
    ELSE IF n.ca # None /\ ~IsOk(CaFromProto(n.ca[1])) THEN Err("InvalidCaField")
    ELSE Ok(PathInfo(m.node[1][1], m.node[1][2], n.reference_names, n.nar_size, n.nar_sha256, n.signatures, n.deriver,
                     IF n.ca = None THEN None ELSE Some(CaFromProto(n.ca[1])[2])))

-----------------------------------------------------------------------------
(* The stores: functions from digests to what is kept for them. *)
Insert(store, d, x) == [e \in DOMAIN store \cup {d} |-> IF e = d THEN x ELSE store[e]]

MemoryPut(store, p) == Insert(store, PathDigest(p.store_path), p)
MemoryGet(store, d) == IF d \in DOMAIN store THEN Ok(Some(store[d])) ELSE Ok(None)

(* redb keeps the message, and decodes it again. *)
RedbPut(store, p) == Insert(store, PathDigest(p.store_path), ToProto(p))
DecodeStored(store, d) ==
    IF d \notin DOMAIN store THEN Ok(None)
    ELSE LET r == FromProto(store[d]) IN IF IsOk(r) THEN Ok(Some(r[2])) ELSE Err("StorageError")
RedbGet(store, d) == DecodeStored(store, d)

(* Bigtable: the first value of a cell stays, whatever a later put says. *)
BigtablePut(store, p) ==
    IF PathDigest(p.store_path) \in DOMAIN store THEN store ELSE RedbPut(store, p)
BigtableGet(store, d) ==
    LET r == DecodeStored(store, d) IN
    IF d \in DOMAIN store /\ IsOk(r) /\ PathDigest(r[2][1].store_path) # d THEN Err("StorageError") ELSE r

ServicePut(kind, store, p) ==
    IF kind = "memory" THEN MemoryPut(store, p)
    ELSE IF kind = "redb" THEN RedbPut(store, p)
    ELSE BigtablePut(store, p)
ServiceGet(kind, store, d) ==
    IF kind = "memory" THEN MemoryGet(store, d)
    ELSE IF kind = "redb" THEN RedbGet(store, d)
    ELSE BigtableGet(store, d)

(* LruCache: most recent first; the least recent entry goes when it is     *)
(* full.                                                                   *)
LruHas(lru, k) == \E i \in DOMAIN lru : lru[i][1] = k
LruAt(lru, k) == CHOOSE i \in DOMAIN lru : lru[i][1] = k
LruPeek(lru, k) == lru[LruAt(lru, k)][2]

LruWithout(lru, k) ==
    IF ~LruHas(lru, k) THEN lru
    ELSE SubSeq(lru, 1, LruAt(lru, k) - 1) \o SubSeq(lru, LruAt(lru, k) + 1, Len(lru))

LruPut(lru, cap, k, v) ==
    LET others == LruWithout(lru, k) IN
    <<<<k, v>>>> \o IF Len(others) < cap THEN others ELSE SubSeq(others, 1, cap - 1)

LruGet(lru, k) == <<<<k, LruPeek(lru, k)>>>> \o LruWithout(lru, k)

(* SigningPathInfoService::put: one more signature, over the narinfo without any. *)
SigningPut(key, p) ==
    LET signed == add_signature([to_narinfo(p) EXCEPT !.signatures = <<>>], key) IN
    [p EXCEPT !.signatures = Append(@, signed.signatures[1])]
=============================================================================
