------------------------------ MODULE NarBridge ------------------------------
(***************************************************************************)
(* A binary cache and its users.  The cache is nar-bridge in front of a    *)
(* castore and of a PathInfoService it reaches over gRPC, which signs what *)
(* it stores (store pathinfoservice/grpc.rs,                               *)
(* proto/grpc_pathinfoservice_wrapper, signing_wrapper).  Its users upload *)
(* NARs and narinfos, import paths, put messages directly, or read through *)
(* a Cache of an LRU in front of NixHTTPPathInfoService (store             *)
(* pathinfoservice/combinators.rs, nix_http.rs), which downloads from the  *)
(* cache into a castore of its own.                                        *)
(*                                                                         *)
(* A root node is a string; NarSizes gives the size of its NAR.            *)
(* Connections break, replies get lost, and the cache restarts.            *)
(***************************************************************************)
EXTENDS PathInfos

CONSTANTS
    Users,
    NarSizes,       \* node -> size of its NAR
    ServerKey,
    RootNodesCapacity, NearCapacity,
    CellRefs,       \* references a Bigtable cell has room for
    MaxFaults, MaxRestarts_,
    Setups          \* the requests of each user, what keeps the PathInfos, whom the readers trust

(* What decoding gives for a signature that does not parse is no signature *)
(* of the server; the lists in messages and narinfos are sequences.        *)
IsSeq(s) == s \in Seq(Range(s))

MessageOK(m) == m.narinfo # None => IsSeq(m.narinfo[1].signatures)

ASSUME BridgeAssumption ==
    /\ ServerKey # Malformed
    /\ RootNodesCapacity \in Nat \ {0} /\ NearCapacity \in Nat \ {0}
    /\ \A s \in Setups :
          /\ s.backing \in {"memory", "redb", "bigtable"}
          /\ \A u \in Users : IsSeq(s.script[u]) /\ \A i \in DOMAIN s.script[u] :
                /\ s.script[u][i].do = "put_message" => MessageOK(s.script[u][i].message)
                /\ s.script[u][i].do = "put_narinfo" => IsSeq(s.script[u][i].text.Sig)

VARIABLES
    script, backing, keys,      \* as Setups says
    root_nodes,     \* the bridge's LRU from NAR hashes to root nodes
    remote,         \* the nodes whose contents are in the cache's castore
    infos,          \* the PathInfos the cache keeps
    near,           \* the user side's LRU of PathInfos
    local,          \* the nodes whose contents are in the user side's castore
    user,           \* per user: [next, at, info, answer]
    taken,          \* every PathInfo the cache took, with where it came from
    faults, restarts

bridgeVars == <<script, backing, keys, root_nodes, remote, infos, near, local, user, taken, faults, restarts>>

NarHash(node) == <<"nar", node>>

Busy(u) == user[u].next <= Len(script[u])
Req(u) == script[u][user[u].next]
At(u, what, pc) == Busy(u) /\ Req(u).do = what /\ user[u].at = pc

Go(u, pc, info) ==
    user' = [user EXCEPT ![u] = [next |-> @.next, at |-> pc, info |-> info, answer |-> @.answer]]

Answered(r, what) == [next |-> r.next + 1, at |-> "start", info |-> None, answer |-> what]

Answer(u, what) == user' = [user EXCEPT ![u] = Answered(@, what)]

(* A connection breaks. *)
Breaks(u) ==
    /\ faults > 0
    /\ faults' = faults - 1
    /\ Answer(u, Err("connection"))

-----------------------------------------------------------------------------
(* Mutant: the mapping is kept before the hash is compared. *)
PutNar_KeepFirst(u) ==
    /\ At(u, "put_nar", "start")
    /\ remote' = remote \cup {Req(u).node}
    /\ root_nodes' = LruPut(root_nodes, RootNodesCapacity, Req(u).hash, Req(u).node)
    /\ Answer(u, IF Req(u).hash # NarHash(Req(u).node) THEN Err("BAD_REQUEST") ELSE Ok("ok"))
    /\ UNCHANGED <<script, backing, keys, infos, near, local, taken, faults, restarts>>

(* PUT nar/<hash>.nar: the NAR is ingested, then its hash compared, then the   *)
(* node kept for the narinfo that follows.                                     *)
PutNar(u) ==
    /\ At(u, "put_nar", "start")
    /\ \/ /\ Breaks(u)
          /\ UNCHANGED <<root_nodes, remote>>
       \/ /\ Req(u).suffix # ""
          /\ Answer(u, Err("UNAUTHORIZED"))
          /\ UNCHANGED <<root_nodes, remote, faults>>
       \/ /\ Req(u).suffix = ""
          /\ remote' = remote \cup {Req(u).node}
          /\ IF Req(u).hash # NarHash(Req(u).node)
             THEN Answer(u, Err("BAD_REQUEST")) /\ UNCHANGED root_nodes
             ELSE /\ Answer(u, Ok("ok"))
                  /\ root_nodes' = LruPut(root_nodes, RootNodesCapacity, Req(u).hash, Req(u).node)
          /\ UNCHANGED faults
    /\ UNCHANGED <<script, backing, keys, infos, near, local, taken, restarts>>

(* PUT <digest>.narinfo: parse, look the NAR's root node up without touching   *)
(* the LRU, and put the PathInfo.  The digest of the URL is not compared.      *)
PutNarinfo(u) ==
    /\ At(u, "put_narinfo", "start")
    /\ \E r \in {parse(Req(u).text)} :
       LET n == r[2] IN
       IF ~IsOk(r) THEN Answer(u, Err("BAD_REQUEST"))
       ELSE IF ~LruHas(root_nodes, n.nar_hash) THEN Answer(u, Err("BAD_REQUEST"))
       ELSE Go(u, "put", ToProto(PathInfo(n.store_path, LruPeek(root_nodes, n.nar_hash),
                                          n.references, n.nar_size, n.nar_hash, n.signatures,
                                          n.deriver, n.ca)))
    /\ UNCHANGED <<script, backing, keys, root_nodes, remote, infos, near, local, taken, faults, restarts>>

(* calculate_nar renders the node, which has to be there. *)
CalculateNar(node) ==
    IF node \in remote THEN Ok(<<NarSizes[node], NarHash(node)>>) ELSE Err("NotFound")

(* import_path_as_nar_ca: the contents are ingested, then the NAR is calculated *)
(* and the PathInfo put under the path build_ca_path gives (Req(u).path).       *)
IngestPath(u) ==
    /\ At(u, "import", "start")
    /\ remote' = remote \cup {Req(u).node}
    /\ Go(u, "calculate", None)
    /\ UNCHANGED <<script, backing, keys, root_nodes, infos, near, local, taken, faults, restarts>>

Import(u) ==
    /\ At(u, "import", "calculate")
    /\ \/ Breaks(u)
       \/ /\ LET r == CalculateNar(Req(u).node) IN
             IF ~IsOk(r) THEN Answer(u, r)
             ELSE Go(u, "put", ToProto(PathInfo(Req(u).path, Req(u).node, <<>>, r[2][1], r[2][2], <<>>, None,
                                                Some(<<"nar", "sha256", r[2][2][2]>>))))
          /\ UNCHANGED faults
    /\ UNCHANGED <<script, backing, keys, root_nodes, remote, infos, near, local, taken, restarts>>

PutMessage(u) ==
    /\ At(u, "put_message", "start")
    /\ Go(u, "put", Req(u).message)
    /\ UNCHANGED <<script, backing, keys, root_nodes, remote, infos, near, local, taken, faults, restarts>>

(* The cell of Bigtable has a limit. *)
Fits(p) == backing = "bigtable" => Len(p.references) <= CellRefs

(* The gRPC put: validation, the signature, the store, and the answer back;   *)
(* the connection breaks before or after.                                     *)
GrpcPut(u) ==
    /\ Busy(u) /\ user[u].at = "put"
    /\ \E r \in {FromProto(user[u].info)} :
       \E p \in {IF IsOk(r) THEN SigningPut(ServerKey, r[2]) ELSE None} :
       LET stores == IsOk(r) /\ Fits(p)
           origin == IF Req(u).do = "put_message" THEN "message" ELSE "bridge"
       IN \/ /\ Breaks(u)
             /\ UNCHANGED <<infos, taken>>
          \/ /\ ~stores
             /\ Answer(u, Err("StorageError"))
             /\ UNCHANGED <<infos, taken, faults>>
          \/ /\ stores
             /\ infos' = ServicePut(backing, infos, p)
             /\ taken' = taken \cup {<<origin, p>>}
             /\ Breaks(u)
          \/ /\ stores
             /\ infos' = ServicePut(backing, infos, p)
             /\ taken' = taken \cup {<<origin, p>>}
             /\ Answer(u, FromProto(ToProto(p)))
             /\ UNCHANGED faults
    /\ UNCHANGED <<script, backing, keys, root_nodes, remote, near, local, restarts>>

(* The gRPC get: what the handler sends for a result of the store, and what *)
(* the client makes of it.                                                  *)
Sent(r) == IF ~IsOk(r) \/ r[2] = None THEN r ELSE Ok(Some(ToProto(r[2][1])))

Received(r) ==
    IF ~IsOk(r) \/ r[2] = None THEN r
    ELSE LET p == FromProto(r[2][1]) IN IF IsOk(p) THEN Ok(Some(p[2])) ELSE p

GrpcGet(d) == {Received(m) : m \in {Sent(r) : r \in {ServiceGet(backing, infos, d)}}}

(* GET and HEAD <digest>.narinfo. *)
WithUrl(p) == [to_narinfo(p) EXCEPT !.url = <<"url", p.node, p.nar_size>>]

Failure == [status |-> 500, text |-> NoText]

NarinfoResponse(r) ==
    IF ~IsOk(r) THEN Failure
    ELSE IF r[2] = None THEN [status |-> 404, text |-> NoText]
    ELSE [status |-> 200, text |-> Display(WithUrl(r[2][1]))]

HeadNarinfo(u) ==
    /\ At(u, "head", "start")
    /\ \E r \in GrpcGet(Req(u).digest) :
          Answer(u, IF NarinfoResponse(r).status = 200 THEN Ok("ok") ELSE Err("NotFound"))
    /\ UNCHANGED <<script, backing, keys, root_nodes, remote, infos, near, local, taken, faults, restarts>>

(* GET nar/tvix-castore/<node>?narsize=: HEAD believes the size it is given, a  *)
(* range request checks it against the rendered NAR, and otherwise the NAR is    *)
(* streamed under a content length it may not have.                              *)
NarResponse(method, node, size) ==
    IF method = "HEAD" THEN [status |-> 200, length |-> size, whole |-> FALSE]
    ELSE IF method = "RANGE" /\ node \notin remote THEN [status |-> 500, length |-> 0, whole |-> FALSE]
    ELSE IF method = "RANGE" /\ NarSizes[node] # size THEN [status |-> 400, length |-> 0, whole |-> FALSE]
    ELSE [status |-> 200, length |-> size, whole |-> node \in remote /\ NarSizes[node] = size]

FetchNar(u) ==
    /\ At(u, "fetch", "start")
    /\ LET r == NarResponse(Req(u).method, Req(u).node, Req(u).size) IN
       Answer(u, IF r.status = 200 THEN Ok(<<"length", r.length>>) ELSE Err("status"))
    /\ UNCHANGED <<script, backing, keys, root_nodes, remote, infos, near, local, taken, faults, restarts>>

-----------------------------------------------------------------------------
(* Cache::get, and NixHTTPPathInfoService::get as its far side. *)
GetNear(u) ==
    /\ At(u, "get", "start")
    /\ IF LruHas(near, Req(u).digest)
       THEN /\ Answer(u, Ok(Some(LruPeek(near, Req(u).digest))))
            /\ near' = LruGet(near, Req(u).digest)
       ELSE Go(u, "narinfo", None) /\ UNCHANGED near
    /\ UNCHANGED <<script, backing, keys, root_nodes, remote, infos, local, taken, faults, restarts>>

Signed(n) == \E key \in keys : \E i \in DOMAIN n.signatures : verify(key, fingerprint(n), n.signatures[i])

(* Any status but 404 and 403 has its body parsed, that of a failure too. *)
GetNarinfo(u) ==
    /\ At(u, "get", "narinfo")
    /\ \/ Breaks(u)
       \/ \E failure \in {FALSE, faults > 0} :
             /\ \E r \in GrpcGet(Req(u).digest) :
                \E resp \in {IF failure THEN Failure ELSE NarinfoResponse(r)} :
                \E n \in {parse(resp.text)} :
                   IF resp.status = 404 THEN Answer(u, Ok(None))
                   ELSE IF ~IsOk(n) THEN Answer(u, Err("InvalidData"))
                   ELSE IF ~Signed(n[2]) THEN Answer(u, Err("no valid signature found"))
                   ELSE Go(u, "nar", n[2])
             /\ faults' = IF failure THEN faults - 1 ELSE faults
    /\ UNCHANGED <<script, backing, keys, root_nodes, remote, infos, near, local, taken, restarts>>

(* Mutant: the hash of what was downloaded is not compared. *)
Matches_SizeOnly(n, node) == n.nar_size = NarSizes[node]

(* What was ingested has the size and the hash of the narinfo. *)
Matches(n, node) == n.nar_size = NarSizes[node] /\ n.nar_hash = NarHash(node)

Compressions == {"bzip2", "gzip", "xz", "zstd"}

(* The NAR is downloaded, decompressed and ingested before it is compared; the  *)
(* bridge does not compress.                                                    *)
GetNar(u) ==
    /\ At(u, "get", "nar")
    /\ LET n == user[u].info
           node == n.url[2]
           resp == NarResponse("GET", node, n.url[3])
           refused == n.compression # None /\ n.compression[1] \notin Compressions
           whole == resp.whole /\ n.compression = None
           p == PathInfo(n.store_path, node, n.references, n.nar_size, n.nar_hash, n.signatures, n.deriver, n.ca)
       IN \/ /\ Breaks(u)
             /\ UNCHANGED local
          \/ /\ resp.status # 200 \/ refused \/ ~whole
             /\ Answer(u, Err("NAR"))
             /\ UNCHANGED <<local, faults>>
          \/ /\ resp.status = 200 /\ ~refused /\ whole
             /\ local' = local \cup {node}
             /\ IF Matches(n, node) THEN Go(u, "fill", p) ELSE Answer(u, Err("InvalidData"))
             /\ UNCHANGED faults
    /\ UNCHANGED <<script, backing, keys, root_nodes, remote, infos, near, taken, restarts>>

FillNear(u) ==
    /\ At(u, "get", "fill")
    /\ near' = LruPut(near, NearCapacity, PathDigest(user[u].info.store_path), user[u].info)
    /\ Answer(u, Ok(Some(user[u].info)))
    /\ UNCHANGED <<script, backing, keys, root_nodes, remote, infos, local, taken, faults, restarts>>

(* Cache::put and NixHTTPPathInfoService::put are refused. *)
PutThrough(u) ==
    /\ At(u, "put_through", "start")
    /\ Answer(u, Err("unimplemented"))
    /\ UNCHANGED <<script, backing, keys, root_nodes, remote, infos, near, local, taken, faults, restarts>>

-----------------------------------------------------------------------------
(* The cache's processes restart: the mapping is gone, the PathInfos of a memory *)
(* store too, the castore is kept; requests in progress break.                   *)
Restart ==
    /\ restarts < MaxRestarts_
    /\ restarts' = restarts + 1
    /\ root_nodes' = <<>>
    /\ infos' = IF backing = "memory" THEN <<>> ELSE infos
    /\ user' = [u \in Users |->
                  IF user[u].at \in {"calculate", "put"}
                  THEN Answered(user[u], Err("connection"))
                  ELSE user[u]]
    /\ UNCHANGED <<script, backing, keys, remote, near, local, taken, faults>>

UserStep(u) ==
    \/ PutNar(u) \/ PutNarinfo(u) \/ IngestPath(u) \/ Import(u) \/ PutMessage(u) \/ GrpcPut(u)
    \/ HeadNarinfo(u) \/ FetchNar(u)
    \/ GetNear(u) \/ GetNarinfo(u) \/ GetNar(u) \/ FillNear(u) \/ PutThrough(u)

BridgeInit ==
    /\ \E s \in Setups : script = s.script /\ backing = s.backing /\ keys = s.keys
    /\ root_nodes = <<>> /\ remote = {} /\ infos = <<>> /\ near = <<>> /\ local = {} /\ taken = {}
    /\ user = [u \in Users |-> [next |-> 1, at |-> "start", info |-> None, answer |-> Ok(None)]]
    /\ faults = MaxFaults /\ restarts = 0

UsersNext == \E u \in Users : UserStep(u)

BridgeNext == UsersNext \/ Restart

BridgeSpec == BridgeInit /\ [][BridgeNext]_bridgeVars

-----------------------------------------------------------------------------
(* DownloadsVerified: what the reading side keeps was kept by the cache in just  *)
(* that form, through message, narinfo and back; its contents are in the local   *)
(* castore, have the hash and the size it states, and a trusted key has signed    *)
(* it - whatever was uploaded, put or lost at the same time; and it is for the     *)
(* path that was asked for, which the reader itself never compares.                *)
DownloadsVerified ==
    /\ \A u \in Users : At(u, "get", "fill") => PathDigest(user[u].info.store_path) = Req(u).digest
    /\ \A i \in DOMAIN near :
        LET p == near[i][2] IN
        /\ p.node \in local
        /\ p.nar_sha256 = NarHash(p.node) /\ p.nar_size = NarSizes[p.node]
        /\ Signed(to_narinfo(p))
        /\ \E o \in {"bridge", "message"} : <<o, p>> \in taken

(* CacheConsistent: everything the cache keeps decodes to the PathInfo it took,   *)
(* under its own digest, signed by the cache; and what came in through the bridge  *)
(* has the hash of the NAR of its node, whose contents are in the castore.         *)
CacheConsistent ==
    /\ \A d \in DOMAIN infos :
          LET r == ServiceGet(backing, infos, d) IN
          /\ IsOk(r)
          /\ PathDigest(r[2][1].store_path) = d
          /\ \E a \in taken : a[2] = r[2][1]
    /\ \A a \in taken :
          /\ <<ServerKey, fingerprint(to_narinfo(a[2]))>> \in Range(a[2].signatures)
          /\ a[1] = "bridge" => a[2].nar_sha256 = NarHash(a[2].node) /\ a[2].node \in remote

(* Every request was answered. *)
AllAnswered == \A u \in Users : ~Busy(u)
=============================================================================
