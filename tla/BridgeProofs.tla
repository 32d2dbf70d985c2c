---------------------------- MODULE BridgeProofs ----------------------------
(***************************************************************************)
(* The binary cache, for any users and requests, each kind of store, and   *)
(* any connections that break: what the cache took it gives back, signed   *)
(* and under its digest, and what readers keep has been verified.          *)
(***************************************************************************)
EXTENDS NarBridge, TLAPS

(* A PathInfo that was decoded: nothing in it is malformed.                *)
WellFormed(p) ==
    /\ p = PathInfo(p.store_path, p.node, p.references, p.nar_size, p.nar_sha256,
                    p.signatures, p.deriver, p.ca)
    /\ p.store_path # BadPair /\ p.node # Malformed /\ p.nar_sha256 # BadPair
    /\ p.deriver # Some(BadPair)
    /\ \A i \in DOMAIN p.references :
          p.references[i] # BadPair /\ PathDigest(p.references[i]) # Malformed
    /\ IsSeq(p.signatures) /\ BadPair \notin Range(p.signatures)
    /\ p.ca = None \/ /\ p.ca = Some(<<p.ca[1][1], p.ca[1][2], p.ca[1][3]>>)
                      /\ <<p.ca[1][1], p.ca[1][2]>> \in HashTypes /\ p.ca[1][3] # Malformed

TakenInv(a) ==
    /\ a = <<a[1], a[2]>> /\ a[1] \in {"bridge", "message"}
    /\ WellFormed(a[2])
    /\ <<ServerKey, fingerprint(to_narinfo(a[2]))>> \in Range(a[2].signatures)
    /\ a[1] = "bridge" => a[2].nar_sha256 = NarHash(a[2].node) /\ a[2].node \in remote

(* What the cache keeps is what it took, in the form of its store.         *)
KeptAs(p) == IF backing = "memory" THEN p ELSE ToProto(p)

InfosInv ==
    /\ infos = [d \in DOMAIN infos |-> infos[d]]
    /\ \A d \in DOMAIN infos :
          \E a \in taken : PathDigest(a[2].store_path) = d /\ infos[d] = KeptAs(a[2])

RootsInv ==
    /\ IsSeq(root_nodes)
    /\ \A e \in Range(root_nodes) : e[1] = NarHash(e[2]) /\ e[2] \in remote

Verified(p) ==
    /\ p.node \in local
    /\ p.nar_sha256 = NarHash(p.node) /\ p.nar_size = NarSizes[p.node]
    /\ Signed(to_narinfo(p))
    /\ \E o \in {"bridge", "message"} : <<o, p>> \in taken

NearInv == IsSeq(near) /\ \A e \in Range(near) : Verified(e[2])

Bridged(m) == m.narinfo[1].nar_sha256 = NarHash(m.node[1][2]) /\ m.node[1][2] \in remote

(* What the bridge serves for a PathInfo, as it is parsed.                 *)
Served(p) == [WithUrl(p) EXCEPT !.compression = None]

UserInv(u) ==
    /\ user[u] = [next |-> user[u].next, at |-> user[u].at, info |-> user[u].info, answer |-> user[u].answer]
    /\ user[u].next \in Nat \ {0}
    /\ user[u].at = "put" => /\ MessageOK(user[u].info)
                             /\ Req(u).do # "put_message" => Bridged(user[u].info)
    /\ user[u].at = "nar" => /\ Signed(user[u].info)
                             /\ \E a \in taken : /\ PathDigest(a[2].store_path) = Req(u).digest
                                                 /\ user[u].info = Served(a[2])
    /\ user[u].at = "fill" => /\ PathDigest(user[u].info.store_path) = Req(u).digest
                              /\ Verified(user[u].info)

SetupInv == \E s \in Setups : script = s.script /\ backing = s.backing /\ keys = s.keys

BridgeInv ==
    /\ SetupInv
    /\ \A a \in taken : TakenInv(a)
    /\ InfosInv /\ RootsInv /\ NearInv
    /\ user = [u \in Users |-> user[u]]
    /\ \A u \in Users : UserInv(u)

-----------------------------------------------------------------------------
(* A sequence is a sequence over its range.                                *)
LEMMA SeqFacts ==
    ASSUME NEW s, IsSeq(s)
    PROVE  Len(s) \in Nat /\ DOMAIN s = 1..Len(s) /\ (\A i \in DOMAIN s : s[i] \in Range(s))
BY DEF IsSeq, Range

(* Appending to a sequence adds one element to its range.                  *)
LEMMA SeqAppends ==
    ASSUME NEW s, IsSeq(s), NEW x
    PROVE  IsSeq(Append(s, x)) /\ Range(Append(s, x)) = Range(s) \cup {x}
<1>1. s \in Seq(Range(s) \cup {x}) /\ Append(s, x) \in Seq(Range(s) \cup {x})
  BY DEF IsSeq
<1>2. Len(s) \in Nat /\ DOMAIN s = 1..Len(s) /\ DOMAIN Append(s, x) = 1..(Len(s) + 1)
      /\ Append(s, x)[Len(s) + 1] = x /\ \A i \in 1..Len(s) : Append(s, x)[i] = s[i]
  BY <1>1, SeqFacts
<1>3. Range(Append(s, x)) = Range(s) \cup {x}
  <2>1. ASSUME NEW i \in DOMAIN Append(s, x)
        PROVE  Append(s, x)[i] \in Range(s) \cup {x}
    BY <1>2 DEF Range
  <2>2. ASSUME NEW i \in DOMAIN s
        PROVE  s[i] \in Range(Append(s, x))
    BY <1>2 DEF Range
  <2>3. x \in Range(Append(s, x))
    BY <1>2, SMTT(40) DEF Range
  <2> QED
    BY <2>1, <2>2, <2>3, Zenon DEF Range
<1> QED
  BY <1>1, <1>3 DEF IsSeq

(* What FromProto accepts has nothing malformed in it.                     *)
LEMMA DecodedWellFormed ==
    ASSUME NEW m, MessageOK(m), IsOk(FromProto(m))
    PROVE  /\ WellFormed(FromProto(m)[2])
           /\ FromProto(m)[2].node = m.node[1][2]
           /\ FromProto(m)[2].nar_sha256 = m.narinfo[1].nar_sha256
<1> DEFINE n == m.narinfo[1]
           ca == IF n.ca = None THEN None ELSE Some(CaFromProto(n.ca[1])[2])
           p == PathInfo(m.node[1][1], m.node[1][2], n.reference_names, n.nar_size, n.nar_sha256,
                         n.signatures, n.deriver, ca)
<1>0. \A e : ~IsOk(Err(e))
  BY DEF IsOk, Err
<1>1. /\ m.narinfo # None /\ Malformed \notin Range(m.references)
      /\ DOMAIN n.reference_names = DOMAIN m.references /\ BadPair \notin Range(n.reference_names)
      /\ \A i \in DOMAIN m.references : PathDigest(n.reference_names[i]) = m.references[i]
      /\ m.node[1][2] # Malformed /\ m.node[1][1] # BadPair /\ n.nar_sha256 # BadPair
      /\ n.deriver # Some(BadPair) /\ BadPair \notin Range(n.signatures)
      /\ ~(n.ca # None /\ ~IsOk(CaFromProto(n.ca[1])))
      /\ FromProto(m) = Ok(p)
  BY <1>0, Zenon DEF FromProto
<1>2. FromProto(m)[2] = p
  BY <1>1 DEF Ok
<1> HIDE DEF ca
<1>3. /\ p.store_path = m.node[1][1] /\ p.node = m.node[1][2] /\ p.references = n.reference_names
      /\ p.nar_size = n.nar_size /\ p.nar_sha256 = n.nar_sha256 /\ p.signatures = n.signatures
      /\ p.deriver = n.deriver /\ p.ca = ca
  BY Zenon DEF PathInfo
<1> HIDE DEF p
<1>4. p = PathInfo(p.store_path, p.node, p.references, p.nar_size, p.nar_sha256, p.signatures, p.deriver, p.ca)
  BY <1>3, Zenon DEF p
<1>5. \A i \in DOMAIN p.references : p.references[i] # BadPair /\ PathDigest(p.references[i]) # Malformed
  BY <1>1, <1>3 DEF Range
<1>6. ca = None \/ /\ ca = Some(<<ca[1][1], ca[1][2], ca[1][3]>>)
                   /\ <<ca[1][1], ca[1][2]>> \in HashTypes /\ ca[1][3] # Malformed
  <2>1. CASE n.ca = None
    BY <2>1 DEF ca
  <2>2. CASE n.ca # None
    <3> DEFINE c == n.ca[1]
    <3>1. IsOk(CaFromProto(c))
      BY <1>1, <2>2, SMTT(40)
    <3>2. c.type \in HashTypes /\ c.digest # Malformed /\ CaFromProto(c) = Ok(<<c.type[1], c.type[2], c.digest>>)
      BY <3>1, <1>0, Zenon DEF CaFromProto
    <3>3. ca = Some(<<c.type[1], c.type[2], c.digest>>)
      BY <2>2, <3>2, SMTT(40) DEF ca, Ok
    <3>4. c.type = <<c.type[1], c.type[2]>>
      <4>1. \A h \in HashTypes : h = <<h[1], h[2]>>
        BY DEF HashTypes
      <4> QED
        BY <3>2, <4>1, Zenon
    <3> HIDE DEF c
    <3> QED
      BY <3>2, <3>3, <3>4 DEF Some
  <2> QED
    BY <2>1, <2>2
<1>7. IsSeq(p.signatures)
  BY <1>1, <1>3 DEF MessageOK
<1> QED
  BY <1>1, <1>2, <1>3, <1>4, <1>5, <1>6, <1>7, ZenonT(40) DEF WellFormed

(* A well-formed PathInfo comes back from its message.                     *)
LEMMA RoundTrip ==
    ASSUME NEW p, WellFormed(p)
    PROVE  FromProto(ToProto(p)) = Ok(p)
<1> DEFINE m == ToProto(p)
           pca == IF p.ca = None THEN None ELSE Some(CaToProto(p.ca[1]))
           n == [nar_size |-> p.nar_size, nar_sha256 |-> p.nar_sha256, signatures |-> p.signatures,
                 reference_names |-> p.references, deriver |-> p.deriver, ca |-> pca]
<1>1. m.narinfo = <<n>> /\ m.node = <<<<p.store_path, p.node>>>>
      /\ m.references = [i \in DOMAIN p.references |-> PathDigest(p.references[i])]
  BY DEF ToProto, Some
<1>2. m.narinfo # None /\ m.node # None /\ m.narinfo[1] = n
      /\ m.node[1][1] = p.store_path /\ m.node[1][2] = p.node
  BY <1>1 DEF None
<1>3. Malformed \notin Range(m.references) /\ DOMAIN m.references = DOMAIN p.references
      /\ BadPair \notin Range(p.references)
      /\ \A i \in DOMAIN m.references : PathDigest(p.references[i]) = m.references[i]
  BY <1>1 DEF WellFormed, Range
<1>4. /\ pca = None <=> p.ca = None
      /\ pca # None => IsOk(CaFromProto(pca[1])) /\ Some(CaFromProto(pca[1])[2]) = p.ca
  <2>1. CASE p.ca = None
    BY <2>1, Zenon
  <2>2. CASE p.ca # None
    <3> DEFINE c == p.ca[1]
    <3>1. p.ca = Some(<<c[1], c[2], c[3]>>) /\ <<c[1], c[2]>> \in HashTypes /\ c[3] # Malformed
      BY <2>2 DEF WellFormed
    <3>2. pca[1] = [type |-> <<c[1], c[2]>>, digest |-> c[3]] /\ pca # None
      BY <2>2, Zenon DEF CaToProto, Some, None
    <3>3. CaFromProto(pca[1]) = Ok(<<c[1], c[2], c[3]>>)
      BY <3>1, <3>2 DEF CaFromProto
    <3> QED
      BY <2>2, <3>1, <3>2, <3>3 DEF IsOk, Ok
  <2> QED
    BY <2>1, <2>2
<1> HIDE DEF pca
<1>5. /\ n.nar_size = p.nar_size /\ n.nar_sha256 = p.nar_sha256 /\ n.signatures = p.signatures
      /\ n.reference_names = p.references /\ n.deriver = p.deriver /\ n.ca = pca
  OBVIOUS
<1> HIDE DEF n, m
<1>6. (IF n.ca = None THEN None ELSE Some(CaFromProto(n.ca[1])[2])) = p.ca
  BY <1>4, <1>5, Zenon
<1>7. FromProto(m) = Ok(PathInfo(p.store_path, p.node, p.references, p.nar_size, p.nar_sha256, p.signatures,
                                 p.deriver, p.ca))
  BY <1>2, <1>3, <1>4, <1>5, <1>6, Zenon DEF FromProto, WellFormed
<1> QED
  BY <1>7 DEF WellFormed, m

(* Signing adds one signature, of the server.                              *)
LEMMA SignsWell ==
    ASSUME NEW p, WellFormed(p), ServerKey # Malformed
    PROVE  LET q == SigningPut(ServerKey, p) IN
           /\ WellFormed(q)
           /\ q.node = p.node /\ q.nar_sha256 = p.nar_sha256
           /\ <<ServerKey, fingerprint(to_narinfo(q))>> \in Range(q.signatures)
<1> DEFINE q == SigningPut(ServerKey, p)
           sig == <<ServerKey, <<p.store_path, p.nar_sha256, p.nar_size, p.references>>>>
           sigs == Append(p.signatures, sig)
<1>1. add_signature([to_narinfo(p) EXCEPT !.signatures = <<>>], ServerKey).signatures[1] = sig
  <2> DEFINE b == [to_narinfo(p) EXCEPT !.signatures = <<>>]
  <2>1. /\ b.store_path = p.store_path /\ b.nar_hash = p.nar_sha256 /\ b.nar_size = p.nar_size
        /\ b.references = p.references /\ b.signatures = <<>>
        /\ "signatures" \in DOMAIN b
    BY DEF to_narinfo
  <2>2. fingerprint(b) = <<p.store_path, p.nar_sha256, p.nar_size, p.references>>
    BY <2>1 DEF fingerprint
  <2> HIDE DEF b
  <2>3. add_signature(b, ServerKey).signatures = Append(<<>>, sig)
    BY <2>1, <2>2 DEF add_signature
  <2> QED
    BY <2>3 DEF b
<1>2. q = [p EXCEPT !.signatures = sigs]
  BY <1>1, Zenon DEF SigningPut
<1> HIDE DEF sig
<1>3. q = PathInfo(p.store_path, p.node, p.references, p.nar_size, p.nar_sha256, sigs, p.deriver, p.ca)
  <2> HIDE DEF sigs
  <2> QED
    BY <1>2 DEF WellFormed, PathInfo
<1> HIDE DEF q
<1>4. /\ q.store_path = p.store_path /\ q.node = p.node /\ q.references = p.references
      /\ q.nar_size = p.nar_size /\ q.nar_sha256 = p.nar_sha256 /\ q.signatures = sigs
      /\ q.deriver = p.deriver /\ q.ca = p.ca
  BY <1>3 DEF PathInfo
<1>5. IsSeq(sigs) /\ Range(sigs) = Range(p.signatures) \cup {sig}
  BY SeqAppends DEF WellFormed
<1>6. sig # BadPair
  BY DEF sig, BadPair
<1>7. fingerprint(to_narinfo(q)) = <<p.store_path, p.nar_sha256, p.nar_size, p.references>>
  BY <1>4, Zenon DEF to_narinfo, fingerprint
<1> HIDE DEF sigs
<1>8. WellFormed(q)
  BY <1>3, <1>4, <1>5, <1>6 DEF WellFormed
<1> QED
  BY <1>4, <1>5, <1>7, <1>8 DEF sig, q

(* A narinfo the bridge serves is parsed to what was served.               *)
LEMMA CaBack ==
    ASSUME NEW ca, <<ca[1], ca[2]>> \in HashTypes
    PROVE  from_nix_hex_str(to_nix_nixbase32_string(ca)) = Ok(<<ca[1], ca[2], ca[3]>>)
<1>1. \/ ca[1] = "flat" /\ ca[2] \in {"sha256", "sha1", "md5", "sha512"}
      \/ ca[1] = "nar"
      \/ ca[1] = "text" /\ ca[2] = "sha256"
  BY Zenon DEF HashTypes
<1>2. CASE ca[1] = "flat" /\ ca[2] \in {"sha256", "sha1", "md5", "sha512"}
  BY <1>2, Zenon DEF from_nix_hex_str, to_nix_nixbase32_string
<1>3. CASE ca[1] = "nar"
  BY <1>3, Zenon DEF from_nix_hex_str, to_nix_nixbase32_string
<1>4. CASE ca[1] = "text" /\ ca[2] = "sha256"
  BY <1>4 DEF from_nix_hex_str, to_nix_nixbase32_string
<1> QED
  BY <1>1, <1>2, <1>3, <1>4

(* What the bridge serves for a PathInfo it took, nix_http parses to the   *)
(* same narinfo: Display and parse lose only the compression.              *)
LEMMA ParsesBack ==
    ASSUME NEW p, WellFormed(p)
    PROVE  parse(Display(WithUrl(p))) = Ok(Served(p))
<1> DEFINE url == <<"url", p.node, p.nar_size>>
           n == WithUrl(p)
           t == Display(n)
           c == p.ca[1]
<1>1. n = [store_path |-> p.store_path, nar_hash |-> p.nar_sha256, nar_size |-> p.nar_size,
           references |-> p.references, signatures |-> p.signatures, ca |-> p.ca, system |-> None,
           deriver |-> p.deriver, url |-> url, compression |-> Some("none"),
           file_hash |-> None, file_size |-> None]
  BY DEF WithUrl, to_narinfo
<1>2. Served(p) = [store_path |-> p.store_path, nar_hash |-> p.nar_sha256, nar_size |-> p.nar_size,
           references |-> p.references, signatures |-> p.signatures, ca |-> p.ca, system |-> None,
           deriver |-> p.deriver, url |-> url, compression |-> None,
           file_hash |-> None, file_size |-> None]
  BY <1>1, SMTT(40) DEF Served
<1> HIDE DEF url, n
<1>3. /\ t.StorePath = <<<<p.store_path>>>> /\ t.URL = <<<<url>>>> /\ t.NarHash = <<<<p.nar_sha256>>>>
      /\ t.NarSize = <<<<p.nar_size>>>> /\ t.References = <<<<p.references>>>>
      /\ t.Compression = <<<<"none">>>> /\ t.FileHash = <<>> /\ t.FileSize = <<>> /\ t.System = <<>>
      /\ t.Deriver = Lines(p.deriver)
      /\ t.Sig = [i \in DOMAIN p.signatures |-> <<p.signatures[i]>>]
      /\ t.CA = IF p.ca = None THEN <<>> ELSE <<<<to_nix_nixbase32_string(c)>>>>
  BY <1>1, ZenonT(40) DEF Display, Lines, Some, None
<1> HIDE DEF t
<1>4. p.ca # None => /\ from_nix_hex_str(to_nix_nixbase32_string(c)) = Ok(<<c[1], c[2], c[3]>>)
                     /\ p.ca = Some(<<c[1], c[2], c[3]>>)
  BY CaBack DEF WellFormed
<1>41. /\ p.ca = None => t.CA = <<>>
       /\ p.ca # None => t.CA = <<<<to_nix_nixbase32_string(c)>>>> /\ t.CA # <<>> /\ Len(t.CA) = 1
                        /\ t.CA[1][1] = to_nix_nixbase32_string(c)
  <2> DEFINE x == to_nix_nixbase32_string(c)
  <2>1. (p.ca = None => t.CA = <<>>) /\ (p.ca # None => t.CA = <<<<x>>>>)
    BY <1>3
  <2> HIDE DEF x
  <2>2. <<<<x>>>> # <<>> /\ Len(<<<<x>>>>) = 1 /\ <<<<x>>>>[1][1] = x
    BY Zenon
  <2> QED
    BY <2>1, <2>2, Zenon DEF x
<1>42. /\ DOMAIN t.Sig = DOMAIN p.signatures
       /\ \A i \in DOMAIN p.signatures : t.Sig[i] = <<p.signatures[i]>>
  BY <1>3
<1>43. Len(t.Deriver) \in {0, 1}
  BY <1>3 DEF Lines
<1>44. Len(t.StorePath) = 1 /\ Len(t.URL) = 1 /\ Len(t.NarHash) = 1 /\ Len(t.NarSize) = 1
       /\ Len(t.References) = 1 /\ Len(t.Compression) = 1
  BY <1>3
<1>45. t.StorePath # <<>> /\ t.URL # <<>> /\ t.NarHash # <<>> /\ t.NarSize # <<>> /\ t.References # <<>>
  BY <1>3
<1>5. url # NoUrl
  BY DEF url, NoUrl
<1>6. ~\E tag \in Single \cup {"Sig"} : \E i \in DOMAIN t[tag] : Unreadable(tag, t[tag][i])
  <2> SUFFICES ASSUME NEW tag \in Single \cup {"Sig"}, NEW i \in DOMAIN t[tag], Unreadable(tag, t[tag][i])
               PROVE  FALSE
    OBVIOUS
  <2>1. CASE tag = "URL"
    BY <2>1, <1>3, <1>5 DEF Unreadable, None
  <2>2. CASE tag = "CA"
    BY <2>2, <1>3, <1>4 DEF Unreadable, None, IsOk, Ok
  <2>3. CASE tag = "Sig"
    <3>1. i \in DOMAIN p.signatures /\ t[tag][i] = <<p.signatures[i]>>
      BY <2>3, <1>42
    <3>2. <<p.signatures[i]>> # <<>>
      BY Zenon
    <3> QED
      BY ONLY <2>3, <3>1, <3>2, Unreadable(tag, t[tag][i]) DEF Unreadable, None
  <2>4. CASE tag = "Deriver"
    BY <2>4, <1>3 DEF Unreadable, Lines
  <2>5. CASE tag \in {"StorePath", "NarHash", "NarSize", "References", "Compression"}
    BY <2>5, <1>3 DEF Unreadable, None
  <2>6. CASE tag \in {"FileHash", "FileSize", "System"}
    BY <2>6, <1>3
  <2> QED
    BY <2>1, <2>2, <2>3, <2>4, <2>5, <2>6, Zenon DEF Single, Required
<1>7. \A tag \in Single : ~(Len(t[tag]) > 1)
  <2>1. \A tag \in Single : Len(t[tag]) \in {0, 1}
    <3>1. Len(t.CA) \in {0, 1} /\ Len(t.FileHash) = 0 /\ Len(t.FileSize) = 0 /\ Len(t.System) = 0
      BY <1>3, <1>41
    <3> QED
      BY <1>43, <1>44, <3>1, Zenon DEF Single, Required
  <2>2. \A k \in {0, 1} : ~(k > 1)
    OBVIOUS
  <2> QED
    BY <2>1, <2>2, Zenon
<1>8. \A tag \in Required : t[tag] # <<>>
  BY <1>45, Zenon DEF Required
<1>9. First(t.Deriver) = p.deriver /\ First(t.System) = None
      /\ First(t.FileHash) = None /\ First(t.FileSize) = None
  BY <1>3 DEF First, Lines
<1>10. [i \in DOMAIN t.Sig |-> t.Sig[i][1]] = p.signatures
  <2>1. p.signatures = [i \in DOMAIN p.signatures |-> p.signatures[i]]
    BY SeqFacts DEF WellFormed, IsSeq
  <2> QED
    BY <1>42, <2>1
<1>11. (IF t.CA = <<>> THEN None ELSE Some(from_nix_hex_str(t.CA[1][1])[2])) = p.ca
  BY <1>41, <1>4 DEF Ok
<1>12. (IF t.Compression = <<>> THEN Some("bzip2")
        ELSE IF t.Compression[1][1] = "none" THEN None ELSE t.Compression[1]) = None
  BY <1>3
<1>13. /\ t.StorePath[1][1] = p.store_path /\ t.NarHash[1][1] = p.nar_sha256
       /\ t.NarSize[1][1] = p.nar_size /\ t.References[1][1] = p.references /\ t.URL[1][1] = url
  BY <1>3, SMTT(40)
<1>14. Fields(t) = Served(p)
  BY <1>2, <1>9, <1>10, <1>11, <1>12, <1>13, Zenon DEF Fields
<1>15. parse(t) = Ok(Served(p))
  BY <1>6, <1>7, <1>8, <1>14 DEF parse
<1> QED
  BY <1>15 DEF t, n

-----------------------------------------------------------------------------
(* The LRU holds what was put.                                             *)
LEMMA LruShorter ==
    ASSUME NEW lru, IsSeq(lru), NEW k
    PROVE  LruWithout(lru, k) \in Seq(Range(lru))
<1>1. CASE ~LruHas(lru, k)
  BY <1>1 DEF LruWithout, IsSeq
<1>2. CASE LruHas(lru, k)
  <2>1. PICK j : j = LruAt(lru, k)
    OBVIOUS
  <2>2. j \in DOMAIN lru
    BY <1>2, <2>1 DEF LruHas, LruAt
  <2>3. j \in 1..Len(lru) /\ Len(lru) \in Nat
    BY <2>2, SeqFacts
  <2>4. lru \in Seq(Range(lru))
    BY DEF IsSeq
  <2>5. SubSeq(lru, 1, j - 1) \in Seq(Range(lru)) /\ SubSeq(lru, j + 1, Len(lru)) \in Seq(Range(lru))
    BY <2>3, <2>4
  <2> QED
    BY <1>2, <2>1, <2>5 DEF LruWithout
<1> QED
  BY <1>1, <1>2

(* LruCache::put adds its entry, evicts another one perhaps, and invents   *)
(* none.                                                                   *)
LEMMA LruPutKeeps ==
    ASSUME NEW lru, IsSeq(lru), NEW cap \in Nat \ {0}, NEW k, NEW v
    PROVE  IsSeq(LruPut(lru, cap, k, v)) /\ Range(LruPut(lru, cap, k, v)) \subseteq Range(lru) \cup {<<k, v>>}
<1> DEFINE S == Range(lru) \cup {<<k, v>>}
           others == LruWithout(lru, k)
           kept == IF Len(others) < cap THEN others ELSE SubSeq(others, 1, cap - 1)
<1>1. others \in Seq(S)
  BY LruShorter, Range(lru) \subseteq S
<1> HIDE DEF others, S
<1>2. kept \in Seq(S)
  BY <1>1
<1> HIDE DEF kept
<1>3. <<<<k, v>>>> \in Seq(S)
  BY DEF S
<1>4. LruPut(lru, cap, k, v) \in Seq(S)
  BY <1>2, <1>3 DEF LruPut, kept, others
<1> QED
  BY <1>4 DEF IsSeq, Range, S

(* LruCache::get finds the entry of its key and only reorders the others.  *)
LEMMA LruGetKeeps ==
    ASSUME NEW lru, IsSeq(lru), NEW k, LruHas(lru, k)
    PROVE  /\ \E f \in Range(lru) : f[2] = LruPeek(lru, k) /\ f[1] = k
           /\ IsSeq(LruGet(lru, k))
           /\ \A e \in Range(LruGet(lru, k)) : \E f \in Range(lru) : f[2] = e[2]
<1>1. PICK j : j = LruAt(lru, k)
  OBVIOUS
<1>2. j \in DOMAIN lru /\ lru[j][1] = k
  BY <1>1 DEF LruHas, LruAt
<1>3. lru[j] \in Range(lru) /\ lru[j][2] = LruPeek(lru, k)
  BY <1>1, <1>2 DEF Range, LruPeek
<1> DEFINE e == <<k, LruPeek(lru, k)>>
           S == Range(lru) \cup {e}
<1>4. LruWithout(lru, k) \in Seq(S) /\ <<e>> \in Seq(S)
  BY LruShorter
<1>5. e[2] = lru[j][2]
  BY <1>3
<1> HIDE DEF e
<1>6. LruGet(lru, k) \in Seq(S)
  BY <1>4 DEF LruGet, e
<1>7. IsSeq(LruGet(lru, k)) /\ Range(LruGet(lru, k)) \subseteq S
  BY <1>6 DEF IsSeq, Range
<1> QED
  BY <1>2, <1>3, <1>5, <1>7

-----------------------------------------------------------------------------
(* What was taken, stored and verified stays so.                           *)
Grows == remote \subseteq remote' /\ taken \subseteq taken' /\ local \subseteq local'

(* What a reader verified stays verified: stores and what was taken only   *)
(* grow.                                                                   *)
LEMMA VerifiedStays ==
    ASSUME NEW p, Verified(p), Grows, keys' = keys
    PROVE  Verified(p)'
<1>1. Signed(to_narinfo(p)) <=> Signed(to_narinfo(p))'
  BY Zenon DEF Signed
<1> QED
  BY <1>1 DEF Verified, Grows

(* What another user does leaves the state of this one alone.              *)
LEMMA QuietUser ==
    ASSUME NEW u, UserInv(u), Grows, UNCHANGED <<script, keys>>, user'[u] = user[u]
    PROVE  UserInv(u)'
<1>1. Req(u)' = Req(u)
  BY Zenon DEF Req
<1>2. user[u].at = "put" => MessageOK(user[u].info)' /\ (Req(u).do # "put_message" => Bridged(user[u].info)')
  BY Zenon DEF UserInv, Bridged, MessageOK, Grows
<1>3. user[u].at = "nar" => /\ Signed(user[u].info)'
                            /\ \E a \in taken' : /\ PathDigest(a[2].store_path) = Req(u).digest
                                                 /\ user[u].info = Served(a[2])
  BY Zenon DEF UserInv, Signed, Grows
<1>4. user[u].at = "fill" => /\ PathDigest(user[u].info.store_path) = Req(u).digest
                             /\ Verified(user[u].info)'
  BY VerifiedStays DEF UserInv
<1> QED
  BY <1>1, <1>2, <1>3, <1>4 DEF UserInv

(* A step of one user.                                                     *)
LEMMA UserSteps ==
    ASSUME BridgeInv, NEW u \in Users, NEW r, user' = [user EXCEPT ![u] = r],
           UNCHANGED <<script, backing, keys>>, Grows,
           \A a \in taken' : a \in taken \/ TakenInv(a)',
           infos' = infos \/ InfosInv', root_nodes' = root_nodes \/ RootsInv', near' = near \/ NearInv',
           user'[u] = r => UserInv(u)'
    PROVE  BridgeInv'
<1>1. SetupInv'
  BY Zenon DEF BridgeInv, SetupInv
<1>2. ASSUME NEW a \in taken PROVE TakenInv(a)'
  BY Zenon DEF BridgeInv, TakenInv, Grows
<1>3. infos' = infos => InfosInv'
  <2>1. backing' = backing /\ taken \subseteq taken' /\ InfosInv
    BY DEF BridgeInv, Grows
  <2> QED
    BY <2>1 DEF InfosInv, KeptAs
<1>4. root_nodes' = root_nodes => RootsInv'
  BY DEF BridgeInv, RootsInv, Grows
<1>5. near' = near => NearInv'
  BY VerifiedStays DEF BridgeInv, NearInv
<1>6. user' = [w \in Users |-> user'[w]] /\ user'[u] = r /\ \A w \in Users \ {u} : user'[w] = user[w]
  BY DEF BridgeInv
<1>7. \A w \in Users : UserInv(w)'
  <2>1. ASSUME NEW w \in Users \ {u} PROVE UserInv(w)'
    BY <1>6, QuietUser, Zenon DEF BridgeInv
  <2> QED
    BY <1>6, <2>1
<1> QED
  BY <1>1, <1>2, <1>3, <1>4, <1>5, <1>6, <1>7 DEF BridgeInv

(* A user with nothing in progress that the invariant is about.            *)
LEMMA AnsweredInv ==
    ASSUME NEW u, UserInv(u), NEW w, user'[u] = Answered(user[u], w)
    PROVE  UserInv(u)'
<1> DEFINE k == user[u].next + 1
<1>1. k \in Nat \ {0}
  BY DEF UserInv
<1> HIDE DEF k
<1>2. user'[u] = [next |-> k, at |-> "start", info |-> None, answer |-> w]
  BY Zenon DEF Answered, k
<1>3. user'[u].next = k /\ user'[u].at = "start"
      /\ user'[u] = [next |-> user'[u].next, at |-> user'[u].at, info |-> user'[u].info, answer |-> user'[u].answer]
  BY ONLY <1>2
<1> QED
  BY ONLY <1>1, <1>3, Zenon DEF UserInv

(* A step that answers the request, and stores nothing new.                *)
LEMMA OnlyAnswers ==
    ASSUME BridgeInv, NEW u \in Users, NEW w, Answer(u, w), UNCHANGED <<script, backing, keys, taken>>,
           remote \subseteq remote', local \subseteq local',
           infos' = infos \/ InfosInv', root_nodes' = root_nodes \/ RootsInv', near' = near \/ NearInv'
    PROVE  BridgeInv'
<1>1. user' = [user EXCEPT ![u] = Answered(user[u], w)]
  BY DEF Answer, BridgeInv
<1>2. user'[u] = Answered(user[u], w) => UserInv(u)'
  BY AnsweredInv, Zenon DEF BridgeInv
<1> QED
  BY <1>1, <1>2, UserSteps, Zenon DEF Grows

-----------------------------------------------------------------------------
(* Every store gives back what was taken, and so do message and client.    *)
LEMMA StoredIsTaken ==
    ASSUME BridgeInv, NEW d
    PROVE  LET r == ServiceGet(backing, infos, d) IN
           \/ d \notin DOMAIN infos /\ r = Ok(None)
           \/ d \in DOMAIN infos /\ \E a \in taken : PathDigest(a[2].store_path) = d /\ r = Ok(Some(a[2]))
<1>1. CASE d \notin DOMAIN infos
  BY <1>1 DEF ServiceGet, MemoryGet, RedbGet, BigtableGet, DecodeStored
<1>2. CASE d \in DOMAIN infos
  <2>1. PICK a \in taken : PathDigest(a[2].store_path) = d /\ infos[d] = KeptAs(a[2])
    BY <1>2 DEF BridgeInv, InfosInv
  <2>2. FromProto(ToProto(a[2])) = Ok(a[2])
    BY RoundTrip, Zenon DEF BridgeInv, TakenInv
  <2>3. CASE backing = "memory"
    BY <1>2, <2>1, <2>3, Zenon DEF KeptAs, ServiceGet, MemoryGet
  <2>4. CASE backing # "memory"
    <3>1. infos[d] = ToProto(a[2])
      BY <2>1, <2>4 DEF KeptAs
    <3>2. DecodeStored(infos, d) = Ok(Some(a[2]))
      BY <1>2, <2>2, <3>1 DEF DecodeStored, IsOk, Ok
    <3>3. BigtableGet(infos, d) = Ok(Some(a[2]))
      BY <2>1, <3>2 DEF BigtableGet, Ok, Some
    <3> QED
      BY <1>2, <2>1, <2>4, <3>2, <3>3, Zenon DEF ServiceGet, RedbGet
  <2> QED
    BY <1>2, <2>1, <2>3, <2>4
<1> QED
  BY <1>1, <1>2, Zenon

(* A get over gRPC gives what was taken for that digest, or nothing.       *)
LEMMA GrpcGives ==
    ASSUME BridgeInv, NEW d, NEW r \in GrpcGet(d)
    PROVE  r = Ok(None) \/ \E a \in taken : PathDigest(a[2].store_path) = d /\ r = Ok(Some(a[2]))
<1> DEFINE s == ServiceGet(backing, infos, d)
<1>1. r = Received(Sent(s))
  BY DEF GrpcGet
<1>2. s = Ok(None) \/ \E a \in taken : PathDigest(a[2].store_path) = d /\ s = Ok(Some(a[2]))
  BY StoredIsTaken, Zenon
<1> HIDE DEF s
<1>3. CASE s = Ok(None)
  BY <1>1, <1>3, Zenon DEF Received, Sent, Ok
<1>4. ASSUME NEW a \in taken, PathDigest(a[2].store_path) = d, s = Ok(Some(a[2]))
      PROVE  r = Ok(Some(a[2]))
  <2>1. FromProto(ToProto(a[2])) = Ok(a[2])
    BY RoundTrip, Zenon DEF BridgeInv, TakenInv
  <2>2. Sent(s) = Ok(Some(ToProto(a[2])))
    BY <1>4, Zenon DEF Sent, IsOk, Ok, Some, None
  <2> DEFINE m == ToProto(a[2])
  <2> HIDE DEF m
  <2>3. Received(Ok(Some(m))) = Ok(Some(a[2]))
    BY <2>1 DEF Received, IsOk, Ok, Some, None, m
  <2> QED
    BY <1>1, <2>2, <2>3 DEF m
<1> QED
  BY <1>2, <1>3, <1>4

-----------------------------------------------------------------------------
(* A request is what the script says: its message and signatures are well  *)
(* formed.                                                                 *)
LEMMA Asked ==
    ASSUME BridgeInv, NEW u \in Users, Busy(u)
    PROVE  /\ Req(u).do = "put_message" => MessageOK(Req(u).message)
           /\ Req(u).do = "put_narinfo" => IsSeq(Req(u).text.Sig)
<1>1. PICK s \in Setups : script = s.script
  BY DEF BridgeInv, SetupInv
<1>2. user[u].next \in DOMAIN script[u]
  <2>1. IsSeq(script[u])
    BY <1>1, BridgeAssumption, Zenon
  <2>2. user[u].next \in Nat \ {0} /\ user[u].next <= Len(script[u])
    BY Zenon DEF BridgeInv, UserInv, Busy
  <2> QED
    BY <2>1, <2>2, SeqFacts
<1> QED
  BY <1>1, <1>2, BridgeAssumption, Zenon DEF Req

(* NarInfo::parse keeps the signatures, in order.                          *)
LEMMA ParseSignatures ==
    ASSUME NEW t, NEW n, parse(t) = Ok(n)
    PROVE  n.signatures = [i \in DOMAIN t.Sig |-> t.Sig[i][1]]
<1>1. \A e : Err(e) # Ok(n)
  BY DEF Err, Ok
<1>2. parse(t) = Ok(Fields(t))
  BY <1>1, Zenon DEF parse
<1>3. n = Fields(t)
  BY <1>2 DEF Ok
<1> QED
  BY <1>3 DEF Fields

(* PUT of a NAR remembers the root node it ingested under its NAR hash.    *)
LEMMA PutNarInv ==
    ASSUME BridgeInv, NEW u \in Users, PutNar(u)
    PROVE  BridgeInv'
<1>1. CASE Breaks(u) /\ UNCHANGED <<root_nodes, remote>>
  BY <1>1, OnlyAnswers, Zenon DEF PutNar, Breaks
<1>2. CASE Answer(u, Err("UNAUTHORIZED")) /\ UNCHANGED <<root_nodes, remote, faults>>
  BY <1>2, OnlyAnswers, Zenon DEF PutNar
<1>3. CASE /\ remote' = remote \cup {Req(u).node}
           /\ Answer(u, Err("BAD_REQUEST")) /\ UNCHANGED root_nodes
  BY <1>3, OnlyAnswers, Zenon DEF PutNar
<1>4. CASE /\ remote' = remote \cup {Req(u).node}
           /\ Req(u).hash = NarHash(Req(u).node)
           /\ Answer(u, Ok("ok"))
           /\ root_nodes' = LruPut(root_nodes, RootNodesCapacity, Req(u).hash, Req(u).node)
  <2>1. /\ IsSeq(root_nodes')
        /\ Range(root_nodes') \subseteq Range(root_nodes) \cup {<<Req(u).hash, Req(u).node>>}
    BY <1>4, LruPutKeeps, BridgeAssumption, Zenon DEF BridgeInv, RootsInv
  <2>2. RootsInv'
    BY <1>4, <2>1, SMTT(40) DEF BridgeInv, RootsInv, IsSeq
  <2> QED
    BY <1>4, <2>2, OnlyAnswers, Zenon DEF PutNar
<1> QED
  BY <1>1, <1>2, <1>3, <1>4, Zenon DEF PutNar

(* A step that takes the request further.                                  *)
LEMMA GoesOn ==
    ASSUME BridgeInv, NEW u \in Users, NEW pc, NEW i, Go(u, pc, i),
           UNCHANGED <<script, backing, keys, taken, infos, root_nodes, near>>,
           remote \subseteq remote', local \subseteq local',
           pc = "put" => MessageOK(i) /\ (Req(u).do # "put_message" => Bridged(i)),
           pc = "nar" => /\ Signed(i)
                         /\ \E a \in taken : PathDigest(a[2].store_path) = Req(u).digest /\ i = Served(a[2]),
           pc = "fill" => PathDigest(i.store_path) = Req(u).digest /\ Verified(i)'
    PROVE  BridgeInv'
<1> DEFINE r == [next |-> user[u].next, at |-> pc, info |-> i, answer |-> user[u].answer]
<1>1. user' = [user EXCEPT ![u] = r]
  BY Zenon DEF Go, BridgeInv
<1>2. ASSUME user'[u] = r PROVE UserInv(u)'
  <2>1. r.next = user[u].next /\ r.at = pc /\ r.info = i /\ r = [next |-> r.next, at |-> r.at, info |-> r.info, answer |-> r.answer]
    BY Zenon
  <2> HIDE DEF r
  <2>2. Req(u)' = Req(u)
    BY <1>2, <2>1, Zenon DEF Req
  <2>3. r.next \in Nat \ {0}
    BY <2>1, SMTT(40) DEF BridgeInv, UserInv
  <2>4. MessageOK(i)' = MessageOK(i) /\ (Bridged(i) => Bridged(i)') /\ (Signed(i) => Signed(i)')
    BY ZenonT(40) DEF MessageOK, Bridged, Signed
  <2>5. pc = "put" => MessageOK(i)' /\ (Req(u)'.do # "put_message" => Bridged(i)')
    BY <2>2, <2>4, Zenon
  <2>6. pc = "nar" => /\ Signed(i)'
                      /\ \E a \in taken' : PathDigest(a[2].store_path) = Req(u)'.digest /\ i = Served(a[2])
    BY <2>2, <2>4, Zenon
  <2>7. pc = "fill" => PathDigest(i.store_path) = Req(u)'.digest /\ Verified(i)'
    BY <2>2
  <2> QED
    BY ONLY <1>2, <2>1, <2>3, <2>5, <2>6, <2>7 DEF UserInv
<1> HIDE DEF r
<1> QED
  BY <1>1, <1>2, UserSteps, ZenonT(40) DEF Grows

(* PUT of a narinfo is answered with the root node remembered for its NAR  *)
(* hash.                                                                   *)
LEMMA PutNarinfoInv ==
    ASSUME BridgeInv, NEW u \in Users, PutNarinfo(u)
    PROVE  BridgeInv'
<1>1. UNCHANGED <<script, backing, keys, root_nodes, remote, infos, near, local, taken, faults, restarts>>
  BY Zenon DEF PutNarinfo
<1>2. CASE Answer(u, Err("BAD_REQUEST"))
  BY <1>1, <1>2, OnlyAnswers, Zenon
<1>3. ASSUME NEW n, parse(Req(u).text) = Ok(n), LruHas(root_nodes, n.nar_hash),
             Go(u, "put", ToProto(PathInfo(n.store_path, LruPeek(root_nodes, n.nar_hash),
                                           n.references, n.nar_size, n.nar_hash, n.signatures,
                                           n.deriver, n.ca)))
      PROVE  BridgeInv'
  <2> DEFINE node == LruPeek(root_nodes, n.nar_hash)
             m == ToProto(PathInfo(n.store_path, node, n.references, n.nar_size, n.nar_hash,
                                   n.signatures, n.deriver, n.ca))
  <2>1. n.nar_hash = NarHash(node) /\ node \in remote
    BY <1>3, LruGetKeeps DEF BridgeInv, RootsInv
  <2>2. IsSeq(n.signatures)
    <3> DEFINE sig == Req(u).text.Sig
    <3>1. IsSeq(sig)
      BY Asked, Zenon DEF PutNarinfo, At
    <3>2. n.signatures = [i \in DOMAIN sig |-> sig[i][1]]
      BY <1>3, ParseSignatures, SMTT(40)
    <3> HIDE DEF sig
    <3> QED
      BY <3>1, <3>2, SeqFacts, SMTT(40) DEF IsSeq, Range
  <2> HIDE DEF node
  <2>3. MessageOK(m) /\ m.narinfo[1].nar_sha256 = n.nar_hash /\ m.node[1][2] = node
    BY <2>2, Zenon DEF MessageOK, ToProto, PathInfo, Some
  <2> HIDE DEF m
  <2>4. Go(u, "put", m)
    BY <1>3, Zenon DEF m, node
  <2> QED
    BY <1>1, <2>1, <2>3, <2>4, GoesOn, Zenon DEF Bridged
<1>4. ASSUME NEW r, r = parse(Req(u).text), IsOk(r)
      PROVE  r = Ok(r[2])
  BY <1>4 DEF parse, IsOk, Ok, Err
<1> QED
  BY <1>2, <1>3, <1>4, Zenon DEF PutNarinfo

(* An import makes a PathInfo of contents it has stored.                   *)
LEMMA ImportInv ==
    ASSUME BridgeInv, NEW u \in Users, Import(u)
    PROVE  BridgeInv'
<1>1. UNCHANGED <<script, backing, keys, root_nodes, remote, infos, near, local, taken, restarts>>
  BY DEF Import
<1>2. CASE Breaks(u)
  BY <1>1, <1>2, OnlyAnswers, Zenon DEF Breaks
<1>3. ASSUME NEW r, Answer(u, r) PROVE BridgeInv'
  BY <1>1, <1>3, OnlyAnswers, Zenon
<1>4. ASSUME NEW r, r = CalculateNar(Req(u).node), IsOk(r),
             Go(u, "put", ToProto(PathInfo(Req(u).path, Req(u).node, <<>>, r[2][1], r[2][2], <<>>, None,
                                           Some(<<"nar", "sha256", r[2][2][2]>>))))
      PROVE  BridgeInv'
  <2> DEFINE node == Req(u).node
             ca == Some(<<"nar", "sha256", r[2][2][2]>>)
             m == ToProto(PathInfo(Req(u).path, node, <<>>, r[2][1], r[2][2], <<>>, None, ca))
  <2>1. node \in remote /\ r[2][2] = NarHash(node)
    BY <1>4 DEF CalculateNar, IsOk, Ok, Err
  <2>2. IsSeq(<<>>)
    BY SMTT(40) DEF IsSeq
  <2> HIDE DEF node, ca
  <2>3. MessageOK(m) /\ m.narinfo[1].nar_sha256 = r[2][2] /\ m.node[1][2] = node
    BY <2>2, ZenonT(40) DEF MessageOK, ToProto, PathInfo, Some
  <2> HIDE DEF m
  <2>4. Go(u, "put", m)
    BY <1>4, Zenon DEF m, node, ca
  <2> QED
    BY <1>1, <2>1, <2>3, <2>4, GoesOn, Zenon DEF Bridged
<1> QED
  BY <1>2, <1>3, <1>4, Zenon DEF Import

(* The remaining requests: a local ingestion, a message, HEAD, a NAR by    *)
(* digest, a put through the Cache.                                        *)
LEMMA OtherRequestsInv ==
    ASSUME BridgeInv, NEW u \in Users,
           IngestPath(u) \/ PutMessage(u) \/ HeadNarinfo(u) \/ FetchNar(u) \/ PutThrough(u)
    PROVE  BridgeInv'
<1>1. CASE IngestPath(u)
  BY <1>1, GoesOn, ZenonT(40) DEF IngestPath
<1>2. CASE PutMessage(u)
  <2>1. MessageOK(Req(u).message) /\ Req(u).do = "put_message"
    BY <1>2, Asked, Zenon DEF PutMessage, At
  <2> QED
    BY <1>2, <2>1, GoesOn, ZenonT(40) DEF PutMessage
<1>3. CASE HeadNarinfo(u)
  BY <1>3, OnlyAnswers, Zenon DEF HeadNarinfo
<1>4. CASE FetchNar(u)
  BY <1>4, OnlyAnswers, Zenon DEF FetchNar
<1>5. CASE PutThrough(u)
  BY <1>5, OnlyAnswers, SMTT(40) DEF PutThrough
<1> QED
  BY <1>1, <1>2, <1>3, <1>4, <1>5, SMTT(40)

(* What the cache takes is well-formed, signed, and kept under its digest. *)
LEMMA Takes ==
    ASSUME BridgeInv, NEW u \in Users, NEW w, Answer(u, w), Busy(u), user[u].at = "put",
           NEW p, NEW o, IsOk(FromProto(user[u].info)),
           p = SigningPut(ServerKey, FromProto(user[u].info)[2]),
           o = (IF Req(u).do = "put_message" THEN "message" ELSE "bridge"),
           infos' = ServicePut(backing, infos, p), taken' = taken \cup {<<o, p>>},
           UNCHANGED <<script, backing, keys, root_nodes, remote, near, local>>
    PROVE  BridgeInv'
<1> DEFINE m == user[u].info
           q == FromProto(m)[2]
<1>1. MessageOK(m) /\ (Req(u).do # "put_message" => Bridged(m))
  BY DEF BridgeInv, UserInv
<1>2. WellFormed(q) /\ q.node = m.node[1][2] /\ q.nar_sha256 = m.narinfo[1].nar_sha256
  BY <1>1, DecodedWellFormed, Zenon
<1>3. /\ WellFormed(p) /\ p.node = q.node /\ p.nar_sha256 = q.nar_sha256
      /\ <<ServerKey, fingerprint(to_narinfo(p))>> \in Range(p.signatures)
  BY <1>2, SignsWell, BridgeAssumption, ZenonT(40)
<1>4. o = "bridge" => p.nar_sha256 = NarHash(p.node) /\ p.node \in remote
  BY <1>1, <1>2, <1>3, ZenonT(40) DEF Bridged
<1> HIDE DEF q, m
<1>5. TakenInv(<<o, p>>)'
  BY <1>3, <1>4, Zenon DEF TakenInv
<1>6. InfosInv'
  <2> DEFINE d == PathDigest(p.store_path)
  <2>1. infos' = infos \/ infos' = [e \in DOMAIN infos \cup {d} |-> IF e = d THEN KeptAs(p) ELSE infos[e]]
    BY BridgeAssumption, ZenonT(40)
    DEF BridgeInv, SetupInv, ServicePut, MemoryPut, RedbPut, BigtablePut, Insert, KeptAs
  <2>2. ASSUME NEW x PROVE KeptAs(x)' = KeptAs(x)
    BY ZenonT(40) DEF KeptAs
  <2>3. <<o, p>> \in taken' /\ <<o, p>>[2] = p /\ taken \subseteq taken'
    BY Zenon
  <2> HIDE DEF d
  <2>4. \A e \in DOMAIN infos' :
          \E a \in taken' : PathDigest(a[2].store_path) = e /\ infos'[e] = KeptAs(a[2])
    <3> SUFFICES ASSUME NEW e \in DOMAIN infos'
                 PROVE  \E a \in taken' : PathDigest(a[2].store_path) = e /\ infos'[e] = KeptAs(a[2])
      BY Zenon
    <3>1. CASE infos'[e] = infos[e] /\ e \in DOMAIN infos
      BY <2>3, <3>1, SMTT(40) DEF BridgeInv, InfosInv
    <3>2. CASE e = d /\ infos'[e] = KeptAs(p)
      BY <2>3, <3>2, Zenon DEF d
    <3> QED
      BY <2>1, <3>1, <3>2, Zenon
  <2>5. infos' = [e \in DOMAIN infos' |-> infos'[e]]
    BY <2>1, Zenon DEF BridgeInv, InfosInv
  <2> QED
    BY <2>2, <2>4, <2>5, SMTT(40) DEF InfosInv
<1>7. user' = [user EXCEPT ![u] = Answered(user[u], w)]
  BY DEF Answer, BridgeInv
<1>8. user'[u] = Answered(user[u], w) => UserInv(u)'
  BY AnsweredInv, Zenon DEF BridgeInv
<1>9. Grows /\ \A a \in taken' : a \in taken \/ TakenInv(a)'
  BY <1>5, ZenonT(40) DEF Grows
<1> QED
  BY <1>6, <1>7, <1>8, <1>9, UserSteps, ZenonT(40)

(* PathInfoService.Put: decoded, validated, signed, then kept.             *)
LEMMA GrpcPutInv ==
    ASSUME BridgeInv, NEW u \in Users, GrpcPut(u)
    PROVE  BridgeInv'
<1>1. UNCHANGED <<script, backing, keys, root_nodes, remote, near, local, restarts>> /\ Busy(u) /\ user[u].at = "put"
  BY DEF GrpcPut
<1>2. PICK w : /\ Answer(u, w)
               /\ \/ UNCHANGED <<infos, taken>>
                  \/ \E p : /\ IsOk(FromProto(user[u].info))
                            /\ p = SigningPut(ServerKey, FromProto(user[u].info)[2])
                            /\ infos' = ServicePut(backing, infos, p)
                            /\ taken' = taken \cup {<<IF Req(u).do = "put_message" THEN "message" ELSE "bridge", p>>}
  <2>1. PICK r, p : /\ r = FromProto(user[u].info)
                    /\ p = IF IsOk(r) THEN SigningPut(ServerKey, r[2]) ELSE None
                    /\ \/ Breaks(u) /\ UNCHANGED <<infos, taken>>
                       \/ Answer(u, Err("StorageError")) /\ UNCHANGED <<infos, taken>>
                       \/ /\ IsOk(r)
                          /\ infos' = ServicePut(backing, infos, p)
                          /\ taken' = taken \cup {<<IF Req(u).do = "put_message" THEN "message" ELSE "bridge", p>>}
                          /\ Breaks(u) \/ Answer(u, FromProto(ToProto(p)))
    BY Zenon DEF GrpcPut
  <2>2. Breaks(u) => Answer(u, Err("connection"))
    BY DEF Breaks
  <2> QED
    BY <2>1, <2>2, Zenon
<1>3. CASE UNCHANGED <<infos, taken>>
  BY <1>1, <1>2, <1>3, OnlyAnswers
<1> QED
  BY <1>1, <1>2, <1>3, Takes, ZenonT(40)

-----------------------------------------------------------------------------
(* The Cache looks into near first.                                        *)
LEMMA GetNearInv ==
    ASSUME BridgeInv, NEW u \in Users, GetNear(u)
    PROVE  BridgeInv'
<1>1. UNCHANGED <<script, backing, keys, root_nodes, remote, infos, local, taken, faults, restarts>>
  BY Zenon DEF GetNear
<1>2. CASE Go(u, "narinfo", None) /\ UNCHANGED near
  BY <1>1, <1>2, GoesOn, Zenon
<1>3. ASSUME NEW w, Answer(u, w), LruHas(near, Req(u).digest), near' = LruGet(near, Req(u).digest)
      PROVE  BridgeInv'
  <2>1. IsSeq(near') /\ \A e \in Range(near') : \E f \in Range(near) : f[2] = e[2]
    BY <1>3, LruGetKeeps DEF BridgeInv, NearInv
  <2>2. ASSUME NEW x, Verified(x) PROVE Verified(x)'
    BY <1>1, <2>2, VerifiedStays DEF Grows
  <2>3. \A e \in Range(near) : Verified(e[2])
    BY DEF BridgeInv, NearInv
  <2>4. NearInv'
    BY <2>1, <2>2, <2>3, Zenon DEF NearInv, IsSeq, Range
  <2> QED
    BY <1>1, <1>3, <2>4, OnlyAnswers, Zenon
<1> QED
  BY <1>2, <1>3, Zenon DEF GetNear

(* nix_http goes on with a narinfo only if it parses and has a signature   *)
(* of a trusted key.                                                       *)
LEMMA GetNarinfoInv ==
    ASSUME BridgeInv, NEW u \in Users, GetNarinfo(u)
    PROVE  BridgeInv'
<1>1. UNCHANGED <<script, backing, keys, root_nodes, remote, infos, near, local, taken, restarts>>
  BY Zenon DEF GetNarinfo
<1>2. ASSUME NEW w, Answer(u, w) PROVE BridgeInv'
  BY <1>1, <1>2, OnlyAnswers
<1>3. CASE Breaks(u)
  BY <1>2, <1>3, SMTT(40) DEF Breaks
<1> DEFINE Accepts(r, resp, n) ==
             /\ r \in GrpcGet(Req(u).digest) /\ resp \in {Failure, NarinfoResponse(r)}
             /\ n = parse(resp.text) /\ resp.status # 404 /\ IsOk(n) /\ Signed(n[2])
             /\ Go(u, "nar", n[2])
<1>4. ASSUME NEW r, NEW resp, NEW n, Accepts(r, resp, n)
      PROVE  BridgeInv'
  <2>1. ~IsOk(parse(NoText))
    <3>1. "URL" \in Required /\ NoText["URL"] = <<>>
      BY DEF Required, Single, NoText
    <3> QED
      BY <3>1 DEF parse, IsOk, Err
  <2>2. resp = NarinfoResponse(r) /\ r # Ok(None)
    <3>1. resp # Failure
      BY <1>4, <2>1, SMTT(40) DEF Failure
    <3>2. NarinfoResponse(Ok(None)).text = NoText
      BY DEF NarinfoResponse, IsOk, Ok
    <3> QED
      BY <1>4, <2>1, <3>1, <3>2
  <2>3. PICK a \in taken : PathDigest(a[2].store_path) = Req(u).digest /\ r = Ok(Some(a[2]))
    BY <1>4, <2>2, GrpcGives, SMTT(40)
  <2>4. resp.text = Display(WithUrl(a[2]))
    BY <2>2, <2>3 DEF NarinfoResponse, IsOk, Ok, Some, None
  <2>5. n[2] = Served(a[2])
    <3>1. WellFormed(a[2])
      BY Zenon DEF BridgeInv, TakenInv
    <3>2. n = Ok(Served(a[2]))
      BY <1>4, <2>4, <3>1, ParsesBack
    <3> QED
      BY <3>2 DEF Ok
  <2> QED
    BY <1>1, <1>4, <2>3, <2>5, GoesOn, ZenonT(40)
<1>5. CASE ~Breaks(u)
  <2>1. PICK failure \in {FALSE, faults > 0} :
          \E r \in GrpcGet(Req(u).digest) :
          \E resp \in {IF failure THEN Failure ELSE NarinfoResponse(r)} :
          \E n \in {parse(resp.text)} :
             IF resp.status = 404 THEN Answer(u, Ok(None))
             ELSE IF ~IsOk(n) THEN Answer(u, Err("InvalidData"))
             ELSE IF ~Signed(n[2]) THEN Answer(u, Err("no valid signature found"))
             ELSE Go(u, "nar", n[2])
    BY <1>5, Zenon DEF GetNarinfo
  <2>2. PICK r \in GrpcGet(Req(u).digest) :
          \E resp \in {IF failure THEN Failure ELSE NarinfoResponse(r)} :
          \E n \in {parse(resp.text)} :
             IF resp.status = 404 THEN Answer(u, Ok(None))
             ELSE IF ~IsOk(n) THEN Answer(u, Err("InvalidData"))
             ELSE IF ~Signed(n[2]) THEN Answer(u, Err("no valid signature found"))
             ELSE Go(u, "nar", n[2])
    BY <2>1, Zenon
  <2>3. PICK resp \in {IF failure THEN Failure ELSE NarinfoResponse(r)} :
          \E n \in {parse(resp.text)} :
             IF resp.status = 404 THEN Answer(u, Ok(None))
             ELSE IF ~IsOk(n) THEN Answer(u, Err("InvalidData"))
             ELSE IF ~Signed(n[2]) THEN Answer(u, Err("no valid signature found"))
             ELSE Go(u, "nar", n[2])
    BY <2>2, Zenon
  <2>4. PICK n : n = parse(resp.text)
    OBVIOUS
  <2>5. resp \in {Failure, NarinfoResponse(r)}
    BY <2>3, Zenon
  <2>6. \/ \E w : Answer(u, w)
        \/ resp.status # 404 /\ IsOk(n) /\ Signed(n[2]) /\ Go(u, "nar", n[2])
    BY <2>3, <2>4, Zenon
  <2>7. CASE \E w : Answer(u, w)
    BY <1>2, <2>7, Zenon
  <2>8. CASE resp.status # 404 /\ IsOk(n) /\ Signed(n[2]) /\ Go(u, "nar", n[2])
    <3>1. Accepts(r, resp, n)
      BY <2>4, <2>5, <2>8, Zenon
    <3> HIDE DEF Accepts
    <3> QED
      BY <1>4, <3>1, Zenon
  <2> QED
    BY <2>6, <2>7, <2>8
<1> QED
  BY <1>3, <1>5, Zenon

(* nix_http goes on with the contents only if they have the hash and size  *)
(* of the narinfo.                                                         *)
LEMMA GetNarInv ==
    ASSUME BridgeInv, NEW u \in Users, GetNar(u)
    PROVE  BridgeInv'
<1> DEFINE n == user[u].info
           node == n.url[2]
           p == PathInfo(n.store_path, node, n.references, n.nar_size, n.nar_hash, n.signatures,
                         n.deriver, n.ca)
<1>1. UNCHANGED <<script, backing, keys, root_nodes, remote, infos, near, taken, restarts>>
  BY Zenon DEF GetNar
<1>2. ASSUME NEW w, Answer(u, w), local' = local \/ local' = local \cup {node} PROVE BridgeInv'
  BY <1>1, <1>2, OnlyAnswers, Zenon
<1>3. ASSUME local' = local \cup {node}, Matches(n, node), Go(u, "fill", p) PROVE BridgeInv'
  <2>1. Signed(n)
    BY Zenon DEF BridgeInv, UserInv, GetNar, At
  <2>2. PICK a \in taken : PathDigest(a[2].store_path) = Req(u).digest /\ n = Served(a[2])
    BY Zenon DEF BridgeInv, UserInv, GetNar, At
  <2>3. /\ n.store_path = a[2].store_path /\ n.nar_hash = a[2].nar_sha256 /\ n.nar_size = a[2].nar_size
        /\ n.references = a[2].references /\ n.signatures = a[2].signatures /\ n.ca = a[2].ca
        /\ n.deriver = a[2].deriver /\ n.url = <<"url", a[2].node, a[2].nar_size>>
    <3> DEFINE b == a[2]
    <3>1. n = Served(b)
      BY <2>2
    <3> HIDE DEF b, n
    <3>2. WithUrl(b) = [store_path |-> b.store_path, nar_hash |-> b.nar_sha256, nar_size |-> b.nar_size,
             references |-> b.references, signatures |-> b.signatures, ca |-> b.ca, system |-> None,
             deriver |-> b.deriver, url |-> <<"url", b.node, b.nar_size>>, compression |-> Some("none"),
             file_hash |-> None, file_size |-> None]
      BY SMTT(40) DEF WithUrl, to_narinfo
    <3> QED
      BY <3>1, <3>2 DEF Served, b
  <2>4. node = a[2].node
    BY <2>3, SMTT(40)
  <2> HIDE DEF node, n
  <2>5. p = a[2] /\ a = <<a[1], a[2]>> /\ a[1] \in {"bridge", "message"}
    BY <2>3, <2>4, Zenon DEF BridgeInv, TakenInv, WellFormed
  <2>6. fingerprint(to_narinfo(p)) = fingerprint(n) /\ to_narinfo(p).signatures = n.signatures
    BY <2>3, <2>5, Zenon DEF fingerprint, to_narinfo
  <2>7. Signed(to_narinfo(p))
    BY <2>1, <2>6, SMTT(40) DEF Signed
  <2>8. p.nar_sha256 = NarHash(p.node) /\ p.nar_size = NarSizes[p.node] /\ p.node = node
    BY <1>3, <2>3, <2>4, <2>5, Zenon DEF Matches
  <2>9. Go(u, "fill", p) /\ node \in local' /\ PathDigest(p.store_path) = Req(u).digest
    BY <1>3, <2>2, <2>5
  <2> HIDE DEF p
  <2>10. PICK q : q = p
    OBVIOUS
  <2>11. Verified(q)'
    <3>1. Signed(to_narinfo(q))'
      BY <1>1, <2>7, <2>10, Zenon DEF Signed
    <3>2. \E o \in {"bridge", "message"} : <<o, q>> \in taken'
      BY <1>1, <2>5, <2>10
    <3> QED
      BY <2>8, <2>9, <2>10, <3>1, <3>2, Zenon DEF Verified
  <2> QED
    BY <1>1, <1>3, <2>9, <2>10, <2>11, GoesOn, Zenon
<1>4. Breaks(u) => Answer(u, Err("connection"))
  BY DEF Breaks
<1>5. \/ (local' = local \/ local' = local \cup {node}) /\ \E w : Answer(u, w)
      \/ local' = local \cup {node} /\ Matches(n, node) /\ Go(u, "fill", p)
  BY <1>4, Zenon DEF GetNar
<1> QED
  BY <1>2, <1>3, <1>5, Zenon

(* What was verified is put into near.                                     *)
LEMMA FillNearInv ==
    ASSUME BridgeInv, NEW u \in Users, FillNear(u)
    PROVE  BridgeInv'
<1> DEFINE p == user[u].info
<1>1. UNCHANGED <<script, backing, keys, root_nodes, remote, infos, local, taken, faults, restarts>>
      /\ Answer(u, Ok(Some(p)))
  BY Zenon DEF FillNear
<1>2. Verified(p)
  BY DEF BridgeInv, UserInv, FillNear, At
<1>3. ASSUME NEW x, Verified(x) PROVE Verified(x)'
  BY <1>1, <1>3, VerifiedStays, Zenon DEF Grows
<1>4. IsSeq(near') /\ Range(near') \subseteq Range(near) \cup {<<PathDigest(p.store_path), p>>}
  BY LruPutKeeps, BridgeAssumption, Zenon DEF BridgeInv, NearInv, FillNear
<1>5. \A e \in Range(near') : Verified(e[2])
  <2> HIDE DEF p
  <2>1. <<PathDigest(p.store_path), p>>[2] = p
    OBVIOUS
  <2> QED
    BY <1>2, <1>4, <2>1 DEF BridgeInv, NearInv
<1>6. NearInv'
  BY <1>3, <1>4, <1>5, Zenon DEF NearInv, IsSeq, Range
<1> QED
  BY <1>1, <1>6, OnlyAnswers, Zenon

(* A restart of the bridge empties the LRU of root nodes and nothing else. *)
LEMMA RestartInv ==
    ASSUME BridgeInv, Restart
    PROVE  BridgeInv'
<1>1. UNCHANGED <<script, backing, keys, remote, near, local, taken, faults>> /\ Grows
  BY Zenon DEF Restart, Grows
<1>2. SetupInv' /\ (\A a \in taken' : TakenInv(a)')
  BY <1>1, Zenon DEF BridgeInv, SetupInv, TakenInv
<1>3. InfosInv'
  BY <1>1 DEF BridgeInv, InfosInv, KeptAs, Restart
<1>4. RootsInv'
  BY DEF Restart, RootsInv, IsSeq, Range
<1>5. NearInv'
  BY <1>1, VerifiedStays, Zenon DEF BridgeInv, NearInv
<1>6. user' = [u \in Users |-> user'[u]]
  BY Zenon DEF Restart
<1>7. ASSUME NEW u \in Users PROVE UserInv(u)'
  <2>1. CASE user'[u] = user[u]
    BY <1>1, <2>1, QuietUser, SMTT(40) DEF BridgeInv
  <2>2. CASE user'[u] = Answered(user[u], Err("connection"))
    BY <2>2, AnsweredInv, Zenon DEF BridgeInv
  <2> QED
    BY <2>1, <2>2, Zenon DEF Restart
<1> QED
  BY <1>2, <1>3, <1>4, <1>5, <1>6, <1>7, Zenon DEF BridgeInv

-----------------------------------------------------------------------------
(* The invariant holds at first.                                           *)
LEMMA BridgeInitial == BridgeInit => BridgeInv
<1> SUFFICES ASSUME BridgeInit PROVE BridgeInv
  BY Zenon
<1>1. SetupInv /\ (\A a \in taken : TakenInv(a))
  BY Zenon DEF BridgeInit, SetupInv
<1>2. InfosInv
  BY DEF BridgeInit, InfosInv
<1>3. RootsInv /\ NearInv
  BY SMTT(40) DEF BridgeInit, RootsInv, NearInv, IsSeq, Range
<1>4. ASSUME NEW u \in Users PROVE UserInv(u)
  <2>1. user[u] = [next |-> 1, at |-> "start", info |-> None, answer |-> Ok(None)]
    BY Zenon DEF BridgeInit
  <2> QED
    BY ONLY <2>1 DEF UserInv
<1>5. user = [u \in Users |-> user[u]]
  BY DEF BridgeInit
<1> QED
  BY <1>1, <1>2, <1>3, <1>4, <1>5 DEF BridgeInv

(* No step of users, bridge or stores leaves the invariant.                *)
LEMMA BridgeSteps == BridgeInv /\ [BridgeNext]_bridgeVars => BridgeInv'
<1> SUFFICES ASSUME BridgeInv, [BridgeNext]_bridgeVars PROVE BridgeInv'
  BY Zenon
<1>1. ASSUME NEW u \in Users, UserStep(u) PROVE BridgeInv'
  BY <1>1, PutNarInv, PutNarinfoInv, ImportInv, GrpcPutInv, OtherRequestsInv, GetNearInv, GetNarinfoInv,
     GetNarInv, FillNearInv, Zenon DEF UserStep
<1>2. CASE Restart
  BY <1>2, RestartInv
<1>3. CASE UNCHANGED bridgeVars
  <2>1. UNCHANGED <<script, backing, keys, root_nodes, remote, infos, near, local, user, taken>>
    BY <1>3 DEF bridgeVars
  <2>2. Grows
    BY <2>1, Zenon DEF Grows
  <2>3. SetupInv' /\ (\A a \in taken' : TakenInv(a)') /\ InfosInv' /\ RootsInv'
    BY <2>1 DEF BridgeInv, SetupInv, TakenInv, InfosInv, KeptAs, RootsInv
  <2>4. NearInv'
    BY <2>1, <2>2, VerifiedStays, Zenon DEF BridgeInv, NearInv
  <2>5. user' = [u \in Users |-> user'[u]] /\ \A u \in Users : UserInv(u)'
    BY <2>1, <2>2, QuietUser DEF BridgeInv
  <2> QED
    BY <2>3, <2>4, <2>5, Zenon DEF BridgeInv
<1> QED
  BY <1>1, <1>2, <1>3 DEF BridgeNext, UsersNext

(* BridgeInvariance: whatever users upload, put, import and read, and      *)
(* whatever breaks: what the cache keeps, what messages and narinfos on    *)
(* their way hold, and what readers keep, belongs together as BridgeInv    *)
(* states.                                                                 *)
THEOREM BridgeInvariance == BridgeSpec => []BridgeInv
<1> QED
  BY BridgeInitial, BridgeSteps, PTL DEF BridgeSpec

(* CacheAlwaysConsistent: CacheConsistent, for any requests, any number of *)
(* users, and each store.                                                  *)
THEOREM CacheAlwaysConsistent == BridgeSpec => []CacheConsistent
<1>1. ASSUME BridgeInv PROVE CacheConsistent
  <2>1. ASSUME NEW d \in DOMAIN infos
        PROVE  LET r == ServiceGet(backing, infos, d) IN
               /\ IsOk(r)
               /\ PathDigest(r[2][1].store_path) = d
               /\ \E a \in taken : a[2] = r[2][1]
    BY <1>1, StoredIsTaken DEF IsOk, Ok, Some
  <2>2. ASSUME NEW a \in taken
        PROVE  /\ <<ServerKey, fingerprint(to_narinfo(a[2]))>> \in Range(a[2].signatures)
               /\ a[1] = "bridge" => a[2].nar_sha256 = NarHash(a[2].node) /\ a[2].node \in remote
    BY <1>1, Zenon DEF BridgeInv, TakenInv
  <2> QED
    BY <2>1, <2>2, Zenon DEF CacheConsistent
<1> QED
  BY <1>1, BridgeInvariance, PTL

(* DownloadsAlwaysVerified: DownloadsVerified, likewise.                   *)
THEOREM DownloadsAlwaysVerified == BridgeSpec => []DownloadsVerified
<1>1. ASSUME BridgeInv PROVE DownloadsVerified
  <2>1. ASSUME NEW u \in Users, At(u, "get", "fill") PROVE PathDigest(user[u].info.store_path) = Req(u).digest
    BY <1>1, <2>1 DEF BridgeInv, UserInv, At
  <2>2. ASSUME NEW i \in DOMAIN near PROVE Verified(near[i][2])
    BY <1>1 DEF BridgeInv, NearInv, Range
  <2> QED
    BY <2>1, <2>2, Zenon DEF DownloadsVerified, Verified
<1> QED
  BY <1>1, BridgeInvariance, PTL
=============================================================================
