---------------------------- MODULE ProofAssets ----------------------------
(***************************************************************************)
(* The files a browser proof is made from (internal/proofassets,           *)
(* internal/streampk and the loaders of cmd/wasm-prover): the signed key   *)
(* manifest, the verifying key, the index of the proving key, the signed   *)
(* chunk manifest, the deployment manifest, the programs, the constraint   *)
(* system and the chunks of the proving key.                               *)
(*                                                                         *)
(* A server and its caches may hold files of several releases at a time, so *)
(* every fetch may answer with the file of any release.  A digest is the   *)
(* content it is taken of; a detached signature is the content it signs.   *)
(* A byte of a proving key is the pair of the key and its offset.          *)
(***************************************************************************)
EXTENDS Integers, Sequences, FiniteSets

\* A release: its key, the sizes of the key's sections, the chunk size, the
\* programs it ships, and the deployment it belongs to.
CONSTANTS Releases, Header, ElemSizes

ASSUME AssetAssumption ==
  /\ Header \in Nat
  /\ ElemSizes \subseteq Nat \ {0}
  /\ \A r \in Releases :
        /\ r.chunkSize \in Nat
        /\ r.sections \in Seq([count : Nat, elem : ElemSizes])

\* A deployment id names its network (isMainnetDeployment).
ASSUME DeploymentAssumption ==
  \A r, s \in Releases : r.deployment = s.deployment => r.mainnet = s.mainnet

\* Whatever a chunk table claims of places and sizes, the digests in it were
\* taken of the pieces of the key in their order.
ASSUME TableAssumption ==
  \A r \in Releases :
    /\ Len(r.table) \in Nat /\ DOMAIN r.table = 1 .. Len(r.table)
    /\ \A i \in DOMAIN r.table :
          /\ r.table[i].size \in Nat
          /\ r.table[i].digest.key = r.key
          /\ r.table[i].digest.from = (i - 1) * r.chunkSize

Least(a, b) == IF a < b THEN a ELSE b

\* What a loop over pieces of the given sizes has counted after each of them.
Totals(start, sizes) ==
  LET sum[i \in 0 .. Len(sizes)] == IF i = 0 THEN start ELSE sum[i - 1] + sizes[i]
  IN sum

----------------------------------------------------------------------------
\* What a release is generated as.

\* BuildPKIndex: the sections follow each other behind the header, each behind
\* the field with its count (readSection), which takes one byte here.
BuildPKIndex(r) ==
  LET Size(i) == r.sections[i].count * r.sections[i].elem
      end == Totals(Header, [i \in DOMAIN r.sections |-> 1 + Size(i)])
  IN [fileSize |-> end[Len(r.sections)],
      sections |-> [i \in DOMAIN r.sections |->
                      [offset |-> end[i - 1] + 1, elem |-> r.sections[i].elem, len |-> Size(i)]]]

FileSize(r) == BuildPKIndex(r).fileSize

\* Bytes of a proving key file, and the i-th of them.
Bytes(r, from, size) == [key |-> r.key, from |-> from, size |-> size]
Byte(bytes, i) == <<bytes.key, bytes.from + i>>

\* BuildChunkPins: the file in pieces of chunkSize, the last one shorter.
BuildChunkPins(r) ==
  LET count == (FileSize(r) + r.chunkSize - 1) \div r.chunkSize
      From(i) == (i - 1) * r.chunkSize
      Size(i) == Least(r.chunkSize, FileSize(r) - From(i))
  IN [i \in 1 .. count |->
        [index |-> i - 1, offset |-> From(i), size |-> Size(i),
         digest |-> Bytes(r, From(i), Size(i))]]

keyManifest(r) ==
  [key |-> r.key, vk |-> r.key, provingKeySize |-> FileSize(r), ccs |-> r.key]

deploymentManifest(r) ==
  [id |-> r.deployment, vk |-> r.key, mainnet |-> r.mainnet, mpc |-> r.mpc]

\* GenerateChunkManifest.  r.table, when it is not empty, stands for a chunk
\* table that BuildChunkPins did not make: a manifest is signed as a file of its
\* own, and the browser trusts the signature only together with its own checks.
GenerateChunkManifest(r) ==
  [coherence  |-> [manifest |-> keyManifest(r), vk |-> r.key,
                   provingKeySize |-> FileSize(r), deployment |-> r.deployment, mpc |-> r.mpc],
   chunkSize  |-> r.chunkSize,
   chunks     |-> IF r.table = <<>> THEN BuildChunkPins(r) ELSE r.table,
   index      |-> BuildPKIndex(r),
   assets     |-> [vk |-> r.key, ccs |-> r.key, software |-> r.software]]

Software == {"proof wasm", "worker js", "msm wasm"}

Files == {"manifest", "manifest sig", "vk", "ccs", "ccs zst", "pk index", "chunk manifest",
          "chunk manifest sig", "deployment"} \cup Software

\* The files of a release.
Content ==
  [r \in Releases |-> [file \in Files |->
     CASE file \in {"manifest", "manifest sig"}             -> keyManifest(r)
       [] file \in {"vk", "ccs", "ccs zst"}                 -> r.key
       [] file = "pk index"                                 -> BuildPKIndex(r)
       [] file \in {"chunk manifest", "chunk manifest sig"} -> GenerateChunkManifest(r)
       [] file = "deployment"                               -> deploymentManifest(r)
       [] file \in Software                                 -> r.software]]

----------------------------------------------------------------------------
\* What is checked before a file is used.

\* VerifyDetachedSignature.
VerifyDetachedSignature(raw, signature) == raw = signature

\* validateChunks: the chunks follow each other without a gap from 0 to the end
\* of the file, and all but the last have the chunk size.
validateChunks(m) ==
  LET next == Totals(0, [i \in DOMAIN m.chunks |-> m.chunks[i].size])
  IN /\ m.chunkSize > 0
     /\ m.chunks # <<>>
     /\ \A i \in DOMAIN m.chunks :
          /\ m.chunks[i].index = i - 1
          /\ m.chunks[i].offset = next[i - 1]
          /\ m.chunks[i].size > 0
          /\ i < Len(m.chunks) => m.chunks[i].size = m.chunkSize
     /\ next[Len(m.chunks)] = m.coherence.provingKeySize

\* ValidatePKIndex.  Sections that overlap are not rejected.
ValidatePKIndex(index) ==
  /\ index.fileSize > 0
  /\ \A i \in DOMAIN index.sections :
       LET sec == index.sections[i] IN
       /\ sec.offset >= 0 /\ sec.len >= 0
       /\ sec.elem \in ElemSizes
       /\ sec.len % sec.elem = 0
       /\ sec.offset + sec.len <= index.fileSize

\* validateManifestIndex: the index of the chunk manifest.
validateManifestIndex(m) ==
  /\ m.index.fileSize = m.coherence.provingKeySize
  /\ ValidatePKIndex(m.index)

\* ValidateReclaimDeployment: the deployment verifies with the key's own
\* verifying key, and a mainnet deployment names its ceremony.
ValidateReclaimDeployment(d, manifest) ==
  /\ d.vk = manifest.vk
  /\ d.mainnet => d.mpc # "none"

\* validateAgainstKeyManifest and ValidateKeyManifestAssetDigests.
validateAgainstKeyManifest(m, manifest) ==
  /\ m.coherence.vk = manifest.vk
  /\ m.coherence.provingKeySize = manifest.provingKeySize
  /\ m.assets.vk = manifest.vk
  /\ m.assets.ccs = manifest.ccs

\* ValidateChunkManifest with the expectations of openChunkManifestPreflight.
ValidateChunkManifest(m, manifest, d) ==
  /\ validateChunks(m)
  /\ validateManifestIndex(m)
  /\ validateAgainstKeyManifest(m, manifest)
  /\ m.coherence.manifest = manifest
  /\ m.coherence.deployment = d.id
  /\ m.coherence.mpc = d.mpc

\* Mutant of validatePinnedPKIndex: only the size is compared.
validatePinnedPKIndexSize(m, index) == m.index.fileSize = index.fileSize

\* validatePinnedPKIndex: the index the key is read with is the pinned one.
validatePinnedPKIndex(m, index) == m.index = index

\* validatePinnedVKAsset, validatePinnedAssetURL.
validatePinnedVKAsset(m, vk) == m.assets.vk = vk
validatePinnedAssetURL(m, raw) == m.assets.software = raw

\* openStreamingArtifactsFromURLs and openChunkManifestPreflight: the files in
\* the order in which they are fetched, without and with a chunk manifest.
Fetches(planned) ==
  IF planned
  THEN <<"manifest", "manifest sig", "vk", "pk index", "chunk manifest",
         "chunk manifest sig", "deployment", "proof wasm", "worker js", "msm wasm">>
  ELSE <<"manifest", "vk", "pk index">>

\* What the loaders check of a file when it arrives; b holds the earlier ones.
Checked(b, file, raw) ==
  CASE file \in {"manifest", "chunk manifest"} -> TRUE
    [] file = "manifest sig"       -> VerifyDetachedSignature(b["manifest"], raw)
    [] file = "vk"                 -> raw = b["manifest"].vk
    [] file = "pk index"           -> /\ ValidatePKIndex(raw)
                                      /\ raw.fileSize = b["manifest"].provingKeySize
    [] file = "chunk manifest sig" -> VerifyDetachedSignature(b["chunk manifest"], raw)
    [] file = "deployment"         ->
         /\ ValidateReclaimDeployment(raw, b["manifest"])
         /\ ValidateChunkManifest(b["chunk manifest"], b["manifest"], raw)
         /\ validatePinnedVKAsset(b["chunk manifest"], b["vk"])
         /\ validatePinnedPKIndex(b["chunk manifest"], b["pk index"])
    [] file \in Software           -> validatePinnedAssetURL(b["chunk manifest"], raw)

----------------------------------------------------------------------------
\* How the points of a range of a section are read.

\* fetchVerifiedChunk: size and digests of what arrived.
fetchVerifiedChunk(raw, pin) == raw = pin.digest

\* fetchSectionPointBytes: the bytes of [start, end) put together from the
\* chunks that overlap it; what no chunk covers stays zero.  raw[i] is what was
\* fetched for chunk i.
fetchSectionPointBytes(chunks, raw, start, end) ==
  LET Holds(i, p) == chunks[i].offset <= p /\ p < chunks[i].offset + chunks[i].size
      \* a later chunk overwrites an earlier one
      Last(p) == {i \in DOMAIN chunks : Holds(i, p) /\ \A k \in i + 1 .. Len(chunks) : ~Holds(k, p)}
  IN [p \in start .. end - 1 |->
        IF Last(p) = {} THEN <<"zero", 0>>
        ELSE LET i == CHOOSE i \in Last(p) : TRUE IN Byte(raw[i], p - chunks[i].offset)]

\* Chunks that fetchSectionPointBytes asks for.
Overlapping(chunks, start, end) ==
  {i \in DOMAIN chunks :
     ~(chunks[i].offset + chunks[i].size <= start \/ chunks[i].offset >= end)}

\* httpRangeAt.ReadAt through SectionRange: a part of the file as it is served,
\* whatever file that is.
SectionRange(r, start, end) == [p \in start .. end - 1 |-> <<r.key, p>>]

\* Positions of the range whose points, read as bytes, are those of the key.
RightPoints(bytes, sec, range, key) ==
  {q \in range : \A p \in sec.offset + q * sec.elem .. sec.offset + (q + 1) * sec.elem - 1 :
                    bytes[p] = <<key, p>>}

\* The chunk table of a release gives every byte that some section needs.
ChunksCover ==
  [r \in Releases |->
     LET pins == Content[r]["chunk manifest"].chunks
         raw == [i \in DOMAIN pins |-> pins[i].digest]
         sections == Content[r]["pk index"].sections
     IN \A i \in DOMAIN sections :
          LET sec == sections[i]
              all == 0 .. (sec.len \div sec.elem) - 1
          IN RightPoints(fetchSectionPointBytes(pins, raw, sec.offset, sec.offset + sec.len),
                         sec, all, r.key) = all]

=============================================================================
