---------------------- MODULE ProductionDecision_proofs ----------------------
(***************************************************************************)
(* A verified production decision, for every definition, bundle, draft and *)
(* evidence tree: it stands for the bytes it pins, a GO is backed by its   *)
(* people, and the custody of every contribution is one unbroken sequence. *)
(*                                                                         *)
(* The tree may be edited between any two checks of a command.  What holds *)
(* afterwards is therefore said of the pinned digests and not of the tree: *)
(* DecisionInv says for every stage of a command what the checks passed so *)
(* far have established of the draft.                                      *)
(***************************************************************************)
EXTENDS ProductionDecision, FiniteSetTheorems, TLAPS

-----------------------------------------------------------------------------
(* The inductive invariant. *)

\* The stages of a command after the one in which a check is made.
AfterExternals  == {"finish", "accepted"}
AfterAudits     == {"externals"} \cup AfterExternals
AfterOperational == {"audits"} \cup AfterAudits
AfterChecksums  == {"operational"} \cup AfterOperational
AfterTranscript == {"checksums"} \cup AfterChecksums
AfterRelease    == {"transcript"} \cup AfterTranscript
AfterPins       == {"release"} \cup AfterRelease

\* The command looks at the evidence.
Evidenced ==
  command.kind = "verify" \/ (command.kind = "sign" /\ command.args.checks)

\* A command is at rest, or has all its fields.
CommandShape ==
  \/ command.kind \in {"none", "prepare"} /\ Ended
  \/ /\ command.kind \in {"sign", "verify"}
     /\ DOMAIN command = {"kind", "decision", "args", "stage", "matched", "held",
                          "clean", "astray", "drifted"}
     /\ command.stage \in {"pins", "rejected"} \cup AfterPins

\* VerifyArtifacts: the draft is valid, and every pinned file was there.
PinsMatched ==
  command.stage \in AfterPins =>
    /\ ValidDecision(Draft) /\ validateProductionDecisionBinding(Draft)
    /\ \A ref \in allLocatedArtifacts(Draft) : ref.name \in command.matched

\* VerifyRelease: what the command keeps in memory is what is pinned.
PinsHeld ==
  command.stage \in AfterRelease =>
    command.held = <<Draft.manifest.digest, Draft.candidate.digest>>

\* VerifyTranscript: the bundle is of the pinned candidate and transcript.
BundleVerified ==
  command.stage \in AfterTranscript =>
    verifyReleaseOperationalEvidence(Bundles[bundle], Pinned(Draft.candidate),
                                     Pinned(Draft.transcript).at)

\* VerifyChecksums: what the pinned checksum files say.
SumsRead ==
  command.stage \in AfterChecksums =>
    \/ command.drifted
    \/ /\ Summed(CandidateChecksums, candidateChecksumNames)
       /\ Summed(ReleaseChecksums, releaseChecksumNames)

\* VerifyAudits: the pinned audits pass the pinned candidate.
AuditsBacked ==
  command.stage \in AfterAudits =>
    \A n \in {1, 2} :
      LET audit == Pinned(Draft.audits[n].ref)
      IN /\ audit.by = Draft.audits[n].who
         /\ audit.passed
         /\ audit.keys = "replayed"
         /\ audit.keys = Pinned(Draft.candidate).keys

\* No check of a command that goes on went by anything that is not pinned.
NeverAstray == command.stage # "rejected" => ~command.astray

\* A signature of a GO was made after its evidence was checked; what is
\* submitted was signed, and what is accepted is signed as required.
SignaturesChecked ==
  /\ \A s \in signatures : Drafts[s.decision].outcome = "GO" => s.checked
  /\ (/\ command.kind = "sign" /\ command.stage # "rejected"
      /\ Drafts[command.decision].outcome = "GO")
     => command.args.checks
  /\ command.kind = "verify" =>
       /\ command.args.submitted \subseteq signatures
       /\ command.stage = "accepted" =>
            VerifySignatures(command.decision, command.args.submitted)

\* Every digest in the tree is of a document.
TreeShape ==
  /\ world \in DOMAIN Worlds /\ bundle \in Worlds[world].bundles
  /\ \A name \in DOMAIN root : root[name] \in DOMAIN Documents[bundle]

DecisionInv ==
  /\ TreeShape
  /\ CommandShape
  /\ Evidenced =>
       PinsMatched /\ PinsHeld /\ BundleVerified /\ SumsRead /\ AuditsBacked /\ NeverAstray
  /\ SignaturesChecked

-----------------------------------------------------------------------------
(* The pinned files. *)

\* A coherent decision pins one file per location, so the comparison of one
\* per location is one of all pinned files.
LEMMA UniqueIsAll ==
  ASSUME NEW d, validateLocatedArtifactCoherence(d)
  PROVE  uniqueLocatedArtifacts(d) = allLocatedArtifacts(d)
<1> DEFINE refs == allLocatedArtifacts(d)
<1>1. \A r, q \in refs : r.uri = q.uri => r = q
  BY DEF validateLocatedArtifactCoherence
<1>2. uniqueLocatedArtifacts(d) =
        {(CHOOSE ref \in refs : ref.uri = uri) : uri \in {ref.uri : ref \in refs}}
  BY DEF uniqueLocatedArtifacts
<1> HIDE DEF refs
<1>3. \A q \in refs : (CHOOSE ref \in refs : ref.uri = q.uri) = q
  BY <1>1
<1>4. ASSUME NEW x \in refs PROVE x \in uniqueLocatedArtifacts(d)
  <2> DEFINE Chosen(uri) == CHOOSE ref \in refs : ref.uri = uri
  <2>1. x.uri \in {ref.uri : ref \in refs} /\ Chosen(x.uri) = x
    BY <1>3
  <2>2. uniqueLocatedArtifacts(d) = {Chosen(uri) : uri \in {ref.uri : ref \in refs}}
    BY <1>2
  <2> HIDE DEF Chosen
  <2> QED
    BY <2>1, <2>2
<1>5. \A x \in uniqueLocatedArtifacts(d) : x \in refs
  BY <1>2, <1>3
<1> QED
  BY <1>4, <1>5 DEF refs

\* A file that is some kind of document is in the tree.
LEMMA DocumentsAreThere ==
  ASSUME TreeShape, NEW name, NEW kind, Is(name, kind)
  PROVE  /\ At(name) \in DOMAIN Documents[bundle] /\ bundle \in DOMAIN Documents
         /\ Documents[bundle][At(name)].kind = kind
  BY WorldsAreWellFormed DEF TreeShape, Is, At

\* Nothing but the checksum pass itself changes what it established.
LEMMA SumsStay ==
  ASSUME SumsRead, command'.drifted = command.drifted, Draft' = Draft, bundle' = bundle,
         command'.stage \in AfterChecksums => command.stage \in AfterChecksums
  PROVE  SumsRead'
<1>1. \A file, names : Summed(file, names)' <=> Summed(file, names)
  BY DEF Summed, Pinned
<1> QED
  BY <1>1 DEF SumsRead, CandidateChecksums, ReleaseChecksums, candidateChecksumNames,
     releaseChecksumNames

-----------------------------------------------------------------------------
(* The steps. *)

\* Nothing runs at first.
LEMMA InitDecision == Init => DecisionInv
  BY WorldsAreWellFormed
  DEF Init, Idle, DecisionInv, TreeShape, CommandShape, Ended, Evidenced, SignaturesChecked

\* Every other action leaves what there is, and the tree, alone.
LEMMA CommandsStart ==
  ASSUME DecisionInv, NEW d,
         \/ executeDecisionPrepare(d)
         \/ \E who : \E checks \in BOOLEAN : executeDecisionSign(d, who, checks)
         \/ \E submitted \in Submissions(d) : executeDecisionVerify(d, submitted)
  PROVE  DecisionInv'
<1> USE DEF DecisionInv
<1>1. TreeShape'
  BY DEF TreeShape, executeDecisionPrepare, executeDecisionSign, executeDecisionVerify
<1>2. CASE executeDecisionPrepare(d)
  BY <1>1, <1>2 DEF executeDecisionPrepare, CommandShape, Ended, Evidenced, SignaturesChecked
<1>3. ASSUME NEW who, NEW checks \in BOOLEAN, executeDecisionSign(d, who, checks)
      PROVE  DecisionInv'
  BY <1>1, <1>3
  DEF executeDecisionSign, Begins, CommandShape, Evidenced, SignaturesChecked, NeverAstray,
      PinsMatched, PinsHeld, BundleVerified, SumsRead, AuditsBacked, AfterPins, AfterRelease,
      AfterTranscript, AfterChecksums, AfterOperational, AfterAudits, AfterExternals
<1>4. ASSUME NEW submitted \in Submissions(d), executeDecisionVerify(d, submitted)
      PROVE  DecisionInv'
  <2>1. submitted \subseteq signatures
    BY DEF Submissions
  <2> QED
    BY <1>1, <1>4, <2>1
    DEF executeDecisionVerify, Begins, CommandShape, Evidenced, SignaturesChecked, NeverAstray,
        PinsMatched, PinsHeld, BundleVerified, SumsRead, AuditsBacked, AfterPins, AfterRelease,
        AfterTranscript, AfterChecksums, AfterOperational, AfterAudits, AfterExternals
<1> QED
  BY <1>2, <1>3, <1>4

\* The comparison of all pinned files.
LEMMA ArtifactsStep ==
  ASSUME DecisionInv, VerifyArtifacts
  PROVE  DecisionInv'
<1> USE DEF DecisionInv
<1>1. command.kind \in {"sign", "verify"} /\ command.stage = "pins"
  BY DEF VerifyArtifacts, CommandShape, Ended
<1>2. TreeShape'
  BY DEF TreeShape, VerifyArtifacts
<1>3. CommandShape'
  BY <1>1 DEF CommandShape, VerifyArtifacts, AfterPins
<1>4. /\ command'.kind = command.kind /\ command'.args = command.args
      /\ command'.decision = command.decision /\ command'.astray = command.astray
      /\ command'.stage \in {"release", "rejected"} /\ signatures' = signatures
  BY <1>1 DEF CommandShape, VerifyArtifacts
<1>5. ASSUME command'.stage = "release" PROVE PinsMatched'
  <2>1. ValidDecision(Draft) /\ validateProductionDecisionBinding(Draft)
    BY <1>1, <1>5 DEF CommandShape, VerifyArtifacts
  <2>2. command'.matched = {ref.name : ref \in uniqueLocatedArtifacts(Draft)}
    BY <1>1, <1>5 DEF CommandShape, VerifyArtifacts
  <2>3. uniqueLocatedArtifacts(Draft) = allLocatedArtifacts(Draft)
    BY <2>1, UniqueIsAll DEF ValidDecision
  <2> QED
    BY <1>4, <2>1, <2>2, <2>3 DEF PinsMatched, Draft
<1>6. PinsMatched'
  BY <1>4, <1>5 DEF PinsMatched, AfterPins, AfterRelease, AfterTranscript, AfterChecksums,
     AfterOperational, AfterAudits, AfterExternals
<1>7. SignaturesChecked'
  BY <1>1, <1>4 DEF SignaturesChecked
<1> QED
  BY <1>1, <1>2, <1>3, <1>4, <1>6, <1>7
  DEF Evidenced, NeverAstray, PinsHeld, BundleVerified, SumsRead, AuditsBacked, AfterRelease,
      AfterTranscript, AfterChecksums, AfterOperational, AfterAudits, AfterExternals

\* A check leads from its stage to the next one or ends the command.
Proceeds(stage, next) ==
  /\ command.stage = stage /\ command'.stage \in {next, "rejected"}
  /\ DOMAIN command' = DOMAIN command
  /\ \A field \in DOMAIN command \ {"stage", "held", "astray", "drifted"} :
       command'[field] = command[field]
  /\ UNCHANGED <<world, bundle, root, signatures>>

\* What every check of the evidence after the first one keeps.
LEMMA ChecksKeep ==
  ASSUME DecisionInv,
         NEW stage \in {"release", "transcript", "checksums", "operational", "audits", "externals"},
         NEW next \in AfterRelease \ {"accepted"}, Proceeds(stage, next)
  PROVE  /\ TreeShape' /\ CommandShape' /\ SignaturesChecked'
         /\ Draft' = Draft
         /\ Evidenced' => Evidenced
         /\ Evidenced => PinsMatched'
         /\ command.kind \in {"sign", "verify"}
<1> USE DEF DecisionInv
<1>1. /\ command.kind \in {"sign", "verify"}
      /\ DOMAIN command = {"kind", "decision", "args", "stage", "matched", "held",
                           "clean", "astray", "drifted"}
  BY DEF Proceeds, CommandShape, Ended
<1>2. /\ command'.kind = command.kind /\ command'.args = command.args
      /\ command'.decision = command.decision /\ command'.matched = command.matched
  BY <1>1 DEF Proceeds
<1>3. TreeShape'
  BY DEF TreeShape, Proceeds
<1>4. command'.stage \in {"rejected"} \cup (AfterRelease \ {"accepted"})
  BY DEF Proceeds
<1>5. CommandShape'
  BY <1>1, <1>2, <1>4 DEF CommandShape, Proceeds, AfterPins
<1>6. SignaturesChecked'
  BY <1>1, <1>2, <1>4 DEF SignaturesChecked, Proceeds
<1>7. Draft' = Draft /\ (Evidenced' => Evidenced)
  BY <1>2 DEF Draft, Evidenced
<1>8. Evidenced => PinsMatched'
  <2>1. command.stage \in AfterPins
    BY DEF Proceeds, AfterPins, AfterRelease, AfterTranscript, AfterChecksums, AfterOperational,
       AfterAudits
  <2> QED
    BY <1>2, <1>7, <2>1 DEF PinsMatched
<1> QED
  BY <1>1, <1>3, <1>5, <1>6, <1>7, <1>8

\* The release: the manifest and the candidate it holds are the pinned ones.
LEMMA ReleaseStep ==
  ASSUME DecisionInv, VerifyRelease
  PROVE  DecisionInv'
<1>1. command.kind \in {"sign", "verify"}
      /\ DOMAIN command = {"kind", "decision", "args", "stage", "matched", "held",
                           "clean", "astray", "drifted"}
  BY DEF DecisionInv, VerifyRelease, CommandShape, Ended
<1>2. Proceeds("release", "transcript")
  BY <1>1 DEF VerifyRelease, Proceeds
<1>3. /\ TreeShape' /\ CommandShape' /\ SignaturesChecked' /\ Draft' = Draft
      /\ Evidenced' => PinsMatched'
  BY <1>2, ChecksKeep DEF AfterRelease, AfterTranscript, AfterChecksums, AfterOperational,
     AfterAudits,
     AfterExternals
<1>4. ASSUME command'.stage = "transcript"
      PROVE  PinsHeld' /\ ~command'.astray
  <2>1. verifyDecisionRelease(Draft)
    BY <1>1, <1>4 DEF VerifyRelease
  <2>2. command'.held = <<At(Draft.manifest.name), At(Draft.candidate.name)>>
    BY <1>1, <2>1 DEF VerifyRelease
  <2>3. command'.astray = \E ref \in ToSet(Draft.tree) : At(ref.name) # ref.digest
    BY <1>1 DEF VerifyRelease
  <2> QED
    BY <1>3, <2>1, <2>2, <2>3
    DEF verifyDecisionRelease, verifyDecisionReleaseTree, decisionArtifactBytes, PinsHeld
<1> QED
  BY <1>2, <1>3, <1>4
  DEF DecisionInv, Proceeds, NeverAstray, PinsHeld, BundleVerified, SumsRead, AuditsBacked,
      AfterRelease, AfterTranscript, AfterChecksums, AfterOperational, AfterAudits, AfterExternals

\* The other checks are of one form.
LEMMA ChecksProceed ==
  ASSUME DecisionInv, NEW holds, NEW refs,
         NEW stage \in {"transcript", "operational", "audits", "externals"},
         NEW next \in AfterTranscript \ {"accepted"},
         Check(stage, next, holds, refs)
  PROVE  /\ Proceeds(stage, next) /\ command'.held = command.held
         /\ command'.drifted = command.drifted
         /\ command'.stage = next => holds
         /\ TreeShape' /\ CommandShape' /\ SignaturesChecked' /\ Draft' = Draft
         /\ Evidenced' =>
           /\ Evidenced /\ PinsMatched'
           /\ command.held = <<Draft.manifest.digest, Draft.candidate.digest>>
         /\ (/\ Evidenced' /\ command'.stage = next
             /\ \A ref \in refs : At(ref.name) = ref.digest)
            => ~command'.astray
<1>1. DOMAIN command = {"kind", "decision", "args", "stage", "matched", "held",
                        "clean", "astray", "drifted"}
  BY DEF DecisionInv, Check, CommandShape, Ended
<1>2. /\ Proceeds(stage, next) /\ command'.held = command.held
      /\ command'.drifted = command.drifted /\ command.stage # "rejected"
  BY <1>1 DEF Check, Proceeds
<1>3. next # "rejected" /\ next \in AfterRelease \ {"accepted"}
  BY DEF AfterRelease, AfterTranscript, AfterChecksums, AfterOperational, AfterAudits,
     AfterExternals
<1>4. command'.stage = next => holds
  BY <1>1, <1>3 DEF Check
<1>5. /\ TreeShape' /\ CommandShape' /\ SignaturesChecked' /\ Draft' = Draft
      /\ Evidenced' => Evidenced /\ PinsMatched'
  BY <1>2, <1>3, ChecksKeep
<1>6. Evidenced => command.held = <<Draft.manifest.digest, Draft.candidate.digest>>
  BY DEF DecisionInv, PinsHeld, Check, AfterRelease, AfterTranscript, AfterChecksums,
     AfterOperational,
     AfterAudits
<1>7. command'.astray = (command.astray \/ \E ref \in refs : At(ref.name) # ref.digest)
  BY <1>1 DEF Check
<1>8. Evidenced => ~command.astray
  BY <1>2 DEF DecisionInv, NeverAstray
<1> QED
  BY <1>2, <1>4, <1>5, <1>6, <1>7, <1>8

\* The final transcript and the bundle.
LEMMA TranscriptStep ==
  ASSUME DecisionInv, VerifyTranscript
  PROVE  DecisionInv'
<1> DEFINE holds == verifyDecisionTranscript(Draft, Documents[bundle][command.held[1]],
                                             Documents[bundle][command.held[2]])
           refs == {Draft.transcript, [name |-> "operational", digest |-> Draft.operational.digest]}
<1>1. Check("transcript", "checksums", holds, refs)
  BY DEF VerifyTranscript
<1> HIDE DEF holds, refs
<1>2. "checksums" \in AfterTranscript \ {"accepted"}
  BY DEF AfterTranscript
<1>3. /\ Proceeds("transcript", "checksums") /\ command'.held = command.held
      /\ command'.drifted = command.drifted
      /\ command'.stage = "checksums" => holds
      /\ TreeShape' /\ CommandShape' /\ SignaturesChecked' /\ Draft' = Draft
      /\ Evidenced' =>
           /\ Evidenced /\ PinsMatched'
           /\ command.held = <<Draft.manifest.digest, Draft.candidate.digest>>
      /\ (/\ Evidenced' /\ command'.stage = "checksums"
          /\ \A ref \in refs : At(ref.name) = ref.digest)
         => ~command'.astray
  BY <1>1, <1>2, ChecksProceed
<1>4. ASSUME Evidenced', command'.stage = "checksums"
      PROVE  BundleVerified' /\ ~command'.astray
  <2>1. verifyDecisionTranscript(Draft, Documents[bundle][command.held[1]],
                                 Pinned(Draft.candidate))
    BY <1>3, <1>4 DEF holds, Pinned
  <2>2. /\ At(Draft.transcript.name) = Draft.transcript.digest
        /\ At("operational") = Draft.operational.digest
        /\ verifyReleaseOperationalEvidence(Bundles[bundle], Pinned(Draft.candidate),
                                            Pinned(Draft.transcript).at)
    BY <2>1 DEF verifyDecisionTranscript, decisionArtifactBytes, Read, Pinned
  <2>3. \A ref \in refs : At(ref.name) = ref.digest
    BY <2>2 DEF refs
  <2>4. bundle' = bundle
    BY <1>3 DEF Proceeds
  <2> QED
    BY <1>3, <1>4, <2>2, <2>3, <2>4 DEF BundleVerified, Pinned
<1> QED
  BY <1>3, <1>4
  DEF DecisionInv, Proceeds, NeverAstray, PinsHeld, BundleVerified, SumsRead, AuditsBacked,
      AfterRelease, AfterTranscript, AfterChecksums, AfterOperational, AfterAudits, AfterExternals

\* The checksum pass, which compares with no pin.
LEMMA ChecksumsStep ==
  ASSUME DecisionInv, VerifyChecksums
  PROVE  DecisionInv'
<1>1. /\ command.kind \in {"sign", "verify"}
      /\ DOMAIN command = {"kind", "decision", "args", "stage", "matched", "held",
                           "clean", "astray", "drifted"}
  BY DEF DecisionInv, VerifyChecksums, CommandShape, Ended
<1>2. /\ Proceeds("checksums", "operational") /\ command'.held = command.held
      /\ command'.astray = command.astray /\ command.stage = "checksums"
  BY <1>1 DEF VerifyChecksums, Proceeds
<1>3. /\ TreeShape' /\ CommandShape' /\ SignaturesChecked' /\ Draft' = Draft
      /\ Evidenced' => Evidenced /\ PinsMatched'
  BY <1>2, ChecksKeep DEF AfterRelease, AfterTranscript, AfterChecksums, AfterOperational,
     AfterAudits, AfterExternals
<1>4. ASSUME command'.stage = "operational", ~command'.drifted,
             NEW file, NEW names, verifyChecksumsExact(file, names)
      PROVE  Summed(file, names)'
  <2>1. \A ref \in ToSet(Draft.tree) : At(ref.name) = ref.digest
    BY <1>1, <1>4 DEF VerifyChecksums
  <2>2. \A name \in names : At(name) = Documents[bundle][At(file)].of[name]
    BY <1>4 DEF verifyChecksumsExact
  <2>3. Summed(file, names)
    BY <2>1, <2>2 DEF Summed, Pinned
  <2> QED
    BY <1>2, <1>3, <2>3 DEF Summed, Pinned, Proceeds
<1>5. ASSUME command'.stage = "operational"
      PROVE  SumsRead'
  <2>1. /\ verifyChecksumsExact(CandidateChecksums, candidateChecksumNames)
        /\ verifyChecksumsExact(ReleaseChecksums, releaseChecksumNames)
    BY <1>1, <1>5 DEF VerifyChecksums, verifyDecisionChecksums
  <2>2. \/ command'.drifted
        \/ /\ Summed(CandidateChecksums, candidateChecksumNames)'
           /\ Summed(ReleaseChecksums, releaseChecksumNames)'
    BY <1>4, <1>5, <2>1
  <2> QED
    BY <2>2 DEF SumsRead, CandidateChecksums, ReleaseChecksums, candidateChecksumNames,
       releaseChecksumNames
<1>6. Evidenced' => PinsHeld' /\ BundleVerified' /\ NeverAstray'
  BY <1>2, <1>3
  DEF DecisionInv, Proceeds, PinsHeld, BundleVerified, NeverAstray, Summed, Pinned, AfterRelease,
      AfterTranscript, AfterChecksums, AfterOperational, AfterAudits, AfterExternals
<1> QED
  BY <1>2, <1>3, <1>5, <1>6
  DEF DecisionInv, Proceeds, SumsRead, AuditsBacked, AfterRelease, AfterTranscript,
      AfterChecksums, AfterOperational, AfterAudits, AfterExternals

\* The bundle's signature.
LEMMA OperationalStep ==
  ASSUME DecisionInv, VerifyOperational
  PROVE  DecisionInv'
<1> DEFINE holds == verifyDecisionOperationalEvidence(Draft)
           refs == {Draft.operational}
<1>1. Check("operational", "audits", holds, refs)
  BY DEF VerifyOperational
<1> HIDE DEF holds
<1>2. "audits" \in AfterTranscript \ {"accepted"}
  BY DEF AfterTranscript, AfterChecksums, AfterOperational
<1>3. /\ Proceeds("operational", "audits") /\ command'.held = command.held
      /\ command'.drifted = command.drifted
      /\ command'.stage = "audits" => holds
      /\ TreeShape' /\ CommandShape' /\ SignaturesChecked' /\ Draft' = Draft
      /\ Evidenced' =>
           /\ Evidenced /\ PinsMatched'
           /\ command.held = <<Draft.manifest.digest, Draft.candidate.digest>>
      /\ (/\ Evidenced' /\ command'.stage = "audits"
          /\ \A ref \in refs : At(ref.name) = ref.digest)
         => ~command'.astray
  BY <1>1, <1>2, ChecksProceed
<1>4. Evidenced' => BundleVerified'
  BY <1>3 DEF DecisionInv, BundleVerified, Proceeds, Pinned, AfterTranscript, AfterChecksums
<1>5. Evidenced' /\ command'.stage = "audits" => ~command'.astray
  BY <1>3 DEF holds, verifyDecisionOperationalEvidence, decisionArtifactBytes
<1>6. Evidenced' => SumsRead'
  BY <1>3, SumsStay DEF DecisionInv, Proceeds, AfterChecksums
<1> QED
  BY <1>3, <1>4, <1>5, <1>6
  DEF DecisionInv, Proceeds, NeverAstray, PinsHeld, AuditsBacked, AfterRelease,
      AfterTranscript, AfterChecksums, AfterOperational, AfterAudits, AfterExternals

\* The audits: each pinned audit is an enrolled auditor's, so its keys are the
\* ones a replay yields, and they are the pinned candidate's.
LEMMA AuditsStep ==
  ASSUME DecisionInv, VerifyAudits
  PROVE  DecisionInv'
<1> DEFINE holds == verifyDecisionAudits(Draft)
           refs == {Draft.candidate, Draft.audits[1].ref, Draft.audits[2].ref}
<1>1. Check("audits", "externals", holds, refs)
  BY DEF VerifyAudits
<1> HIDE DEF holds
<1>2. "externals" \in AfterTranscript \ {"accepted"}
  BY DEF AfterTranscript, AfterChecksums, AfterOperational, AfterAudits
<1>3. /\ Proceeds("audits", "externals") /\ command'.held = command.held
      /\ command'.drifted = command.drifted
      /\ command'.stage = "externals" => holds
      /\ TreeShape' /\ CommandShape' /\ SignaturesChecked' /\ Draft' = Draft
      /\ Evidenced' =>
           /\ Evidenced /\ PinsMatched'
           /\ command.held = <<Draft.manifest.digest, Draft.candidate.digest>>
      /\ (/\ Evidenced' /\ command'.stage = "externals"
          /\ \A ref \in refs : At(ref.name) = ref.digest)
         => ~command'.astray
  BY <1>1, <1>2, ChecksProceed
<1>4. Evidenced' => BundleVerified'
  BY <1>3 DEF DecisionInv, BundleVerified, Proceeds, Pinned, AfterTranscript, AfterChecksums,
     AfterOperational
<1>5. ASSUME Evidenced', command'.stage = "externals"
      PROVE  AuditsBacked' /\ ~command'.astray
  <2>1. verifyDecisionAudits(Draft)
    BY <1>3, <1>5 DEF holds
  <2>2. /\ DOMAIN Draft.audits = {1, 2} /\ \A n \in {1, 2} : Draft.audits[n].who \in Auditors
    BY <1>3, <1>5 DEF DecisionInv, PinsMatched, Proceeds, ValidDecision,
       validateProductionDecisionBinding, AfterPins, AfterRelease, AfterTranscript, AfterChecksums,
       AfterOperational
  <2>3. /\ At(Draft.candidate.name) = Draft.candidate.digest
        /\ \A n \in {1, 2} : At(Draft.audits[n].ref.name) = Draft.audits[n].ref.digest
    BY <2>1, <2>2 DEF verifyDecisionAudits, decisionArtifactBytes
  <2>4. ASSUME NEW n \in {1, 2}
        PROVE  LET audit == Pinned(Draft.audits[n].ref)
               IN /\ audit.by = Draft.audits[n].who
                  /\ audit.passed
                  /\ audit.keys = "replayed"
                  /\ audit.keys = Pinned(Draft.candidate).keys
    <3> DEFINE audit == Pinned(Draft.audits[n].ref)
    <3>1. /\ Is(Draft.audits[n].ref.name, "audit")
          /\ audit.by = Draft.audits[n].who /\ audit.passed
          /\ audit.keys = Pinned(Draft.candidate).keys
      BY <2>1, <2>2, <2>3, ZenonT(60) DEF verifyDecisionAudits, Read, Pinned
    <3>2. /\ Draft.audits[n].ref.digest \in DOMAIN Documents[bundle]
          /\ bundle \in DOMAIN Documents /\ audit.kind = "audit"
      BY <2>3, <3>1, DocumentsAreThere DEF DecisionInv, Pinned
    <3>3. audit.keys = "replayed"
      BY <2>2, <3>1, <3>2, AuditorsReplay DEF Pinned
    <3> QED
      BY <3>1, <3>3
  <2>5. bundle' = bundle
    BY <1>3 DEF Proceeds
  <2>6. AuditsBacked'
    BY <1>3, <2>4, <2>5 DEF AuditsBacked, Pinned
  <2> QED
    BY <1>3, <1>5, <2>3, <2>6
<1>6. Evidenced' => SumsRead'
  BY <1>3, SumsStay DEF DecisionInv, Proceeds, AfterChecksums, AfterOperational
<1> QED
  BY <1>3, <1>4, <1>5, <1>6
  DEF DecisionInv, Proceeds, NeverAstray, PinsHeld, AuditsBacked, AfterRelease,
      AfterTranscript, AfterChecksums, AfterOperational, AfterAudits, AfterExternals

\* The external audits.
LEMMA ExternalsStep ==
  ASSUME DecisionInv, VerifyExternalAudits
  PROVE  DecisionInv'
<1> DEFINE holds == verifyDecisionExternalAudits(Draft)
           refs == {Draft.externals[1].ref, Draft.externals[2].ref}
<1>1. Check("externals", "finish", holds, refs)
  BY DEF VerifyExternalAudits
<1> HIDE DEF holds
<1>2. "finish" \in AfterTranscript \ {"accepted"}
  BY DEF AfterTranscript, AfterChecksums, AfterOperational, AfterAudits, AfterExternals
<1>3. /\ Proceeds("externals", "finish") /\ command'.held = command.held
      /\ command'.drifted = command.drifted
      /\ command'.stage = "finish" => holds
      /\ TreeShape' /\ CommandShape' /\ SignaturesChecked' /\ Draft' = Draft
      /\ Evidenced' =>
           /\ Evidenced /\ PinsMatched'
           /\ command.held = <<Draft.manifest.digest, Draft.candidate.digest>>
      /\ (/\ Evidenced' /\ command'.stage = "finish"
          /\ \A ref \in refs : At(ref.name) = ref.digest)
         => ~command'.astray
  BY <1>1, <1>2, ChecksProceed
<1>4. Evidenced' => BundleVerified' /\ AuditsBacked'
  BY <1>3 DEF DecisionInv, BundleVerified, AuditsBacked, Proceeds, Pinned, AfterTranscript,
     AfterChecksums, AfterOperational, AfterAudits
<1>5. Evidenced' => DOMAIN Draft.externals = {1, 2}
  BY <1>3 DEF DecisionInv, PinsMatched, Proceeds, ValidDecision, AfterPins, AfterRelease,
     AfterTranscript, AfterChecksums, AfterOperational, AfterAudits
<1>6. Evidenced' /\ command'.stage = "finish" => ~command'.astray
  BY <1>3, <1>5 DEF holds, verifyDecisionExternalAudits, decisionArtifactBytes
<1>7. Evidenced' => SumsRead'
  BY <1>3, SumsStay DEF DecisionInv, Proceeds, AfterChecksums, AfterOperational,
     AfterAudits
<1> QED
  BY <1>3, <1>4, <1>6, <1>7
  DEF DecisionInv, Proceeds, NeverAstray, PinsHeld

\* A signature is written: of a GO only after the evidence was checked.
LEMMA SignStep ==
  ASSUME DecisionInv, SignProductionDecision
  PROVE  DecisionInv'
<1>1. /\ command.kind = "sign" /\ command.stage = "finish"
      /\ DOMAIN command = {"kind", "decision", "args", "stage", "matched", "held",
                           "clean", "astray", "drifted"}
  BY DEF DecisionInv, SignProductionDecision, CommandShape
<1>2. /\ \A field \in DOMAIN command \ {"stage"} : command'[field] = command[field]
      /\ command'.stage \in {"accepted", "rejected"} /\ DOMAIN command' = DOMAIN command
      /\ bundle' = bundle
  BY <1>1 DEF SignProductionDecision
<1>3. TreeShape' /\ CommandShape'
  BY <1>1, <1>2 DEF DecisionInv, SignProductionDecision, TreeShape, CommandShape, AfterPins,
     AfterRelease, AfterTranscript, AfterChecksums, AfterOperational, AfterAudits, AfterExternals
<1>4. SignaturesChecked'
  <2>1. \A s \in signatures' :
          \/ s \in signatures
          \/ s.decision = command.decision /\ s.checked = command.args.checks
    BY DEF SignProductionDecision
  <2> QED
    BY <1>1, <1>2, <2>1 DEF DecisionInv, SignaturesChecked
<1>5. Draft' = Draft /\ (Evidenced' => Evidenced)
  BY <1>1, <1>2 DEF Draft, Evidenced
<1>6. SumsRead => SumsRead'
  BY <1>1, <1>2, <1>5, SumsStay
  DEF AfterChecksums, AfterOperational, AfterAudits, AfterExternals
<1> QED
  BY <1>1, <1>2, <1>3, <1>4, <1>5, <1>6
  DEF DecisionInv, PinsMatched, PinsHeld, BundleVerified, AuditsBacked, NeverAstray, Pinned,
      AfterPins, AfterRelease, AfterTranscript, AfterChecksums, AfterOperational, AfterAudits,
      AfterExternals

\* A decision is verified with its signatures.
LEMMA VerifyStep ==
  ASSUME DecisionInv, VerifyProductionDecision
  PROVE  DecisionInv'
<1>1. /\ command.kind = "verify" /\ command.stage = "finish"
      /\ DOMAIN command = {"kind", "decision", "args", "stage", "matched", "held",
                           "clean", "astray", "drifted"}
  BY DEF DecisionInv, VerifyProductionDecision, CommandShape
<1>2. /\ \A field \in DOMAIN command \ {"stage"} : command'[field] = command[field]
      /\ command'.stage \in {"accepted", "rejected"} /\ DOMAIN command' = DOMAIN command
      /\ bundle' = bundle /\ signatures' = signatures
      /\ command'.stage = "accepted" => VerifySignatures(command.decision, command.args.submitted)
  BY <1>1 DEF VerifyProductionDecision
<1>3. TreeShape' /\ CommandShape'
  BY <1>1, <1>2 DEF DecisionInv, VerifyProductionDecision, TreeShape, CommandShape, AfterPins,
     AfterRelease, AfterTranscript, AfterChecksums, AfterOperational, AfterAudits, AfterExternals
<1>4. SignaturesChecked'
  BY <1>1, <1>2 DEF DecisionInv, SignaturesChecked
<1>5. Draft' = Draft /\ (Evidenced' => Evidenced)
  BY <1>1, <1>2 DEF Draft, Evidenced
<1>6. SumsRead => SumsRead'
  BY <1>1, <1>2, <1>5, SumsStay
  DEF AfterChecksums, AfterOperational, AfterAudits, AfterExternals
<1> QED
  BY <1>1, <1>2, <1>3, <1>4, <1>5, <1>6
  DEF DecisionInv, PinsMatched, PinsHeld, BundleVerified, AuditsBacked, NeverAstray, Pinned,
      AfterPins, AfterRelease, AfterTranscript, AfterChecksums, AfterOperational, AfterAudits,
      AfterExternals

\* An edit of the tree disturbs no fact about the pinned digests.
LEMMA EditStep ==
  ASSUME DecisionInv, NEW change \in Edits, Edit(change)
  PROVE  DecisionInv'
<1>1. /\ \A field \in DOMAIN command \ {"clean"} : command'[field] = command[field]
      /\ DOMAIN command' = DOMAIN command
      /\ UNCHANGED <<world, bundle, signatures>>
  BY DEF Edit
<1>2. TreeShape'
  <2>1. /\ DOMAIN root' = DOMAIN root
        /\ \A name \in DOMAIN root : root'[name] \in {root[name], change.digest}
    BY DEF Edit
  <2> QED
    BY <1>1, <2>1, WorldsAreWellFormed DEF DecisionInv, TreeShape
<1>3. CASE Ended
  <2>1. command' = command
    BY <1>3 DEF Edit
  <2>2. SumsRead => SumsRead'
    BY <1>1, <2>1, SumsStay DEF Draft
  <2> QED
    BY <1>1, <1>2, <2>1, <2>2
    DEF DecisionInv, CommandShape, Ended, Evidenced, Draft, SignaturesChecked, PinsMatched,
        PinsHeld, BundleVerified, AuditsBacked, NeverAstray, Pinned
<1>4. CASE ~Ended
  <2>1. /\ command.kind \in {"sign", "verify"}
        /\ DOMAIN command = {"kind", "decision", "args", "stage", "matched", "held",
                             "clean", "astray", "drifted"}
        /\ command.stage \in {"pins", "rejected"} \cup AfterPins
    BY <1>4 DEF DecisionInv, CommandShape
  <2>2. /\ command'.kind = command.kind /\ command'.decision = command.decision
        /\ command'.args = command.args /\ command'.stage = command.stage
        /\ command'.matched = command.matched /\ command'.held = command.held
        /\ command'.astray = command.astray /\ command'.drifted = command.drifted
    BY <1>1, <2>1
  <2>3. CommandShape'
    BY <1>1, <2>1, <2>2 DEF CommandShape
  <2>4. Draft' = Draft /\ (Evidenced' <=> Evidenced)
    BY <1>1, <2>2 DEF Draft, Evidenced
  <2>5. SumsRead => SumsRead'
    BY <1>1, <2>2, <2>4, SumsStay
  <2> QED
    BY <1>1, <1>2, <2>2, <2>3, <2>4, <2>5
    DEF DecisionInv, Evidenced, SignaturesChecked, PinsMatched, PinsHeld, BundleVerified,
        AuditsBacked, NeverAstray, Pinned
<1> QED
  BY <1>3, <1>4

\* What the checks of a command passed so far have established, whatever was
\* edited meanwhile (VerifyProductionDecisionEvidence, SignProductionDecision,
\* VerifyProductionDecision).
THEOREM DecisionsAreEstablished == Spec => []DecisionInv
<1>1. DecisionInv /\ [Next]_vars => DecisionInv'
  <2> SUFFICES ASSUME DecisionInv, [Next]_vars PROVE DecisionInv'
    OBVIOUS
  <2>1. CASE UNCHANGED vars
    <3>1. SumsRead => SumsRead'
      BY <2>1, SumsStay DEF vars, Draft
    <3> QED
      BY <2>1, <3>1
      DEF vars, DecisionInv, TreeShape, CommandShape, Ended, Evidenced, Draft, SignaturesChecked,
          PinsMatched, PinsHeld, BundleVerified, AuditsBacked, NeverAstray, Pinned
  <2>2. CASE \E d \in DOMAIN Worlds[world].drafts :
               \/ executeDecisionPrepare(d)
               \/ \E who \in Worlds[world].drafts[d], checks \in BOOLEAN :
                    executeDecisionSign(d, who, checks)
               \/ \E submitted \in Submissions(d) : executeDecisionVerify(d, submitted)
    BY <2>2, CommandsStart
  <2> QED
    BY <2>1, <2>2, ArtifactsStep, ReleaseStep, TranscriptStep, ChecksumsStep, OperationalStep,
       AuditsStep, ExternalsStep, SignStep, VerifyStep, EditStep DEF Next
<1> QED
  BY <1>1, InitDecision, PTL DEF Spec

-----------------------------------------------------------------------------
(* What an accepted decision stands for. *)

\* A verified decision stands for exactly the bytes it pins, whatever was
\* edited while it was verified (uniqueLocatedArtifacts,
\* decisionArtifactBytes); its pinned checksum files list its pinned release
\* unless that differed from its pins during the checksum pass, which compares
\* with none (verifyChecksumsExact).
THEOREM PinnedBytesWereSeen == Spec => []PinsWereSeen
<1>1. DecisionInv => PinsWereSeen
  BY DEF DecisionInv, Evidenced, PinsMatched, NeverAstray, SumsRead, PinsWereSeen, Accepted,
     AfterPins, AfterRelease, AfterTranscript, AfterChecksums, AfterOperational, AfterAudits,
     AfterExternals
<1> QED
  BY <1>1, DecisionsAreEstablished, PTL

\* Two different things are two.
LEMMA PairCardinality ==
  ASSUME NEW a, NEW b, a # b
  PROVE  Cardinality({a, b}) = 2
<1>1. IsFiniteSet({a}) /\ Cardinality({a}) = 1
  BY FS_Singleton
<1>2. {a, b} = {a} \cup {b} /\ b \notin {a}
  OBVIOUS
<1> QED
  BY <1>1, <1>2, FS_AddElement

\* The required signatures of a valid decision are of its people's own keys.
LEMMA RequiredSign ==
  ASSUME NEW d, NEW submitted, ValidDecision(Drafts[d]), Drafts[d].outcome = "GO",
         validateProductionDecisionBinding(Drafts[d]), VerifySignatures(d, submitted),
         NEW who \in {Definition.coordinator, Definition.releaseSigner}
                     \cup {Drafts[d].audits[n].who : n \in {1, 2}}
  PROVE  \E s \in submitted : s.decision = d /\ s.who.key = who.key
<1> DEFINE draft == Drafts[d]
<1>1. /\ DOMAIN draft.audits = {1, 2}
      /\ draft.audits[1].who \in Auditors /\ draft.audits[2].who \in Auditors
      /\ draft.audits[1].who.id < draft.audits[2].who.id
  BY DEF ValidDecision, validateProductionDecisionBinding
<1>2. draft.audits[1].who.id # draft.audits[2].who.id
  BY <1>1, AuditorsAreOrdered
<1>3. PICK role \in {"coordinator", "releaseSigner", "auditor"} :
        /\ <<role, who.id>> \in requiredDecisionSigners(draft)
        /\ \A identity \in decisionSignerIdentity(draft, role, who.id) : identity = who
  BY <1>1, <1>2 DEF requiredDecisionSigners, decisionSignerIdentity
<1>4. PICK s \in submitted : s.who.role = role /\ s.who.id = who.id
  <2>1. <<role, who.id>> \in {<<s.who.role, s.who.id>> : s \in submitted}
    BY <1>3 DEF VerifySignatures
  <2> QED
    BY <2>1
<1>5. s.decision = d /\ \E identity \in decisionSignerIdentity(draft, role, who.id) :
                          identity.key = s.who.key
  BY <1>4 DEF VerifySignatures
<1> QED
  BY <1>3, <1>4, <1>5

\* A verified GO is backed by its people: the keys its replaying auditors
\* passed, and the signatures of everybody required, made after checking the
\* evidence (executeDecisionSign, VerifyProductionDecision).
THEOREM GoIsBackedByItsPeople == Spec => []GoIsBacked
<1>1. DecisionInv => GoIsBacked
  <2> SUFFICES ASSUME DecisionInv, Accepted, Draft.outcome = "GO"
               PROVE  LET signers == {s \in signatures : s.decision = command.decision /\ s.checked}
                          backers == {Definition.coordinator, Definition.releaseSigner}
                                     \cup {Pinned(Draft.audits[n].ref).by : n \in {1, 2}}
                      IN /\ Pinned(Draft.candidate).keys = "replayed"
                         /\ Cardinality({Pinned(Draft.audits[n].ref).by : n \in {1, 2}}
                                        \cap Auditors) = 2
                         /\ \A n \in {1, 2} : /\ Pinned(Draft.audits[n].ref).passed
                                              /\ Pinned(Draft.audits[n].ref).keys = "replayed"
                         /\ \A who \in backers : \E s \in signers : s.who.key = who.key
    BY DEF GoIsBacked
  <2>1. /\ ValidDecision(Draft) /\ validateProductionDecisionBinding(Draft)
        /\ \A n \in {1, 2} :
             LET audit == Pinned(Draft.audits[n].ref)
             IN /\ audit.by = Draft.audits[n].who
                /\ audit.passed
                /\ audit.keys = "replayed"
                /\ audit.keys = Pinned(Draft.candidate).keys
    BY DEF DecisionInv, Evidenced, PinsMatched, AuditsBacked, Accepted, AfterPins,
       AfterRelease, AfterTranscript, AfterChecksums, AfterOperational, AfterAudits, AfterExternals
  <2>2. /\ VerifySignatures(command.decision, command.args.submitted)
        /\ command.args.submitted \subseteq signatures
        /\ \A s \in signatures : s.decision = command.decision => s.checked
    BY DEF DecisionInv, SignaturesChecked, Accepted, Draft
  <2>3. Cardinality({Pinned(Draft.audits[n].ref).by : n \in {1, 2}} \cap Auditors) = 2
    <3> DEFINE a == Draft.audits[1].who
               b == Draft.audits[2].who
    <3>1. a \in Auditors /\ b \in Auditors /\ a # b
      BY <2>1 DEF ValidDecision, validateProductionDecisionBinding
    <3>2. {Pinned(Draft.audits[n].ref).by : n \in {1, 2}} = {a, b}
      BY <2>1
    <3> HIDE DEF a, b
    <3>3. {a, b} \cap Auditors = {a, b}
      BY <3>1
    <3> QED
      BY <3>1, <3>2, <3>3, PairCardinality
  <2>4. ASSUME NEW who \in {Definition.coordinator, Definition.releaseSigner}
                           \cup {Pinned(Draft.audits[n].ref).by : n \in {1, 2}}
        PROVE  \E s \in {s \in signatures : s.decision = command.decision /\ s.checked} :
                 s.who.key = who.key
    <3>1. who \in {Definition.coordinator, Definition.releaseSigner}
                  \cup {Draft.audits[n].who : n \in {1, 2}}
      BY <2>1
    <3> DEFINE d == command.decision
               submitted == command.args.submitted
    <3>2. /\ ValidDecision(Drafts[d]) /\ validateProductionDecisionBinding(Drafts[d])
          /\ Drafts[d].outcome = "GO" /\ VerifySignatures(d, submitted)
          /\ who \in {Definition.coordinator, Definition.releaseSigner}
                     \cup {Drafts[d].audits[n].who : n \in {1, 2}}
      BY <2>1, <2>2, <3>1 DEF Draft
    <3> HIDE DEF d, submitted
    <3>3. \E s \in submitted : s.decision = d /\ s.who.key = who.key
      BY <3>2, RequiredSign
    <3> QED
      BY <2>2, <3>3 DEF d, submitted
  <2> QED
    BY <2>1, <2>3, <2>4
<1> QED
  BY <1>1, DecisionsAreEstablished, PTL

-----------------------------------------------------------------------------
(* Custody. *)

\* A set that n indices name, each another member, has n members.
LEMMA DistinctCount ==
  ASSUME NEW n \in Nat, NEW S, NEW f, DOMAIN f = 1 .. n,
         \A i \in 1 .. n : f[i] \in S,
         \A x \in S : \E i \in 1 .. n : x = f[i],
         \A i, j \in 1 .. n : i # j => f[i] # f[j]
  PROVE  Cardinality(S) = n
<1> DEFINE g == [i \in 1 .. n |-> f[i]]
<1>1. g \in Bijection(1 .. n, S)
  BY DEF Bijection, Injection, Surjection, IsInjective
<1>2. ExistsBijection(1 .. n, S)
  BY <1>1 DEF ExistsBijection
<1> QED
  BY <1>2, FS_CountingElements

\* Enrolled witnesses and mirrors, no id and no key twice, are outsiders.
LEMMA OutsidersEnrolled ==
  ASSUME NEW enrollments, verifyEnrollmentEvidence(enrollments),
         NEW role \in {"witness", "mirror"},
         NEW n \in Nat, NEW people, DOMAIN people = 1 .. n, Len(people) = n,
         \A i \in 1 .. n : Enrolled(people[i], role, enrollments),
         \A i, j \in 1 .. n : i # j =>
           people[i].id # people[j].id /\ people[i].key # people[j].key
  PROVE  Outsiders(people, role, enrollments)
<1>1. Cardinality({who.id : who \in ToSet(people)}) = n
  <2> DEFINE ids == [i \in 1 .. n |-> people[i].id]
             S == {who.id : who \in ToSet(people)}
  <2>1. DOMAIN ids = 1 .. n /\ \A i, j \in 1 .. n : i # j => ids[i] # ids[j]
    OBVIOUS
  <2>2. (\A i \in 1 .. n : ids[i] \in S) /\ \A x \in S : \E i \in 1 .. n : x = ids[i]
    BY DEF ToSet
  <2> HIDE DEF ids, S
  <2>3. Cardinality(S) = n
    BY <2>1, <2>2, DistinctCount
  <2> QED
    BY <2>3 DEF S
<1>2. Cardinality({who.key : who \in ToSet(people)}) = n
  <2> DEFINE keys == [i \in 1 .. n |-> people[i].key]
             S == {who.key : who \in ToSet(people)}
  <2>1. DOMAIN keys = 1 .. n /\ \A i, j \in 1 .. n : i # j => keys[i] # keys[j]
    OBVIOUS
  <2>2. (\A i \in 1 .. n : keys[i] \in S) /\ \A x \in S : \E i \in 1 .. n : x = keys[i]
    BY DEF ToSet
  <2> HIDE DEF keys, S
  <2>3. Cardinality(S) = n
    BY <2>1, <2>2, DistinctCount
  <2> QED
    BY <2>3 DEF S
<1>3. \A who \in ToSet(people) : \E e \in enrollments : e.who = who /\ e.role = role
  BY DEF ToSet, Enrolled
<1>4. \A who \in ToSet(people), actor \in Actors : who.id # actor.id /\ who.key # actor.key
  BY <1>3 DEF verifyEnrollmentEvidence, verifyEnrollmentBinding, identityOverlapsDefinition
<1> QED
  BY <1>1, <1>2, <1>3, <1>4 DEF Outsiders

\* The comparisons of one phase add up to one unbroken sequence.
LEMMA PhaseInOrder ==
  ASSUME NEW b \in DOMAIN Bundles, NEW p \in Phases, NEW enrollments,
         verifyEnrollmentEvidence(enrollments),
         verifyPhaseOperationalEvidence(p, Bundles[b].phase[p], enrollments)
  PROVE  InOrder(Bundles[b].phase[p], p, enrollments)
<1> DEFINE evidence == Bundles[b].phase[p]
           close == evidence.close
<1>1. /\ IsSequence(evidence.chain) /\ IsSequence(evidence.heads)
      /\ IsSequence(evidence.witnesses) /\ IsSequence(evidence.beacon.observations)
      /\ \A i \in DOMAIN evidence.heads : IsSequence(evidence.heads[i].mirrors)
      /\ \A n \in DOMAIN evidence.witnesses : evidence.witnesses[n].at \in Nat
      /\ close.round \in Nat /\ evidence.quorum \in Nat
  BY BundlesAreWellFormed
<1>2. /\ ValidateClose(p, evidence.chain, close)
      /\ Len(evidence.heads) = Len(evidence.chain)
      /\ verifyAcceptedHeadEvidence(p, evidence.heads, evidence.chain, enrollments)
      /\ \A n \in DOMAIN evidence.witnesses :
           Enrolled(evidence.witnesses[n].who, "witness", enrollments)
      /\ VerifyPublicWitnessQuorum(close, evidence.witnesses, evidence.quorum)
      /\ ValidateMultiRelayBeaconEvidence(close, evidence.beacon)
  BY DEF verifyPhaseOperationalEvidence
<1> HIDE DEF evidence
<1>3. \A i \in DOMAIN evidence.heads :
        /\ ValidPrefix(p, evidence.heads[i], evidence.chain, i)
        /\ ValidCustody(p, evidence.heads[i], evidence.chain[i], i)
        /\ ValidOrder(evidence.heads[i], evidence.chain, i)
        /\ ValidMirrors(p, evidence.heads[i], evidence.chain[i], i, enrollments)
  BY <1>2 DEF verifyAcceptedHeadEvidence
<1>4. ASSUME NEW i \in DOMAIN evidence.heads
      PROVE  Increasing(Chronicle(evidence, i))
  <2> DEFINE c == Chronicle(evidence, i)
  <2>1. /\ c[1] < c[2] /\ c[2] < c[3] /\ c[3] < c[4] /\ c[4] < c[5] /\ c[5] < c[6]
        /\ c[6] < c[7] /\ c[7] < c[8] /\ Len(c) = 8
    BY <1>3 DEF Chronicle, Before, ValidOrder, ValidPrefix, ValidateAttestationAcceptance,
       ValidateErasure
  <2> HIDE DEF c
  <2>2. \A j \in 1 .. Len(c) - 1 : j \in {1, 2, 3, 4, 5, 6, 7}
    BY <2>1
  <2> QED
    BY <2>1, <2>2 DEF Increasing, c
<1>5. Before(evidence, Len(evidence.heads) + 1) < close.at
  BY <1>1, <1>2 DEF Before, ValidateClose, Last, IsSequence
<1>6. ASSUME NEW i \in DOMAIN evidence.heads
      PROVE  LET head == evidence.heads[i]
                 participant == Definition.participants[p][i]
             IN /\ Delivered(head.out, head.outReceipt, Definition.coordinator, participant)
                /\ Delivered(head.return, head.returnReceipt, participant, Definition.coordinator)
  BY <1>3 DEF ValidPrefix, ValidCustody, VerifyTransferReceipt, ValidReceipt, Delivered
<1>7. ASSUME NEW i \in DOMAIN evidence.heads
      PROVE  LET mirrors == evidence.heads[i].mirrors
             IN /\ Len(mirrors) >= 2
                /\ Outsiders([n \in DOMAIN mirrors |-> mirrors[n].by], "mirror", enrollments)
                /\ \A n \in DOMAIN mirrors : mirrors[n].at > evidence.chain[i].accepted
  <2> DEFINE mirrors == evidence.heads[i].mirrors
             people == [n \in DOMAIN mirrors |-> mirrors[n].by]
  <2>1. /\ Len(mirrors) \in 2 .. 8 /\ DOMAIN mirrors = 1 .. Len(mirrors)
        /\ \A n \in DOMAIN mirrors : /\ mirrors[n].at > evidence.chain[i].accepted
                                     /\ Enrolled(mirrors[n].by, "mirror", enrollments)
        /\ \A n, m \in DOMAIN mirrors : n # m =>
             mirrors[n].by.id # mirrors[m].by.id /\ mirrors[n].by.key # mirrors[m].by.key
    BY <1>1, <1>3 DEF ValidMirrors, IsSequence
  <2> HIDE DEF mirrors
  <2>2. DOMAIN people = 1 .. Len(mirrors) /\ Len(people) = Len(mirrors)
    BY <2>1
  <2>3. \A n \in 1 .. Len(mirrors) : people[n] = mirrors[n].by
    BY <2>1
  <2> HIDE DEF people
  <2>4. Len(mirrors) \in Nat /\ Len(mirrors) >= 2
    BY <1>1, <2>1
  <2>5. /\ \A n \in 1 .. Len(mirrors) : Enrolled(people[n], "mirror", enrollments)
        /\ \A n, m \in 1 .. Len(mirrors) : n # m =>
             people[n].id # people[m].id /\ people[n].key # people[m].key
    BY <2>1, <2>3
  <2>6. Outsiders(people, "mirror", enrollments)
    BY <2>2, <2>4, <2>5, OutsidersEnrolled
  <2> QED
    BY <2>1, <2>4, <2>6 DEF mirrors, people
<1>8. /\ Len(evidence.witnesses) >= 2
      /\ Outsiders([n \in DOMAIN evidence.witnesses |-> evidence.witnesses[n].who], "witness",
                   enrollments)
  <2> DEFINE seen == evidence.witnesses
             people == [n \in DOMAIN seen |-> seen[n].who]
  <2>1. /\ Len(seen) \in Nat /\ DOMAIN seen = 1 .. Len(seen) /\ Len(seen) >= evidence.quorum
        /\ evidence.quorum >= 2
        /\ \A n \in DOMAIN seen : Enrolled(seen[n].who, "witness", enrollments)
        /\ \A n, m \in DOMAIN seen : n # m =>
             seen[n].who.id # seen[m].who.id /\ seen[n].who.key # seen[m].who.key
    BY <1>1, <1>2 DEF VerifyPublicWitnessQuorum, IsSequence
  <2> HIDE DEF seen
  <2>2. DOMAIN people = 1 .. Len(seen) /\ Len(people) = Len(seen)
    BY <2>1
  <2>3. \A n \in 1 .. Len(seen) : people[n] = seen[n].who
    BY <2>1
  <2> HIDE DEF people
  <2>4. Len(seen) \in Nat /\ Len(seen) >= 2
    BY <1>1, <2>1
  <2>5. /\ \A n \in 1 .. Len(seen) : Enrolled(people[n], "witness", enrollments)
        /\ \A n, m \in 1 .. Len(seen) : n # m =>
             people[n].id # people[m].id /\ people[n].key # people[m].key
    BY <2>1, <2>3
  <2>6. Outsiders(people, "witness", enrollments)
    BY <2>2, <2>4, <2>5, OutsidersEnrolled
  <2> QED
    BY <2>4, <2>6 DEF seen, people
<1>9. ASSUME NEW n \in DOMAIN evidence.witnesses
      PROVE  /\ evidence.witnesses[n].at > close.at
             /\ evidence.witnesses[n].at + Definition.witnessLead <= RoundTime(close.round)
             /\ evidence.witnesses[n].at < RoundTime(close.round)
  <2>1. ValidatePublicWitnessReceipt(close, evidence.witnesses[n])
    BY <1>2 DEF VerifyPublicWitnessQuorum
  <2>2. RoundTime(close.round) \in Int /\ Definition.witnessLead \in Nat
    BY <1>1, DefinitionTimes DEF RoundTime
  <2> QED
    BY <1>1, <2>1, <2>2 DEF ValidatePublicWitnessReceipt
<1>10. Cardinality({o.operator : o \in ToSet(evidence.beacon.observations)}) >= 3
  <2> DEFINE seen == evidence.beacon.observations
             operators == [n \in DOMAIN seen |-> seen[n].operator]
  <2>1. /\ DOMAIN seen = 1 .. Len(seen) /\ Len(seen) \in 3 .. 16
        /\ \A n, m \in DOMAIN seen : n # m => seen[n].operator # seen[m].operator
    BY <1>1, <1>2 DEF ValidateMultiRelayBeaconEvidence, ValidBeaconEvidence, IsSequence
  <2> HIDE DEF seen
  <2>2. /\ DOMAIN operators = 1 .. Len(seen)
        /\ \A n, m \in 1 .. Len(seen) : n # m => operators[n] # operators[m]
    BY <2>1
  <2> DEFINE S == {o.operator : o \in ToSet(seen)}
  <2>3. /\ \A n \in 1 .. Len(seen) : operators[n] \in S
        /\ \A x \in S : \E n \in 1 .. Len(seen) : x = operators[n]
    BY <2>1 DEF ToSet
  <2> HIDE DEF operators, S
  <2>4. Len(seen) \in Nat /\ Len(seen) >= 3
    BY <2>1
  <2>5. Cardinality(S) = Len(seen)
    BY <2>2, <2>3, <2>4, DistinctCount, SMTT(60)
  <2>6. Cardinality(S) >= 3
    BY <2>4, <2>5
  <2> QED
    BY <2>6 DEF seen, S
<1>11. \A o \in ToSet(evidence.beacon.observations) :
         /\ o.randomness = close.round
         /\ RoundTime(close.round) <= o.at /\ o.at <= evidence.beacon.recorded
  BY <1>2 DEF ValidateMultiRelayBeaconEvidence, ValidBeaconEvidence
<1> QED
  BY <1>4, <1>5, <1>6, <1>7, <1>8, <1>9, <1>10, <1>11 DEF InOrder, evidence

\* Among the timestamps of a bundle are those of beacons and mirrors.
LEMMA TimestampsOf ==
  ASSUME NEW b, NEW p \in Phases
  PROVE  /\ b.phase[p].beacon.recorded \in operationalTimestamps(b)
         /\ \A head \in ToSet(b.phase[p].heads) : HeadTimes(head) \subseteq operationalTimestamps(b)
<1>1. ASSUME NEW evidence, NEW t \in {evidence.close.at, evidence.beacon.recorded}
      PROVE  t \in PhaseTimes(evidence)
  BY <1>1 DEF PhaseTimes
<1>2. ASSUME NEW evidence, NEW head \in ToSet(evidence.heads), NEW t \in HeadTimes(head)
      PROVE  t \in PhaseTimes(evidence)
  <2>1. t \in UNION {HeadTimes(h) : h \in ToSet(evidence.heads)}
    BY <1>2
  <2> QED
    BY <2>1 DEF PhaseTimes
<1>3. PhaseTimes(b.phase[p]) \subseteq operationalTimestamps(b)
  BY DEF operationalTimestamps
<1> QED
  BY <1>1, <1>2, <1>3

\* A verified decision rests on custody that is one unbroken sequence up to
\* closures that outsiders saw before their beacons (verifyAcceptedHeadEvidence,
\* VerifyTransferReceipt, ValidateClose, VerifyPublicWitnessQuorum).
THEOREM CustodyIsUnbroken == Spec => []CustodyIsSequential
<1>1. DecisionInv => CustodyIsSequential
  <2> SUFFICES ASSUME DecisionInv, Accepted PROVE BundleInOrder(Bundles[bundle])
    BY DEF CustodyIsSequential
  <2> DEFINE b == Bundles[bundle]
  <2>1. verifyReleaseOperationalEvidence(b, Pinned(Draft.candidate), Pinned(Draft.transcript).at)
    BY DEF DecisionInv, Evidenced, BundleVerified, Accepted, AfterTranscript, AfterChecksums,
       AfterOperational, AfterAudits, AfterExternals
  <2>2. bundle \in DOMAIN Bundles
    BY WorldsAreWellFormed DEF DecisionInv, TreeShape
  <2>3. /\ verifyEnrollmentEvidence(b.enrollments) /\ verifyGovernanceEvidence(b.governance)
        /\ \A p \in Phases : verifyPhaseOperationalEvidence(p, b.phase[p], b.enrollments)
        /\ \A t \in operationalTimestamps(b) : b.assembled > t
    BY <2>1 DEF verifyReleaseOperationalEvidence, VerifyOperationalEvidenceBundle
  <2>4. \A p \in Phases : InOrder(b.phase[p], p, b.enrollments)
    BY <2>2, <2>3, PhaseInOrder
  <2>5. ASSUME NEW p \in Phases
        PROVE  b.phase[p].beacon.recorded < b.assembled
    BY <2>3, TimestampsOf
  <2>6. ASSUME NEW p \in Phases, NEW i \in DOMAIN b.phase[p].heads, NEW n \in {1, 2}
        PROVE  b.phase[p].heads[i].mirrors[n].at < b.assembled
    <3> DEFINE head == b.phase[p].heads[i]
    <3>1. n \in DOMAIN head.mirrors
      <4>1. IsSequence(head.mirrors)
        BY <2>2, BundlesAreWellFormed
      <4>2. Len(head.mirrors) >= 2
        BY <2>4 DEF InOrder
      <4> QED
        BY <4>1, <4>2 DEF IsSequence
    <3>2. head \in ToSet(b.phase[p].heads) /\ head.mirrors[n].at \in HeadTimes(head)
      BY <3>1 DEF HeadTimes, ToSet
    <3>3. head.mirrors[n].at \in operationalTimestamps(b)
      BY <3>2, TimestampsOf
    <3> QED
      BY <2>3, <3>3
  <2> QED
    BY <2>1, <2>3, <2>4, <2>5, <2>6
    DEF BundleInOrder, verifyReleaseOperationalEvidence, verifyEnrollmentEvidence,
        verifyGovernanceEvidence, IsParty
<1> QED
  BY <1>1, DecisionsAreEstablished, PTL

=============================================================================
