------------------------- MODULE ProductionDecision -------------------------
(***************************************************************************)
(* The production decision about a signed release: decision-prepare,       *)
(* decision-sign by the coordinator, the two auditors and the release      *)
(* signer, each with an evidence tree of their own, and decision-verify.   *)
(*                                                                         *)
(* A decision pins every piece of evidence by name, location and digest.   *)
(* The commands first compare every pinned file and then read the files    *)
(* again for one check after the other, while the tree may be edited.  The *)
(* commands share only that tree, so one runs at a time and edits fall     *)
(* between its steps and between two commands.                             *)
(*                                                                         *)
(* root maps a name to the digest of the file there, Documents a digest    *)
(* to its document; the operational evidence bundle is one of Bundles.  A     *)
(* mistaken coordinator or release signer may have signed other keys than  *)
(* the transcript yields; an auditor passes only keys its replay yields.   *)
(***************************************************************************)
EXTENDS OperationalEvidence

CONSTANTS
  Documents,     \* Documents[b]: digest |-> document, if the bundle is b
  Drafts,        \* the decision drafts: name |-> draft
  Bundles,       \* operational evidence bundles: name |-> bundle
  Worlds,        \* what there may be at first: a root, the drafts with the
                 \* people who try to sign them, bundles, allowed edits
  Edits,         \* changes of the tree: [name, digest]
  Missing        \* no file

\* A bundle's lists are sequences, and its times and rounds are numbers.
IsSequence(s) == Len(s) \in Nat /\ DOMAIN s = 1 .. Len(s)

ASSUME BundlesAreWellFormed ==
  \A b \in DOMAIN Bundles, p \in Phases :
    LET evidence == Bundles[b].phase[p]
    IN /\ IsSequence(evidence.chain) /\ IsSequence(evidence.heads)
       /\ IsSequence(evidence.witnesses) /\ IsSequence(evidence.beacon.observations)
       /\ \A i \in DOMAIN evidence.heads : IsSequence(evidence.heads[i].mirrors)
       /\ \A n \in DOMAIN evidence.witnesses : evidence.witnesses[n].at \in Nat
       /\ evidence.close.round \in Nat /\ evidence.quorum \in Nat

ASSUME WorldsAreWellFormed ==
  \A w \in DOMAIN Worlds : \A b \in Worlds[w].bundles :
    /\ b \in DOMAIN Bundles /\ b \in DOMAIN Documents
    /\ \A name \in DOMAIN Worlds[w].root : Worlds[w].root[name] \in DOMAIN Documents[b]
    /\ \A change \in Edits : change.digest \in DOMAIN Documents[b]

\* Auditors are told apart by ids that have an order.
ASSUME AuditorsAreOrdered == \A who \in Auditors : who.id \in Nat

\* What AuditCandidate promises of the people it runs for: an auditor passes
\* only keys that its own replay of the transcript yields.
ASSUME AuditorsReplay ==
  \A b \in DOMAIN Documents : \A digest \in DOMAIN Documents[b] :
    LET doc == Documents[b][digest]
    IN doc.kind = "audit" => (doc.by \in Auditors /\ doc.passed => doc.keys = "replayed")

VARIABLES
  world,        \* the one of Worlds this is; never changes
  bundle,       \* the bundle in it; never changes
  root,         \* the evidence tree
  prepared,     \* drafts that were made decisions
  signatures,   \* signatures written, and whether the evidence was checked
  command,      \* the command running, or the last one and how it ended
  edits         \* changes of the tree left

vars == <<world, bundle, root, prepared, signatures, command, edits>>

\* What the two checksum files of a release list: the candidate stands for
\* its files, too (candidateChecksumNames, releaseChecksumNames).
CandidateChecksums == "candidateChecksums"
ReleaseChecksums == "releaseChecksums"
candidateChecksumNames == {"candidate"}
releaseChecksumNames ==
  candidateChecksumNames
  \cup {CandidateChecksums, "transcript", "manifest", "audit1", "audit2", "operational"}

\* The names a release directory may have: the files of a release with two
\* audits, and one that does not belong there.
ReleaseFiles == releaseChecksumNames \cup {ReleaseChecksums}
ReleaseNames == ReleaseFiles \cup {"stray"}

Idle == [kind |-> "none", stage |-> "idle"]
Ended == command.stage \in {"idle", "accepted", "rejected"}

-----------------------------------------------------------------------------
(* A decision by itself. *)

\* allLocatedArtifacts
allLocatedArtifacts(d) ==
  {d.manifest, d.candidate, d.transcript, d.operational, d.plan, d.checklist}
  \cup {d.audits[n].ref : n \in DOMAIN d.audits}
  \cup {d.externals[n].ref : n \in DOMAIN d.externals}
  \cup ToSet(d.tree)
  \cup UNION {ToSet(d.gates[g].evidence) : g \in DOMAIN d.gates}

\* validateLocatedArtifactCoherence
validateLocatedArtifactCoherence(d) ==
  \A r, q \in allLocatedArtifacts(d) : r.name = q.name \/ r.uri = q.uri => r = q

\* uniqueLocatedArtifacts: one per location.  Which one it is makes no
\* difference: it is used after validateLocatedArtifactCoherence.
uniqueLocatedArtifacts(d) ==
  LET refs == allLocatedArtifacts(d)
  IN {(CHOOSE ref \in refs : ref.uri = uri) : uri \in {ref.uri : ref \in refs}}

\* SignedReleaseEvidence.Validate: the tree names every file once.
ValidRelease(d) == \A n, m \in DOMAIN d.tree : n # m => d.tree[n].name # d.tree[m].name

\* ProductionGateResult.Validate
ValidGate(gate) == gate.status = "pass" => gate.evidence # <<>>

\* ProductionDecision.Validate
ValidDecision(d) ==
  LET AllPass == \A g \in DOMAIN d.gates : d.gates[g].status = "pass"
  IN /\ ValidRelease(d)
     /\ DOMAIN d.audits = {1, 2}
     /\ d.audits[1].who.id < d.audits[2].who.id
     /\ d.audits[1].who.key # d.audits[2].who.key
     /\ DOMAIN d.externals = {1, 2}
     /\ d.externals[1].who.id < d.externals[2].who.id
     /\ d.externals[1].who.key # d.externals[2].who.key
     /\ \A g \in DOMAIN d.gates : ValidGate(d.gates[g])
     /\ d.outcome = "GO" <=> AllPass
     /\ validateLocatedArtifactCoherence(d)

\* validateProductionDecisionBinding
validateProductionDecisionBinding(d) ==
  /\ \A n \in DOMAIN d.audits : d.audits[n].who \in Auditors
  /\ \A n \in DOMAIN d.externals :
       d.externals[n].who.key \notin
         {who.key : who \in {Definition.coordinator, Definition.releaseSigner} \cup Auditors}

\* decisionSignerIdentity: the identities a role and an id stand for (one or
\* none).
decisionSignerIdentity(d, role, id) ==
  LET of == [coordinator   |-> {Definition.coordinator},
             releaseSigner |-> {Definition.releaseSigner},
             auditor       |-> {d.audits[n].who : n \in DOMAIN d.audits} \cap Auditors]
  IN {who \in of[role] : validateProductionDecisionBinding(d) /\ who.id = id}

\* requiredDecisionSigners
requiredDecisionSigners(d) ==
  {<<"coordinator", Definition.coordinator.id>>,
   <<"auditor", d.audits[1].who.id>>,
   <<"auditor", d.audits[2].who.id>>,
   <<"releaseSigner", Definition.releaseSigner.id>>}

-----------------------------------------------------------------------------
(* A decision and its evidence. *)

At(name) == IF name \in DOMAIN root THEN root[name] ELSE Missing

\* Mutant of decisionArtifactBytes: a file that was pinned once is not
\* compared again.
decisionArtifactBytesOnce(ref) == At(ref.name) # Missing

\* decisionArtifactBytes: every read compares the pinned digest.
decisionArtifactBytes(ref) == At(ref.name) = ref.digest

Is(name, kind) == At(name) # Missing /\ Documents[bundle][At(name)].kind = kind
Read(ref) == Documents[bundle][At(ref.name)]

\* The comparison of all pinned files in VerifyProductionDecisionEvidence
ArtifactsMatch(d) == \A ref \in uniqueLocatedArtifacts(d) : At(ref.name) = ref.digest

\* verifyDecisionReleaseTree: exactly the pinned files are in the release
\* directory.
verifyDecisionReleaseTree(d) ==
  LET pinned == ToSet(d.tree)
      present == {name \in ReleaseNames : At(name) # Missing}
  IN /\ {ref.name : ref \in pinned} = present
     /\ \A ref \in pinned : At(ref.name) = ref.digest

\* verifyDecisionRelease, first part: the manifest is the release signer's,
\* the candidate the coordinator's, both are in the tree and agree on keys.
verifyDecisionRelease(d) ==
  /\ verifyDecisionReleaseTree(d)
  /\ decisionArtifactBytes(d.manifest) /\ Is(d.manifest.name, "manifest")
  /\ Read(d.manifest).by = Definition.releaseSigner
  /\ decisionArtifactBytes(d.candidate) /\ Is(d.candidate.name, "candidate")
  /\ Read(d.candidate).by = Definition.coordinator
  /\ {d.manifest, d.candidate, d.transcript} \subseteq ToSet(d.tree)
  /\ {CandidateChecksums, ReleaseChecksums} \subseteq {ref.name : ref \in ToSet(d.tree)}
  /\ Read(d.manifest).keys = Read(d.candidate).keys

\* verifyDecisionRelease, second part: the final transcript names exactly
\* the two audits, in the order of the decision, and the evidence bundle;
\* the bundle itself is verified.  Manifest and candidate are the ones the
\* first part read.
verifyDecisionTranscript(d, manifest, candidate) ==
  /\ decisionArtifactBytes(d.transcript) /\ Is(d.transcript.name, "transcript")
  /\ LET transcript == Read(d.transcript)
     IN /\ transcript.keys = candidate.keys
        /\ transcript.phase = candidate.phase
        /\ transcript.audits = <<d.audits[1].ref.digest, d.audits[2].ref.digest>>
        /\ transcript.operational = d.operational.digest
        /\ manifest.transcript = At(d.transcript.name)
        /\ Is("operational", "operational")
        /\ verifyReleaseOperationalEvidence(Bundles[bundle], candidate, transcript.at)
        /\ At("operational") = d.operational.digest

\* verifyChecksumsExact: a checksum file, whatever is there now, lists these
\* names with the digests of the files that are there now.  Nothing is
\* compared with a pin.
verifyChecksumsExact(file, names) ==
  /\ Is(file, "checksums")
  /\ LET sums == Documents[bundle][At(file)].of
     IN /\ DOMAIN sums = names
        /\ \A name \in names : At(name) # Missing /\ At(name) = sums[name]

\* verifyDecisionRelease, last part: both checksum files, and
\* verifyReleaseTreeExact: nothing else is in the release.
verifyDecisionChecksums ==
  /\ verifyChecksumsExact(CandidateChecksums, candidateChecksumNames)
  /\ verifyChecksumsExact(ReleaseChecksums, releaseChecksumNames)
  /\ {name \in ReleaseNames : At(name) # Missing} = ReleaseFiles

\* verifyDecisionOperationalEvidence
verifyDecisionOperationalEvidence(d) ==
  /\ decisionArtifactBytes(d.operational) /\ Is(d.operational.name, "operational")
  /\ Bundles[bundle].by = Definition.coordinator

\* verifyDecisionAudits: each is its auditor's passing audit of this candidate.
verifyDecisionAudits(d) ==
  /\ decisionArtifactBytes(d.candidate)
  /\ \A n \in DOMAIN d.audits :
       /\ decisionArtifactBytes(d.audits[n].ref) /\ Is(d.audits[n].ref.name, "audit")
       /\ LET audit == Read(d.audits[n].ref)
          IN /\ audit.by = d.audits[n].who
             /\ audit.passed
             /\ audit.keys = Read(d.candidate).keys

\* verifyDecisionExternalAudits
verifyDecisionExternalAudits(d) ==
  \A n \in DOMAIN d.externals :
    /\ decisionArtifactBytes(d.externals[n].ref)
    /\ Is(d.externals[n].ref.name, "report")
    /\ Read(d.externals[n].ref).by = d.externals[n].who

-----------------------------------------------------------------------------
Init ==
  /\ world \in DOMAIN Worlds
  /\ bundle \in Worlds[world].bundles
  /\ root = Worlds[world].root
  /\ edits = Worlds[world].edits
  /\ prepared = {} /\ signatures = {}
  /\ command = Idle

Draft == Drafts[command.decision]

\* A command about decision d starts with its arguments.  clean, astray and
\* drifted are history: no edit of the tree so far; a check went by something
\* else than is pinned; the checksum pass, which compares with no pin, read
\* something else than is pinned.  held are the manifest and the candidate it
\* has in memory.
Begins(kind, d, stage, args) ==
  [kind |-> kind, decision |-> d, args |-> args, stage |-> stage, matched |-> {},
   held |-> <<>>, clean |-> root = Worlds[world].root, astray |-> FALSE, drifted |-> FALSE]

\* PrepareProductionDecision: the draft with its IDs is a valid decision.
PrepareProductionDecision(d) ==
  ValidDecision(Drafts[d]) /\ validateProductionDecisionBinding(Drafts[d])

\* executeDecisionPrepare, into a fresh file
executeDecisionPrepare(d) ==
  /\ Ended
  /\ LET ok == d \notin prepared /\ PrepareProductionDecision(d)
     IN /\ prepared' = IF ok THEN prepared \cup {d} ELSE prepared
        /\ command' = [kind |-> "prepare", decision |-> d, fresh |-> d \notin prepared,
                       stage |-> IF ok THEN "accepted" ELSE "rejected"]
  /\ UNCHANGED <<world, bundle, root, signatures, edits>>

\* executeDecisionSign: without an evidence tree only a NO-GO may be signed.
executeDecisionSign(d, who, checks) ==
  /\ Ended /\ d \in prepared
  /\ LET stage == IF checks THEN "pins"
                  ELSE IF Drafts[d].outcome = "GO" THEN "rejected" ELSE "finish"
     IN command' = Begins("sign", d, stage, [who |-> who, checks |-> checks])
  /\ UNCHANGED <<world, bundle, root, prepared, signatures, edits>>

\* executeDecisionVerify, with the signature files submitted
executeDecisionVerify(d, submitted) ==
  /\ Ended /\ d \in prepared
  /\ command' = Begins("verify", d, "pins", [submitted |-> submitted])
  /\ UNCHANGED <<world, bundle, root, prepared, signatures, edits>>

\* One check of VerifyProductionDecisionEvidence, which reads refs.
Check(stage, next, holds, refs) ==
  /\ command.stage = stage
  /\ command' = [command EXCEPT
       !.stage = IF holds THEN next ELSE "rejected",
       !.astray = @ \/ \E ref \in refs : At(ref.name) # ref.digest]
  /\ UNCHANGED <<world, bundle, root, prepared, signatures, edits>>

\* VerifyProductionDecisionEvidence up to the comparison of pinned files
VerifyArtifacts ==
  /\ command.stage = "pins"
  /\ LET holds == /\ ValidDecision(Draft)
                  /\ validateProductionDecisionBinding(Draft)
                  /\ ArtifactsMatch(Draft)
     IN command' = [command EXCEPT
          !.stage = IF holds THEN "release" ELSE "rejected",
          !.matched = {ref.name : ref \in IF holds THEN uniqueLocatedArtifacts(Draft) ELSE {}}]
  /\ UNCHANGED <<world, bundle, root, prepared, signatures, edits>>

VerifyRelease ==
  /\ command.stage = "release"
  /\ LET holds == verifyDecisionRelease(Draft)
     IN command' = [command EXCEPT
          !.stage = IF holds THEN "transcript" ELSE "rejected",
          !.held = IF holds THEN <<At(Draft.manifest.name), At(Draft.candidate.name)>> ELSE @,
          !.astray = \E ref \in ToSet(Draft.tree) : At(ref.name) # ref.digest]
  /\ UNCHANGED <<world, bundle, root, prepared, signatures, edits>>

VerifyTranscript ==
  Check("transcript", "checksums",
        verifyDecisionTranscript(Draft, Documents[bundle][command.held[1]],
                                 Documents[bundle][command.held[2]]),
        {Draft.transcript, [name |-> "operational", digest |-> Draft.operational.digest]})

VerifyChecksums ==
  /\ command.stage = "checksums"
  /\ command' = [command EXCEPT
       !.stage = IF verifyDecisionChecksums THEN "operational" ELSE "rejected",
       !.drifted = \E ref \in ToSet(Draft.tree) : At(ref.name) # ref.digest]
  /\ UNCHANGED <<world, bundle, root, prepared, signatures, edits>>

VerifyOperational ==
  Check("operational", "audits", verifyDecisionOperationalEvidence(Draft), {Draft.operational})

VerifyAudits ==
  Check("audits", "externals", verifyDecisionAudits(Draft),
        {Draft.candidate, Draft.audits[1].ref, Draft.audits[2].ref})

VerifyExternalAudits ==
  Check("externals", "finish", verifyDecisionExternalAudits(Draft),
        {Draft.externals[1].ref, Draft.externals[2].ref})

\* SignProductionDecision and the fresh signature file: the key must be the
\* one of the identity that the role and the id stand for.
SignProductionDecision ==
  /\ command.kind = "sign" /\ command.stage = "finish"
  /\ LET who == command.args.who
         ok == /\ ValidDecision(Draft)
               /\ \E identity \in decisionSignerIdentity(Draft, who.role, who.id) :
                    identity.key = who.key
               /\ ~ \E s \in signatures : s.who = who /\ s.decision = command.decision
     IN /\ command' = [command EXCEPT !.stage = IF ok THEN "accepted" ELSE "rejected"]
        /\ signatures' = IF ok
             THEN signatures \cup {[who |-> who, decision |-> command.decision,
                                    checked |-> command.args.checks]}
             ELSE signatures
  /\ UNCHANGED <<world, bundle, root, prepared, edits>>

\* Mutant of VerifySignatures: the signed bytes are not compared.
VerifySignaturesUnbound(d, submitted) ==
  LET by == {<<s.who.role, s.who.id>> : s \in submitted}
  IN /\ \A s \in submitted : decisionSignerIdentity(Drafts[d], s.who.role, s.who.id) # {}
     /\ by # {}
     /\ Drafts[d].outcome = "GO" => by = requiredDecisionSigners(Drafts[d])

\* The signatures in VerifyProductionDecision: all are of this decision,
\* nobody signs twice, a GO has exactly the required ones.
VerifySignatures(d, submitted) ==
  LET by == {<<s.who.role, s.who.id>> : s \in submitted}
  IN /\ \A s \in submitted :
          /\ s.decision = d
          /\ \E identity \in decisionSignerIdentity(Drafts[d], s.who.role, s.who.id) :
               identity.key = s.who.key
     /\ Cardinality(by) = Cardinality(submitted)
     /\ by # {}
     /\ Drafts[d].outcome = "GO" => by = requiredDecisionSigners(Drafts[d])

\* VerifyProductionDecision, after the evidence
VerifyProductionDecision ==
  /\ command.kind = "verify" /\ command.stage = "finish"
  /\ command' = [command EXCEPT !.stage =
       IF VerifySignatures(command.decision, command.args.submitted)
       THEN "accepted" ELSE "rejected"]
  /\ UNCHANGED <<world, bundle, root, prepared, signatures, edits>>

\* Somebody changes the evidence tree.
Edit(change) ==
  /\ edits > 0
  /\ At(change.name) # change.digest
  /\ root' = [root EXCEPT ![change.name] = change.digest]
  /\ command' = IF Ended THEN command ELSE [command EXCEPT !.clean = FALSE]
  /\ edits' = edits - 1
  /\ UNCHANGED <<world, bundle, prepared, signatures>>

\* What an operator submits for decision d: the signatures of it, perhaps
\* without one of them or with one of another decision.
Submissions(d) ==
  LET own == {s \in signatures : s.decision = d}
  IN {own} \cup {own \ {s} : s \in own} \cup {own \cup {s} : s \in signatures}

Next ==
  \/ \E d \in DOMAIN Worlds[world].drafts :
       \/ executeDecisionPrepare(d)
       \/ \E who \in Worlds[world].drafts[d], checks \in BOOLEAN : executeDecisionSign(d, who, checks)
       \/ \E submitted \in Submissions(d) : executeDecisionVerify(d, submitted)
  \/ VerifyArtifacts
  \/ VerifyRelease
  \/ VerifyTranscript
  \/ VerifyChecksums
  \/ VerifyOperational
  \/ VerifyAudits
  \/ VerifyExternalAudits
  \/ SignProductionDecision
  \/ VerifyProductionDecision
  \/ \E change \in Edits : Edit(change)

Spec == Init /\ [][Next]_vars

-----------------------------------------------------------------------------
(* Properties. *)

Accepted == command.kind = "verify" /\ command.stage = "accepted"
Pinned(ref) == Documents[bundle][ref.digest]

\* A verified GO is backed by its people: the pinned candidate has the keys
\* a replay yields, two different enrolled auditors passed exactly them, and
\* the coordinator, both auditors and the release signer each signed this
\* decision with their own key after checking its evidence (executeDecisionSign,
\* VerifyProductionDecision).
GoIsBacked ==
  Accepted /\ Draft.outcome = "GO" =>
    LET signers == {s \in signatures : s.decision = command.decision /\ s.checked}
        backers == {Definition.coordinator, Definition.releaseSigner}
                   \cup {Pinned(Draft.audits[n].ref).by : n \in {1, 2}}
    IN /\ Pinned(Draft.candidate).keys = "replayed"
       /\ Cardinality({Pinned(Draft.audits[n].ref).by : n \in {1, 2}} \cap Auditors) = 2
       /\ \A n \in {1, 2} : /\ Pinned(Draft.audits[n].ref).passed
                            /\ Pinned(Draft.audits[n].ref).keys = "replayed"
       /\ \A who \in backers : \E s \in signers : s.who.key = who.key

\* A pinned checksum file lists the pinned digests of these files.
Summed(file, names) ==
  \A sums, ref \in ToSet(Draft.tree) :
    sums.name = file /\ ref.name \in names => Pinned(sums).of[ref.name] = ref.digest

\* A verified decision stands for exactly the bytes it pins, whatever was
\* edited meanwhile: each of them was found in the tree, and the checks of
\* release, bundle and audits went by no others (uniqueLocatedArtifacts,
\* decisionArtifactBytes).  The checksum pass may read others: the pinned
\* checksum files list the pinned files unless the release differed from its
\* pins just then (verifyChecksumsExact).
PinsWereSeen ==
  Accepted =>
    /\ \A ref \in allLocatedArtifacts(Draft) : ref.name \in command.matched
    /\ ~command.astray
    /\ \/ command.drifted
       \/ /\ Summed(CandidateChecksums, candidateChecksumNames)
          /\ Summed(ReleaseChecksums, releaseChecksumNames)

\* Reference: what had happened to a phase before its contribution i.
Before(evidence, i) == IF i = 1 THEN Definition.created ELSE evidence.chain[i - 1].accepted

\* Reference: what happened to contribution i, in order.
Chronicle(evidence, i) ==
  <<Before(evidence, i),
    evidence.heads[i].out.created, evidence.heads[i].outReceipt.at,
    evidence.chain[i].contributed, evidence.chain[i].destroyed,
    evidence.heads[i].return.created, evidence.heads[i].returnReceipt.at,
    evidence.chain[i].accepted>>

Increasing(s) == \A i \in 1 .. Len(s) - 1 : s[i] < s[i + 1]

Outsiders(people, role, enrollments) ==
  /\ Cardinality({who.id : who \in ToSet(people)}) = Len(people)
  /\ Cardinality({who.key : who \in ToSet(people)}) = Len(people)
  /\ \A who \in ToSet(people), actor \in Actors : who.id # actor.id /\ who.key # actor.key
  /\ \A who \in ToSet(people) : \E e \in enrollments : e.who = who /\ e.role = role

Delivered(h, r, from, to) ==
  h.from = from /\ h.to = to /\ r.handoff = h /\ r.by = to /\ r.at <= h.expires

\* Reference: custody passed from hand to hand in order, secrets were gone
\* before the output left, copies went to at least two outsiders, and at
\* least two outsiders saw the closure long enough before the beacon that
\* three operators retrieved afterwards.
InOrder(evidence, phase, enrollments) ==
  /\ \A i \in DOMAIN evidence.heads : Increasing(Chronicle(evidence, i))
  /\ Before(evidence, Len(evidence.heads) + 1) < evidence.close.at
  /\ \A i \in DOMAIN evidence.heads :
       LET head == evidence.heads[i]
           participant == Definition.participants[phase][i]
       IN /\ Delivered(head.out, head.outReceipt, Definition.coordinator, participant)
          /\ Delivered(head.return, head.returnReceipt, participant, Definition.coordinator)
          /\ Len(head.mirrors) >= 2
          /\ Outsiders([n \in DOMAIN head.mirrors |-> head.mirrors[n].by], "mirror", enrollments)
          /\ \A n \in DOMAIN head.mirrors : head.mirrors[n].at > evidence.chain[i].accepted
  /\ Len(evidence.witnesses) >= 2
  /\ Outsiders([n \in DOMAIN evidence.witnesses |-> evidence.witnesses[n].who], "witness",
               enrollments)
  /\ \A n \in DOMAIN evidence.witnesses :
       /\ evidence.witnesses[n].at > evidence.close.at
       /\ evidence.witnesses[n].at + Definition.witnessLead <= RoundTime(evidence.close.round)
       /\ evidence.witnesses[n].at < RoundTime(evidence.close.round)
  /\ Cardinality({o.operator : o \in ToSet(evidence.beacon.observations)}) >= 3
  /\ \A o \in ToSet(evidence.beacon.observations) :
       /\ o.randomness = evidence.close.round
       /\ RoundTime(evidence.close.round) <= o.at /\ o.at <= evidence.beacon.recorded

\* Reference: the bundle as a whole, of the pinned candidate's transcript,
\* signed by people who are known, and assembled after all of it.
BundleInOrder(b) ==
  /\ \A actor \in Actors : \E e \in b.enrollments : e.who = actor
  /\ \A r \in b.governance : r.by \in Actors
  /\ \A p \in Phases :
       /\ InOrder(b.phase[p], p, b.enrollments)
       /\ Pinned(Draft.candidate).phase[p].chain = b.phase[p].chain
       /\ Pinned(Draft.candidate).phase[p].close = b.phase[p].close
       /\ b.phase[p].beacon.recorded < b.assembled
       /\ \A i \in DOMAIN b.phase[p].heads, n \in {1, 2} :
            b.phase[p].heads[i].mirrors[n].at < b.assembled
  /\ b.assembled < Pinned(Draft.transcript).at

\* A verified decision rests on operational evidence in which the custody of
\* every contribution is one unbroken sequence up to a closure that outsiders
\* saw before its beacon.  The comparisons that add up to it are spread over
\* verifyAcceptedHeadEvidence, VerifyTransferReceipt,
\* ValidateErasureForContribution, ValidateAttestationAcceptance, ValidateClose
\* and the witness and beacon checks.
CustodyIsSequential == Accepted => BundleInOrder(Bundles[bundle])

\* Nothing that is right is turned down: over an unedited tree that has all
\* the evidence of a right release, a right decision is prepared, signed by
\* those who must sign it, and verified with their signatures.
RightEvidenceIsAccepted ==
  command.stage = "rejected" =>
    ~ /\ Worlds[world].right /\ BundleInOrder(Bundles[bundle])
      /\ CASE command.kind = "prepare" -> command.fresh
           [] command.kind = "sign" ->
                /\ command.clean /\ command.args.checks
                /\ <<command.args.who.role, command.args.who.id>> \in requiredDecisionSigners(Draft)
                /\ \E actor \in Actors : actor.id = command.args.who.id /\ actor.key = command.args.who.key
                /\ ~ \E s \in signatures : s.who = command.args.who /\ s.decision = command.decision
           [] command.kind = "verify" ->
                /\ command.clean
                /\ \A s \in command.args.submitted : s.decision = command.decision
                /\ {<<s.who.role, s.who.id>> : s \in command.args.submitted}
                     = requiredDecisionSigners(Draft)
=============================================================================
