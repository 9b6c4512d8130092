---------------------------- MODULE ReleaseAudit ----------------------------
(***************************************************************************)
(* From a closed transcript to a signed release: candidates are finalized, *)
(* auditors replay the transcript and sign audits of one exact candidate,  *)
(* and the release signer copies candidate, audits and operational         *)
(* evidence into a staging directory, verifies the copy and publishes it.  *)
(*                                                                         *)
(* The transcript is fixed here (TwoPhaseSetup) and replaying it yields    *)
(* Replayed.  A mistaken coordinator may sign a candidate with other keys. *)
(* Candidate, audit and evidence files are inputs of the signer that an    *)
(* operator may delete and make again while the signer is running, so what *)
(* is copied need not be what was verified first.  All timestamps are      *)
(* claims of operators.                                                    *)
(***************************************************************************)
EXTENDS Naturals, FiniteSets

CONSTANTS
  Auditors,      \* enrolled auditors
  CandidateDirs, \* candidate directories
  Paths,         \* places for audit reports
  Signers,       \* processes running sign-release
  ReleaseDirs,   \* release directories
  FinalizedAt,   \* timestamps an operator may pass to finalize
  AuditedAt,     \* ... to audit
  AssembledAt,   \* ... to the operational evidence bundle
  ReleasedAt,    \* ... to sign-release
  Replayed,      \* the keys a replay of the transcript yields
  WrongKeys,     \* any other keys
  Nothing        \* nothing there

ASSUME StampsAssumption ==
  FinalizedAt \cup AuditedAt \cup AssembledAt \cup ReleasedAt \subseteq Nat
ASSUME KeysAssumption == Replayed # WrongKeys
\* Enrolled auditors are a list in the ceremony definition and the report paths
\* a list on the command line.
ASSUME FiniteAssumption == IsFiniteSet(Auditors) /\ IsFiniteSet(Paths)

VARIABLES
  candidate,   \* candidate[d]: the signed candidate in directory d
  audit,       \* audit[f]: the signed audit at path f
  bundle,      \* assembly time of the operational evidence bundle
  performed,   \* audits that really ran: auditor and candidate (history)
  step,        \* step[s]: where signer s is in SignRelease
  input,       \* input[s]: what SignRelease of s was called with and verified
  staged,      \* staged[s]: what s has put into its staging directory
  release      \* release[r]: the release published in directory r

releaseVars == <<candidate, audit, bundle, performed, step, input, staged, release>>

Steps == {"idle", "copyCandidate", "copyAudits", "copyEvidence", "selfVerify", "publish"}

Candidates == [keys : {Replayed, WrongKeys}, finalizedAt : FinalizedAt]
Audits == [auditor : Auditors, candidate : Candidates, auditedAt : AuditedAt]

\* What SignRelease holds of its call, and the transcripts it may write.
Inputs == [dir : CandidateDirs, paths : SUBSET Paths, releasedAt : ReleasedAt,
           candidate : Candidates, bundle : AssembledAt]
Transcripts == [candidate : Candidates, audits : SUBSET Audits, bundle : AssembledAt,
                releasedAt : ReleasedAt]
Staging == [candidate : Candidates \cup {Nothing}, audits : SUBSET Audits,
            bundle : AssembledAt \cup {Nothing}, transcript : Transcripts \cup {Nothing}]

Empty == [candidate |-> Nothing, audits |-> {}, bundle |-> Nothing, transcript |-> Nothing]

-----------------------------------------------------------------------------
\* Mutant of VerifyPassingAudits: an audit of any candidate will do.
PassingAuditsUnbound(c, reports) ==
  /\ Cardinality({r.auditor : r \in reports}) >= 2
  /\ \A r, q \in reports : r.auditor = q.auditor => r = q
  /\ \A r \in reports : r.auditedAt > c.finalizedAt

\* Mutant of VerifyPassingAudits: two reports of one auditor count as two.
PassingAuditsRepeated(c, reports) ==
  /\ Cardinality(reports) >= 2
  /\ \A r \in reports : r.candidate = c /\ r.auditedAt > c.finalizedAt

\* verifyPassingAudits: two or more enrolled auditors, nobody twice, all on
\* this exact candidate and after its finalization.
VerifyPassingAudits(c, reports) ==
  /\ Cardinality(reports) >= 2
  /\ \A r, q \in reports : r.auditor = q.auditor => r = q
  /\ \A r \in reports : r.candidate = c /\ r.auditedAt > c.finalizedAt

\* validateReleaseChronology
ValidateReleaseChronology(t, reports) == \A r \in reports : t > r.auditedAt

\* verifyReleaseOperationalEvidence: the part about the release time; the
\* witnesses and closures it checks are in TwoPhaseSetup.
VerifyReleaseOperationalEvidence(b, t) == b # Nothing /\ t > b

\* NewFinalTranscript: seal IDs identify the candidate within its ceremony.
FinalTranscript(c, reports, b, t) ==
  [candidate |-> c, audits |-> reports, bundle |-> b, releasedAt |-> t]

\* VerifyRelease on a directory with these contents.
VerifyRelease(r) ==
  /\ r.candidate # Nothing
  /\ VerifyPassingAudits(r.candidate, r.audits)
  /\ ValidateReleaseChronology(r.transcript.releasedAt, r.audits)
  /\ VerifyReleaseOperationalEvidence(r.bundle, r.transcript.releasedAt)
  /\ r.transcript = FinalTranscript(r.candidate, r.audits, r.bundle, r.transcript.releasedAt)

ReleaseInit ==
  /\ candidate = [d \in CandidateDirs |-> Nothing]
  /\ audit = [f \in Paths |-> Nothing]
  /\ bundle = Nothing
  /\ performed = {}
  /\ step = [s \in Signers |-> "idle"]
  /\ input = [s \in Signers |-> Nothing]
  /\ staged = [s \in Signers |-> Empty]
  /\ release = [r \in ReleaseDirs |-> Nothing]

-----------------------------------------------------------------------------
\* Finalize into a fresh directory, or a mistaken coordinator's candidate.
FinalizeCandidate(d, keys, t) ==
  /\ candidate[d] = Nothing
  /\ candidate' = [candidate EXCEPT ![d] = [keys |-> keys, finalizedAt |-> t]]
  /\ UNCHANGED <<audit, bundle, performed, step, input, staged, release>>

\* Audit: verifyCandidate, replayAll and compareCandidateToReplay.
Audit(a, d, f, t) ==
  LET c == candidate[d] IN
  /\ c # Nothing
  /\ t > c.finalizedAt
  /\ c.keys = Replayed
  /\ audit[f] = Nothing
  /\ audit' = [audit EXCEPT ![f] = [auditor |-> a, candidate |-> c, auditedAt |-> t]]
  /\ performed' = performed \cup {<<a, c>>}
  /\ UNCHANGED <<candidate, bundle, step, input, staged, release>>

\* The coordinator signs the operational evidence bundle.
AssembleEvidence(t) ==
  /\ bundle = Nothing
  /\ bundle' = t
  /\ UNCHANGED <<candidate, audit, performed, step, input, staged, release>>

\* An operator removes a candidate, an audit or the bundle to make it again.
Discard ==
  /\ \/ \E d \in CandidateDirs :
          candidate[d] # Nothing /\ candidate' = [candidate EXCEPT ![d] = Nothing] /\ UNCHANGED <<audit, bundle>>
     \/ \E f \in Paths :
          audit[f] # Nothing /\ audit' = [audit EXCEPT ![f] = Nothing] /\ UNCHANGED <<candidate, bundle>>
     \/ bundle # Nothing /\ bundle' = Nothing /\ UNCHANGED <<candidate, audit>>
  /\ UNCHANGED <<performed, step, input, staged, release>>

-----------------------------------------------------------------------------
\* SignRelease verifies its inputs where they are.
BeginRelease(s, d, F, t) ==
  LET reports == {audit[f] : f \in F} IN
  /\ step[s] = "idle"
  /\ candidate[d] # Nothing
  /\ Nothing \notin reports
  /\ VerifyPassingAudits(candidate[d], reports)
  /\ ValidateReleaseChronology(t, reports)
  /\ VerifyReleaseOperationalEvidence(bundle, t)
  /\ input' = [input EXCEPT ![s] =
       [dir |-> d, paths |-> F, releasedAt |-> t, candidate |-> candidate[d], bundle |-> bundle]]
  /\ step' = [step EXCEPT ![s] = "copyCandidate"]
  /\ UNCHANGED <<candidate, audit, bundle, performed, staged, release>>

\* copyRegularNoReplace of every candidate file.
CopyCandidate(s) ==
  /\ step[s] = "copyCandidate"
  /\ candidate[input[s].dir] # Nothing
  /\ staged' = [staged EXCEPT ![s].candidate = candidate[input[s].dir]]
  /\ step' = [step EXCEPT ![s] = "copyAudits"]
  /\ UNCHANGED <<candidate, audit, bundle, performed, input, release>>

\* bundleAuditArtifacts; the copies are verified against the candidate that
\* was read first.
CopyAudits(s) ==
  LET reports == {audit[f] : f \in input[s].paths} IN
  /\ step[s] = "copyAudits"
  /\ Nothing \notin reports
  /\ VerifyPassingAudits(input[s].candidate, reports)
  /\ staged' = [staged EXCEPT ![s].audits = reports]
  /\ step' = [step EXCEPT ![s] = "copyEvidence"]
  /\ UNCHANGED <<candidate, audit, bundle, performed, input, release>>

\* copyOperationalEvidence, verified again and compared; then the final
\* transcript and the manifest.
CopyEvidence(s) ==
  /\ step[s] = "copyEvidence"
  /\ bundle = input[s].bundle
  /\ staged' = [staged EXCEPT ![s].bundle = bundle,
       ![s].transcript = FinalTranscript(input[s].candidate, staged[s].audits, bundle, input[s].releasedAt)]
  /\ step' = [step EXCEPT ![s] = "selfVerify"]
  /\ UNCHANGED <<candidate, audit, bundle, performed, input, release>>

\* Mutant of SelfVerify: the staged release is published as it is.
SelfVerifySkipped(s) ==
  /\ step[s] = "selfVerify"
  /\ step' = [step EXCEPT ![s] = "publish"]
  /\ UNCHANGED <<candidate, audit, bundle, performed, input, staged, release>>

\* VerifyRelease on the staging directory.
SelfVerify(s) ==
  /\ step[s] = "selfVerify"
  /\ VerifyRelease(staged[s])
  /\ step' = [step EXCEPT ![s] = "publish"]
  /\ UNCHANGED <<candidate, audit, bundle, performed, input, staged, release>>

\* The call of s ends and its staging directory is gone.
Stop(s) ==
  /\ input' = [input EXCEPT ![s] = Nothing]
  /\ staged' = [staged EXCEPT ![s] = Empty]
  /\ step' = [step EXCEPT ![s] = "idle"]

\* publishReleaseDirectory: no-replace, an equal directory is a success.
PublishRelease(s, r) ==
  /\ step[s] = "publish"
  /\ release[r] \in {Nothing, staged[s]}
  /\ release' = [release EXCEPT ![r] = staged[s]]
  /\ Stop(s)
  /\ UNCHANGED <<candidate, audit, bundle, performed>>

\* A check failed, the release directory is taken, or the process died.
FailRelease(s) ==
  /\ step[s] # "idle"
  /\ Stop(s)
  /\ UNCHANGED <<candidate, audit, bundle, performed, release>>

ReleaseNext ==
  \/ \E d \in CandidateDirs, keys \in {Replayed, WrongKeys}, t \in FinalizedAt :
       FinalizeCandidate(d, keys, t)
  \/ \E a \in Auditors, d \in CandidateDirs, f \in Paths, t \in AuditedAt : Audit(a, d, f, t)
  \/ \E t \in AssembledAt : AssembleEvidence(t)
  \/ Discard
  \/ \E s \in Signers, d \in CandidateDirs, F \in SUBSET Paths, t \in ReleasedAt :
       BeginRelease(s, d, F, t)
  \/ \E s \in Signers :
       CopyCandidate(s) \/ CopyAudits(s) \/ CopyEvidence(s) \/ SelfVerify(s) \/ FailRelease(s)
  \/ \E s \in Signers, r \in ReleaseDirs : PublishRelease(s, r)

ReleaseSpec == ReleaseInit /\ [][ReleaseNext]_releaseVars

-----------------------------------------------------------------------------
\* Types: directories hold signed documents or nothing, and a signer at work
\* has an input.
ReleaseTypeOK ==
  /\ candidate \in [CandidateDirs -> Candidates \cup {Nothing}]
  /\ audit \in [Paths -> Audits \cup {Nothing}]
  /\ bundle \in AssembledAt \cup {Nothing}
  /\ performed \subseteq Auditors \X Candidates
  /\ step \in [Signers -> Steps]
  /\ input \in [Signers -> Inputs \cup {Nothing}]
  /\ \A s \in Signers : step[s] # "idle" => input[s] \in Inputs
  /\ staged \in [Signers -> Staging]
  /\ release \in [ReleaseDirs -> Staging \cup {Nothing}]

\* Every published release passes strict verification, although candidate,
\* audits and evidence may have changed between the reads of SignRelease.
ReleaseVerifies ==
  \A r \in ReleaseDirs : release[r] # Nothing => VerifyRelease(release[r])

\* A release carries the keys a replay yields, whatever candidates the
\* coordinator signed: the audits it needs exist for no other candidate.
ReleasedKeysWereReplayed ==
  \A r \in ReleaseDirs : release[r] # Nothing => release[r].candidate.keys = Replayed

\* Two different auditors really replayed the candidate that is released
\* ("at least two distinct, enrolled, signed passing audits").
ReleaseIndependentlyAudited ==
  \A r \in ReleaseDirs :
    release[r] # Nothing =>
      Cardinality({a \in Auditors : <<a, release[r].candidate>> \in performed}) >= 2

-----------------------------------------------------------------------------
\* A report that an auditor's own replay stands behind.
Genuine(r) ==
  /\ r \in Audits
  /\ r.candidate.keys = Replayed
  /\ <<r.auditor, r.candidate>> \in performed

\* Reports lying at their paths are genuine; so are the copies in a staging
\* directory, whatever happened to the originals; a signer about to publish
\* has verified what it staged; a release is such a staging directory.
ReportsAreGenuine == \A f \in Paths : audit[f] # Nothing => Genuine(audit[f])
BackedBy(c) == IsFiniteSet(c.audits) /\ \A r \in c.audits : Genuine(r)
StagingIsBacked == \A s \in Signers : BackedBy(staged[s])
VerifiedBeforePublish == \A s \in Signers : step[s] = "publish" => VerifyRelease(staged[s])
ReleasesAreBacked == \A r \in ReleaseDirs : release[r] # Nothing => BackedBy(release[r])

\* The inductive invariant behind the three properties above.
ReleaseInv ==
  /\ ReleaseTypeOK
  /\ ReportsAreGenuine
  /\ StagingIsBacked
  /\ VerifiedBeforePublish
  /\ ReleasesAreBacked
  /\ ReleaseVerifies
=============================================================================
