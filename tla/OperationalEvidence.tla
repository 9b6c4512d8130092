------------------------ MODULE OperationalEvidence ------------------------
(***************************************************************************)
(* What the verifier of the operational evidence bundle demands: the       *)
(* custody of every accepted contribution (handoffs, receipts, mirrors),   *)
(* the public witnesses of both closures, the relays that retrieved both   *)
(* beacons and the enrolment of everybody who signed any of it.            *)
(*                                                                         *)
(* A record is signed by the identity it names; its digest is its content. *)
(* An identity is [id, key].  Timestamps are naturals.  Record formats,    *)
(* software and circuit bindings and storage locations are left out.       *)
(***************************************************************************)
EXTENDS Integers, Sequences, FiniteSets, SequencesExt, FiniteSetsExt

CONSTANT
  Definition   \* the signed ceremony definition: created, coordinator,
               \* releaseSigner, auditors, roster, participants[phase],
               \* witnessLead, genesisTime and period of the beacon

ASSUME DefinitionTimes ==
  {Definition.witnessLead, Definition.genesisTime, Definition.period} \subseteq Nat

Phases == {"phase1", "phase2"}

Auditors == ToSet(Definition.auditors)
Roster == ToSet(Definition.roster)

\* The people of the ceremony itself.
Actors == {Definition.coordinator, Definition.releaseSigner} \cup Auditors \cup Roster

\* identityOverlapsDefinition
identityOverlapsDefinition(who) ==
  \E actor \in Actors : actor.id = who.id \/ actor.key = who.key

\* definitionRoleAt: every actor has one role and a one-based index in it.
definitionRoleAt(who, role, index) ==
  \/ role = "coordinator" /\ index = 1 /\ who = Definition.coordinator
  \/ role = "releaseSigner" /\ index = 1 /\ who = Definition.releaseSigner
  \/ /\ role = "auditor" /\ index \in DOMAIN Definition.auditors
     /\ who = Definition.auditors[index]
  \/ /\ role = "participant" /\ index \in DOMAIN Definition.roster
     /\ who = Definition.roster[index]

\* definitionIdentityByID, verifyTransferParty
IsParty(who) == who \in Actors

-----------------------------------------------------------------------------
(* Enrolment. *)

\* EnrollmentRecord.Validate, verifyEnrollmentBinding: an outsider is nobody
\* of the ceremony, an actor has the role the definition gives it.
verifyEnrollmentBinding(e) ==
  /\ e.index > 0
  /\ IF e.role \in {"witness", "mirror"}
     THEN ~identityOverlapsDefinition(e.who)
     ELSE definitionRoleAt(e.who, e.role, e.index)
  /\ e.at >= Definition.created

\* verifyEnrollmentEvidence: nobody, no key and no place twice, and every
\* actor proved possession of its key.
verifyEnrollmentEvidence(enrollments) ==
  /\ \A e \in enrollments : verifyEnrollmentBinding(e)
  /\ \A e, f \in enrollments : e # f =>
       /\ e.who.id # f.who.id
       /\ e.who.key # f.who.key
       /\ <<e.role, e.index>> # <<f.role, f.index>>
  /\ \A actor \in Actors : \E e \in enrollments : e.who = actor

Enrolled(who, role, enrollments) == \E e \in enrollments : e.who = who /\ e.role = role

-----------------------------------------------------------------------------
(* Custody of one accepted head.  record is the head's chain record with   *)
(* the times its attestation and erasure state; evidence its custody.      *)

\* TransferHandoff.Validate and its binding
ValidHandoff(h) ==
  /\ h.expires > h.created
  /\ h.from # h.to
  /\ IsParty(h.from) /\ IsParty(h.to)

\* TransferReceipt.Validate: the recipient signs.
ValidReceipt(r) == r.by = r.handoff.to

\* VerifyTransferReceipt: of these exact handoff bytes, while they were valid.
VerifyTransferReceipt(h, r) ==
  /\ ValidHandoff(h) /\ ValidReceipt(r)
  /\ r.handoff = h
  /\ r.at > h.created /\ r.at <= h.expires

\* ValidateErasureForContribution
ValidateErasure(record) == record.destroyed > record.contributed

\* ValidateAttestationAcceptance, on the chain up to the record
ValidateAttestationAcceptance(chain, i) ==
  /\ chain[i].pred = (IF i = 1 THEN "genesis" ELSE chain[i - 1].id)
  /\ ValidateErasure(chain[i])
  /\ chain[i].contributed > (IF i = 1 THEN Definition.created ELSE chain[i - 1].accepted)
  /\ chain[i].accepted > chain[i].destroyed

\* The signed chain prefix that ends with this head; the attestation and the
\* erasure of its participant.
ValidPrefix(phase, evidence, chain, i) ==
  /\ evidence.head = chain[i].id /\ evidence.pred = chain[i].pred
  /\ evidence.prefix = SubSeq(chain, 1, i)
  /\ chain[i].participant = Definition.participants[phase][i]
  /\ ValidateAttestationAcceptance(chain, i)

\* Both handoffs of a head and their receipts: the input goes out to the
\* participant, the output and its attestations come back.
ValidCustody(phase, evidence, record, i) ==
  LET participant == record.participant
      Bound(h, from, to, files) ==
        h.phase = phase /\ h.index = i /\ h.pred = record.pred /\
        h.from = from /\ h.to = to /\ h.files = files
  IN /\ Bound(evidence.out, Definition.coordinator, participant, {record.pred})
     /\ VerifyTransferReceipt(evidence.out, evidence.outReceipt)
     /\ Bound(evidence.return, participant, Definition.coordinator, {record.id})
     /\ VerifyTransferReceipt(evidence.return, evidence.returnReceipt)

\* Mutant of ValidOrder: the secret may outlive the return of the output.
ValidOrderSecretKept(evidence, chain, i) ==
  /\ evidence.out.created > (IF i = 1 THEN Definition.created ELSE chain[i - 1].accepted)
  /\ evidence.outReceipt.at > evidence.out.created
  /\ chain[i].contributed > evidence.outReceipt.at
  /\ evidence.return.created > chain[i].contributed
  /\ evidence.returnReceipt.at > evidence.return.created
  /\ chain[i].accepted > evidence.returnReceipt.at

\* Mutant of ValidOrder: the first handoff of a phase is compared with the
\* acceptance of a head that does not exist yet.
ValidOrderOffByOne(evidence, chain, i) ==
  /\ evidence.out.created > chain[i].accepted
  /\ evidence.return.created > chain[i].destroyed

\* The order of custody, contribution, erasure and acceptance.
ValidOrder(evidence, chain, i) ==
  /\ evidence.out.created > (IF i = 1 THEN Definition.created ELSE chain[i - 1].accepted)
  /\ evidence.outReceipt.at > evidence.out.created
  /\ chain[i].contributed > evidence.outReceipt.at
  /\ evidence.return.created > chain[i].contributed
  /\ evidence.return.created > chain[i].destroyed
  /\ evidence.returnReceipt.at > evidence.return.created
  /\ chain[i].accepted > evidence.returnReceipt.at

\* ImmutableMirrorReceipt.Validate and the mirrors of a head: two to eight
\* enrolled operators, nobody and no key twice, after the acceptance.
ValidMirrors(phase, evidence, record, i, enrollments) ==
  /\ Len(evidence.mirrors) \in 2 .. 8
  /\ \A n \in DOMAIN evidence.mirrors :
       LET mirror == evidence.mirrors[n]
       IN /\ mirror.phase = phase /\ mirror.index = i /\ mirror.head = record.id
          /\ mirror.files = {record.id, "verification", "prefix"}
          /\ mirror.at > record.accepted
          /\ Enrolled(mirror.by, "mirror", enrollments)
  /\ \A n, m \in DOMAIN evidence.mirrors : n # m =>
       /\ evidence.mirrors[n].by.id # evidence.mirrors[m].by.id
       /\ evidence.mirrors[n].by.key # evidence.mirrors[m].by.key

\* verifyAcceptedHeadEvidence
verifyAcceptedHeadEvidence(phase, heads, chain, enrollments) ==
  \A i \in DOMAIN heads :
    /\ ValidPrefix(phase, heads[i], chain, i)
    /\ ValidCustody(phase, heads[i], chain[i], i)
    /\ ValidOrder(heads[i], chain, i)
    /\ ValidMirrors(phase, heads[i], chain[i], i, enrollments)

-----------------------------------------------------------------------------
(* Closure, witnesses and beacon of a phase. *)

\* QuicknetRoundTime
RoundTime(round) == Definition.genesisTime + (round - 1) * Definition.period

\* ValidateClose: all scheduled participants, in order, then the closure
\* early enough for the round.
ValidateClose(phase, chain, close) ==
  /\ close.phase = phase
  /\ Len(chain) = Len(Definition.participants[phase])
  /\ \A i \in DOMAIN chain : chain[i].participant = Definition.participants[phase][i]
  /\ close.head = Last(chain).id
  /\ close.at > Definition.created
  /\ close.at > Last(chain).accepted
  /\ RoundTime(close.round) > close.at
  /\ RoundTime(close.round) - close.at >= Definition.witnessLead

\* ValidatePublicWitnessReceipt
ValidatePublicWitnessReceipt(close, receipt) ==
  /\ ~identityOverlapsDefinition(receipt.who)
  /\ receipt.at > close.at /\ receipt.at < RoundTime(close.round)
  /\ RoundTime(close.round) - receipt.at >= Definition.witnessLead
  /\ receipt.close = close

\* VerifyPublicWitnessQuorum
VerifyPublicWitnessQuorum(close, receipts, minimum) ==
  /\ minimum >= 2 /\ Len(receipts) >= minimum
  /\ \A n \in DOMAIN receipts : ValidatePublicWitnessReceipt(close, receipts[n])
  /\ \A n, m \in DOMAIN receipts : n # m =>
       /\ receipts[n].who.id # receipts[m].who.id
       /\ receipts[n].who.key # receipts[m].who.key

\* MultiRelayBeaconEvidence.Validate: three to sixteen observations by
\* different operators that agree, recorded after the last of them.
ValidBeaconEvidence(beacon) ==
  LET observed == ToSet(beacon.observations)
  IN /\ Len(beacon.observations) \in 3 .. 16
     /\ \A n, m \in DOMAIN beacon.observations : n # m =>
          beacon.observations[n].operator # beacon.observations[m].operator
     /\ \A o, q \in observed : o.randomness = q.randomness
     /\ \A o \in observed : beacon.recorded >= o.at

\* ValidateMultiRelayBeaconEvidence: of this closure; every response verifies
\* for the committed round and none was retrieved before it.  The randomness
\* of a round is written as the round.
ValidateMultiRelayBeaconEvidence(close, beacon) ==
  /\ ValidBeaconEvidence(beacon)
  /\ beacon.close = close
  /\ \A o \in ToSet(beacon.observations) :
       o.randomness = close.round /\ o.at >= RoundTime(close.round)

\* verifyPhaseOperationalEvidence
verifyPhaseOperationalEvidence(phase, evidence, enrollments) ==
  /\ ValidateClose(phase, evidence.chain, evidence.close)
  /\ Len(evidence.heads) = Len(evidence.chain)
  /\ verifyAcceptedHeadEvidence(phase, evidence.heads, evidence.chain, enrollments)
  /\ \A n \in DOMAIN evidence.witnesses :
       Enrolled(evidence.witnesses[n].who, "witness", enrollments)
  /\ VerifyPublicWitnessQuorum(evidence.close, evidence.witnesses, evidence.quorum)
  /\ ValidateMultiRelayBeaconEvidence(evidence.close, evidence.beacon)

-----------------------------------------------------------------------------
(* The bundle. *)

\* verifyGovernanceEvidence: signed by somebody of the ceremony.  What the
\* record says, a restart included, is not looked at.
verifyGovernanceEvidence(records) == \A r \in records : IsParty(r.by)

HeadTimes(head) ==
  {head.out.created, head.outReceipt.at, head.return.created, head.returnReceipt.at}
  \cup {mirror.at : mirror \in ToSet(head.mirrors)}

\* latestOperationalTimestamp, of one phase: acceptances, closure, custody,
\* mirrors, witnesses and beacon.
PhaseTimes(evidence) ==
  {evidence.close.at, evidence.beacon.recorded}
  \cup UNION {HeadTimes(head) : head \in ToSet(evidence.heads)}
  \cup {record.accepted : record \in ToSet(evidence.chain)}
  \cup {w.at : w \in ToSet(evidence.witnesses)}
  \cup {o.at : o \in ToSet(evidence.beacon.observations)}

\* latestOperationalTimestamp: the timestamps it is the latest of.
operationalTimestamps(b) ==
  {e.at : e \in b.enrollments} \cup {r.at : r \in b.governance}
  \cup UNION {PhaseTimes(b.phase[p]) : p \in Phases}

\* VerifyOperationalEvidenceBundle
VerifyOperationalEvidenceBundle(b) ==
  /\ b.by = Definition.coordinator
  /\ verifyEnrollmentEvidence(b.enrollments)
  /\ verifyGovernanceEvidence(b.governance)
  /\ b.phase["phase1"].close.round # b.phase["phase2"].close.round
  /\ \A p \in Phases : verifyPhaseOperationalEvidence(p, b.phase[p], b.enrollments)
  /\ \A t \in operationalTimestamps(b) : b.assembled > t

\* verifyReleaseOperationalEvidence: of the candidate's own closures and
\* chains, and assembled before the release.
verifyReleaseOperationalEvidence(b, candidate, released) ==
  /\ VerifyOperationalEvidenceBundle(b)
  /\ \A p \in Phases :
       /\ b.phase[p].close = candidate.phase[p].close
       /\ b.phase[p].chain = candidate.phase[p].chain
  /\ released > b.assembled
=============================================================================
