--------------------------- MODULE TwoPhaseSetup ---------------------------
(***************************************************************************)
(* The life of one ceremony: phase 1 contributions, their closure on a     *)
(* future beacon round, the beacon, the phase 1 seal, phase 2 on the       *)
(* sealed commons, its closure and beacon, and the finalized keys.  Every  *)
(* record is published once (FilePublication, EvidenceDirectory,           *)
(* PhaseClosure) and the accepted chains do not fork (ContributionChain),  *)
(* so here each command is one step over immutable records.                *)
(*                                                                         *)
(* The commands find their inputs through paths an operator names: an old  *)
(* chain file, one of several seal directories.  Timestamps are what       *)
(* operators claim; only a closure reads a clock, and the coordinator's    *)
(* may be wrong by an offset.  A mistaken coordinator may sign a seal and  *)
(* a phase 2 genesis that do not follow from phase 1.                      *)
(*                                                                         *)
(* Hashes are the values hashed: a record ID carries the record, commons   *)
(* and keys carry the chain and the closure they are computed from.        *)
(***************************************************************************)
EXTENDS Integers, Sequences, SequencesExt, FiniteSets

CONSTANTS
  Scheduled,    \* Scheduled[p]: participants of phase p in the definition
  Minimum,      \* Minimum[p]: contributions a rehearsal needs
  Modes,        \* modes a definition may be signed with
  Rounds,       \* beacon rounds
  Period,       \* time between two rounds
  MinLead,      \* minimum_witness_lead_seconds
  Offsets,      \* errors of the coordinator's clock at a closure
  Stamps,       \* timestamps operators may claim
  MaxTime,      \* bound on the clock
  Witnesses,    \* enrolled public witnesses
  Quorum,       \* public_witness_quorum
  Dirs,         \* output directories for phase 1 seals
  Wrong,        \* commons that do not follow from phase 1
  None          \* no record

Phases == {1, 2}

ASSUME PolicyAssumption ==
  /\ Scheduled \in [Phases -> Nat \ {0}]
  /\ Minimum \in [Phases -> Nat \ {0}]
  /\ \A p \in Phases : Minimum[p] <= Scheduled[p]
  /\ Modes \subseteq {"production", "rehearsal"}
ASSUME TimeAssumption ==
  /\ Rounds \cup Stamps \subseteq Nat \ {0}
  /\ Offsets \subseteq Int
  /\ {Period, MinLead} \subseteq Nat \ {0}
  /\ MaxTime \in Nat
ASSUME QuorumAssumption == Quorum \in Nat /\ Quorum >= 2

VARIABLES
  mode,         \* the mode of the signed definition; it never changes
  now,          \* the true time
  chain,        \* chain[p]: accepted records; chain-kkkk.json is a prefix
  close,        \* close[p]: the closure record of phase p
  committedAt,  \* committedAt[p]: true time the closure appeared (history)
  receipts,     \* receipts[p][w]: when witness w saw the closure of p
  beacon,       \* beacon[p]: the beacon record of phase p
  seals,        \* seals[d]: the phase 1 seal in directory d
  genesis,      \* seals a phase 2 genesis has been published for
  candidates    \* what finalize has published

vars == <<mode, now, chain, close, committedAt, receipts, beacon, seals, genesis, candidates>>

-----------------------------------------------------------------------------
RoundTime(r) == Period * r

\* chain-kkkk.json of phase p.
ChainFile(p, k) == SubSeq(chain[p], 1, k)

\* NewCloseRecord: the record binds the chain it closes.
CloseRecord(p, c, r, t) == [phase |-> p, chain |-> c, round |-> r, closedAt |-> t]

\* Mutant of ValidateClose: the chain and the record are not compared.
ValidateCloseUnbound(p, c, record) ==
  /\ record.phase = p
  /\ c # <<>>
  /\ IF mode = "production" THEN Len(c) = Scheduled[p] ELSE Len(c) >= Minimum[p]
  /\ record.closedAt > Last(c).acceptedAt
  /\ RoundTime(record.round) - record.closedAt >= MinLead

\* Mutant of ValidateClose: the rehearsal's minimum is used in production.
ValidateCloseMinimum(p, c, record) ==
  /\ record.phase = p
  /\ record.chain = c
  /\ c # <<>>
  /\ Len(c) >= Minimum[p]
  /\ record.closedAt > Last(c).acceptedAt
  /\ RoundTime(record.round) - record.closedAt >= MinLead

\* ValidateClose
ValidateClose(p, c, record) ==
  /\ record.phase = p
  /\ record.chain = c
  /\ c # <<>>
  /\ IF mode = "production" THEN Len(c) = Scheduled[p] ELSE Len(c) >= Minimum[p]
  /\ record.closedAt > Last(c).acceptedAt
  /\ RoundTime(record.round) - record.closedAt >= MinLead

\* ValidateBeacon and VerifyBeaconRecordFiles
ValidateBeacon(cl, b) == b.close = cl /\ b.publishedAt >= RoundTime(cl.round)

\* ValidateSeal
ValidateSeal(cl, b, s) == s.close = cl /\ s.beacon = b /\ s.sealedAt >= b.publishedAt

\* sealReplayedPhase1Head and SealPhase2Loaded: the challenge comes from the
\* closure ID and the round's randomness.
Commons(c, b) == [head |-> c, challenge |-> b.close]
Keys(commons, c, b) == [commons |-> commons, head |-> c, challenge |-> b.close]

\* loadAuthenticatedPhase1CommonsForCoordinator: authenticated, not replayed.
AuthenticatedCommons(s) ==
  /\ s # None /\ close[1] # None /\ beacon[1] # None
  /\ ValidateBeacon(close[1], beacon[1])
  /\ ValidateSeal(close[1], beacon[1], s)

\* Mutant of DerivedCommons: the coordinator's signature is taken for enough.
TrustedCommons(s) == AuthenticatedCommons(s)

\* loadPhase1CommonsForPhase2: phase 1 is replayed and the commons derived.
DerivedCommons(s) ==
  /\ AuthenticatedCommons(s)
  /\ LET c == ChainFile(1, Len(close[1].chain)) IN
       /\ ValidateClose(1, c, close[1])
       /\ s.commons = Commons(c, beacon[1])

\* loadVerifiedPhase2Files: chain-kkkk.json of phase 2 binds the seal s.
LoadsPhase2(s, k) ==
  /\ s \in genesis
  /\ k <= Len(chain[2])
  /\ k > 0 => chain[2][1].base = s

Init ==
  /\ mode \in Modes
  /\ now = 0
  /\ chain = [p \in Phases |-> <<>>]
  /\ close = [p \in Phases |-> None]
  /\ committedAt = [p \in Phases |-> None]
  /\ receipts = [p \in Phases |-> [w \in Witnesses |-> None]]
  /\ beacon = [p \in Phases |-> None]
  /\ seals = [d \in Dirs |-> None]
  /\ genesis = {}
  /\ candidates = {}

-----------------------------------------------------------------------------
\* A contribution in its turn (ContributionChain has the others, with which a
\* phase ends) and its acceptance at claimed time t.  Nothing stops an
\* acceptance in a phase that is closed already.
Accept(p, base, t) ==
  /\ Len(chain[p]) < Scheduled[p]
  /\ chain[p] # <<>> => t > Last(chain[p]).acceptedAt
  /\ chain' = [chain EXCEPT ![p] = Append(@, [base |-> base, acceptedAt |-> t])]
  /\ UNCHANGED <<now, close, committedAt, receipts, beacon, seals, genesis, candidates>>

AcceptPhase1(t) == Accept(1, None, t)

\* The participant replays phase 1 before contributing, the coordinator
\* checks signatures before accepting.
AcceptPhase2(s, t) ==
  /\ DerivedCommons(s)
  /\ AuthenticatedCommons(s)
  /\ LoadsPhase2(s, Len(chain[2]))
  /\ Accept(2, s, t)

\* closePhaseFilesAuthenticated on chain-kkkk.json, up to the publication
\* that PhaseClosure details.  A second closure finds the first one.
ClosePhase(p, k, r, offset) ==
  LET c == ChainFile(p, k)
      record == CloseRecord(p, c, r, now + offset)
  IN
  /\ close[p] = None
  /\ k <= Len(chain[p])
  /\ ValidateClose(p, c, record)
  /\ close' = [close EXCEPT ![p] = record]
  /\ committedAt' = [committedAt EXCEPT ![p] = now]
  /\ UNCHANGED <<now, chain, receipts, beacon, seals, genesis, candidates>>

\* Mutant of ClosePhase2: the phase 1 round may be used again.
ClosePhase2AnyRound(s, k, r, offset) ==
  /\ DerivedCommons(s)
  /\ LoadsPhase2(s, k)
  /\ ClosePhase(2, k, r, offset)

ClosePhase1(k, r, offset) == ClosePhase(1, k, r, offset)

ClosePhase2(s, k, r, offset) ==
  /\ DerivedCommons(s)
  /\ r # close[1].round
  /\ LoadsPhase2(s, k)
  /\ ClosePhase(2, k, r, offset)

\* PublicWitnessReceipt.Validate: a witness, whose clock is right, signs only
\* before the round.
Witness(w, p) ==
  /\ close[p] # None
  /\ receipts[p][w] = None
  /\ now < RoundTime(close[p].round)
  /\ receipts' = [receipts EXCEPT ![p][w] = now]
  /\ UNCHANGED <<now, chain, close, committedAt, beacon, seals, genesis, candidates>>

\* RecordBeaconFiles: only the randomness of a past round verifies.
RecordBeacon(p, t) ==
  LET record == [close |-> close[p], publishedAt |-> t] IN
  /\ close[p] # None
  /\ beacon[p] = None
  /\ now >= RoundTime(close[p].round)
  /\ ValidateBeacon(close[p], record)
  /\ beacon' = [beacon EXCEPT ![p] = record]
  /\ UNCHANGED <<now, chain, close, committedAt, receipts, seals, genesis, candidates>>

\* SealPhase1Files, into a directory of its own.
SealPhase1(d) ==
  LET c == ChainFile(1, Len(close[1].chain))
      seal == [dir |-> d, close |-> close[1], beacon |-> beacon[1],
               commons |-> Commons(c, beacon[1]), sealedAt |-> beacon[1].publishedAt]
  IN
  /\ close[1] # None /\ beacon[1] # None
  /\ seals[d] = None
  /\ ValidateClose(1, c, close[1])
  /\ ValidateBeacon(close[1], beacon[1])
  /\ ValidateSeal(close[1], beacon[1], seal)
  /\ seals' = [seals EXCEPT ![d] = seal]
  /\ UNCHANGED <<now, chain, close, committedAt, receipts, beacon, genesis, candidates>>

\* InitializePhase2Files
InitPhase2(d) ==
  /\ DerivedCommons(seals[d])
  /\ genesis' = genesis \cup {seals[d]}
  /\ UNCHANGED <<now, chain, close, committedAt, receipts, beacon, seals, candidates>>

\* A mistaken coordinator signs commons of another origin and their genesis.
SignWrongSeal(d) ==
  LET seal == [dir |-> d, close |-> close[1], beacon |-> beacon[1],
               commons |-> Wrong, sealedAt |-> beacon[1].publishedAt]
  IN
  /\ close[1] # None /\ beacon[1] # None
  /\ seals[d] = None
  /\ seals' = [seals EXCEPT ![d] = seal]
  /\ genesis' = genesis \cup {seal}
  /\ UNCHANGED <<now, chain, close, committedAt, receipts, beacon, candidates>>

\* loadReplay and validateReplayRecords on the named seal and chain files.
ValidateReplayRecords(s, k1, k2) ==
  /\ s # None /\ close[1] # None /\ beacon[1] # None /\ close[2] # None /\ beacon[2] # None
  /\ k1 <= Len(chain[1]) /\ k2 <= Len(chain[2])
  /\ ValidateClose(1, ChainFile(1, k1), close[1])
  /\ ValidateBeacon(close[1], beacon[1])
  /\ ValidateSeal(close[1], beacon[1], s)
  /\ chain[2][1].base = s
  /\ ValidateClose(2, ChainFile(2, k2), close[2])
  /\ ValidateBeacon(close[2], beacon[2])
  /\ close[1].round # close[2].round

\* replayAll: the keys, when the signed commons are the derived ones.
ReplayAll(s, k1, k2) ==
  /\ ValidateReplayRecords(s, k1, k2)
  /\ s.commons = Commons(ChainFile(1, k1), beacon[1])

\* Finalize at claimed time t; the phase 2 seal is dated t.
Finalize(d, k1, k2, t) ==
  /\ ReplayAll(seals[d], k1, k2)
  /\ t >= beacon[2].publishedAt
  /\ candidates' = candidates \cup
       {[seal |-> seals[d], closes |-> close, finalizedAt |-> t,
         keys |-> Keys(Commons(ChainFile(1, k1), beacon[1]), ChainFile(2, k2), beacon[2])]}
  /\ UNCHANGED <<now, chain, close, committedAt, receipts, beacon, seals, genesis>>

Tick ==
  /\ now < MaxTime
  /\ now' = now + 1
  /\ UNCHANGED <<chain, close, committedAt, receipts, beacon, seals, genesis, candidates>>

-----------------------------------------------------------------------------
\* Mutant of ValidatePublicWitnessReceipt: the receipt must follow the closure only.
ReceiptAfterClosure(p, t) == t # None /\ t > close[p].closedAt

\* ValidatePublicWitnessReceipt
ValidatePublicWitnessReceipt(p, t) ==
  /\ t # None
  /\ t > close[p].closedAt
  /\ RoundTime(close[p].round) - t >= MinLead

\* VerifyOperationalEvidenceBundle, which a release of a candidate needs: a
\* quorum of witnesses saw both closures of the candidate in time.
VerifyOperationalEvidence(candidate) ==
  /\ candidate.closes = close
  /\ close[1].round # close[2].round
  /\ \A p \in Phases :
       \E W \in SUBSET Witnesses :
         /\ Cardinality(W) >= Quorum
         /\ \A w \in W : ValidatePublicWitnessReceipt(p, receipts[p][w])

Next ==
  /\ UNCHANGED mode
  /\ \/ Tick
     \/ \E t \in Stamps : AcceptPhase1(t)
     \/ \E d \in Dirs, t \in Stamps : AcceptPhase2(seals[d], t)
     \/ \E k \in 1..Scheduled[1], r \in Rounds, o \in Offsets : ClosePhase1(k, r, o)
     \/ \E d \in Dirs, k \in 1..Scheduled[2], r \in Rounds, o \in Offsets :
          ClosePhase2(seals[d], k, r, o)
     \/ \E w \in Witnesses, p \in Phases : Witness(w, p)
     \/ \E p \in Phases, t \in Stamps : RecordBeacon(p, t)
     \/ \E d \in Dirs : SealPhase1(d) \/ InitPhase2(d) \/ SignWrongSeal(d)
     \/ \E d \in Dirs, k1 \in 1..Scheduled[1], k2 \in 1..Scheduled[2], t \in Stamps :
          Finalize(d, k1, k2, t)

Spec == Init /\ [][Next]_vars

-----------------------------------------------------------------------------
\* The records of a ceremony, phase by phase: a phase 2 record names the seal
\* it was made on, and a seal carries phase 1.
RecordsOn(Bases) == [base : Bases, acceptedAt : Stamps]
Closures(R) == [phase : Phases, chain : Seq(R), round : Rounds, closedAt : Int]
Beacons(R) == [close : Closures(R), publishedAt : Stamps]
Records1 == RecordsOn({None})
Seals ==
  [dir : Dirs, close : Closures(Records1), beacon : Beacons(Records1), sealedAt : Stamps,
   commons : [head : Seq(Records1), challenge : Closures(Records1)] \cup {Wrong}]
Records == [p \in Phases |-> IF p = 1 THEN Records1 ELSE RecordsOn(Seals)]

PerPhase(f) == f = [p \in Phases |-> f[p]]

\* Types: no phase has more records than scheduled participants, and the
\* records hold what the commands may write.
TypeOK ==
  /\ mode \in Modes
  /\ now \in 0..MaxTime
  /\ PerPhase(chain) /\ PerPhase(close) /\ PerPhase(committedAt)
  /\ PerPhase(receipts) /\ PerPhase(beacon)
  /\ \A p \in Phases :
       /\ chain[p] \in Seq(Records[p])
       /\ Len(chain[p]) <= Scheduled[p]
       /\ close[p] \in Closures(Records[p]) \cup {None}
       /\ committedAt[p] \in 0..MaxTime \cup {None}
       /\ receipts[p] \in [Witnesses -> 0..MaxTime \cup {None}]
       /\ beacon[p] \in Beacons(Records[p]) \cup {None}
  /\ seals \in [Dirs -> Seals \cup {None}]
  /\ genesis \subseteq Seals

\* Nobody contributes to phase 2 on commons that do not follow from the closed
\* phase 1, whatever the coordinator signed: "This prevents a malicious or
\* mistaken coordinator from inducing Phase 2 participants to contribute
\* against an invalid Phase 1 state" (loadPhase1CommonsForPhase2).
Phase2OnDerivedCommons ==
  \A i \in DOMAIN chain[2] :
    chain[2][i].base.commons = Commons(close[1].chain, beacon[1])

\* Finalized keys are those of the two closed chains: acceptances after a
\* closure, old chain files and other seal directories change nothing, so
\* repeated finalizations agree on the keys.
KeysOfClosedChains ==
  \A c \in candidates :
    c.keys = Keys(Commons(close[1].chain, beacon[1]), close[2].chain, beacon[2])

\* No sequence of commands that succeeded ends in a transcript finalize must
\* reject: once the phase 2 beacon is recorded some seal replays.
Finalizable ==
  beacon[2] # None =>
    \E d \in Dirs : ReplayAll(seals[d], Len(close[1].chain), Len(close[2].chain))

\* A release accepts a candidate only when both of its closures were public
\* MinLead before their randomness, even if the coordinator's clock was wrong
\* when it closed the phases.
ReleasedClosuresWerePublic ==
  \A c \in candidates :
    VerifyOperationalEvidence(c) =>
      \A p \in Phases : RoundTime(close[p].round) - committedAt[p] >= MinLead

\* In production every scheduled participant of both phases is in the keys,
\* so one honest participant per phase is enough.
EveryoneContributed ==
  mode = "production" =>
    \A c \in candidates :
      Len(c.keys.commons.head) = Scheduled[1] /\ Len(c.keys.head) = Scheduled[2]

-----------------------------------------------------------------------------
\* A closure is a valid closure of a file of its chain, whatever has been
\* accepted since, and a second closure is on another round.
ClosureBindsChain ==
  /\ \A p \in Phases :
       close[p] # None =>
         /\ Len(close[p].chain) <= Len(chain[p])
         /\ close[p].chain = ChainFile(p, Len(close[p].chain))
         /\ ValidateClose(p, close[p].chain, close[p])
         /\ committedAt[p] \in 0..now
  /\ close[2] # None => close[2].round # close[1].round

\* Beacons and seals are of the closures that stand; nothing that rests on a
\* closure exists before it.
BeaconsOfClosures ==
  \A p \in Phases : beacon[p] # None => close[p] # None /\ ValidateBeacon(close[p], beacon[p])
SealsOfClosure ==
  \A d \in Dirs :
    seals[d] # None =>
      /\ close[1] # None /\ beacon[1] # None
      /\ ValidateSeal(close[1], beacon[1], seals[d])

\* Phase 2 is made on seals that stand and whose commons were derived.
Phase2OnSeals ==
  \A i \in DOMAIN chain[2] :
    \E d \in Dirs :
      /\ seals[d] # None
      /\ chain[2][i].base = seals[d]
      /\ seals[d].commons = Commons(close[1].chain, beacon[1])

\* A witness saw a closure that was there.
ReceiptsFollowClosures ==
  \A p \in Phases, w \in Witnesses :
    receipts[p][w] # None => close[p] # None /\ committedAt[p] <= receipts[p][w]

\* Candidates exist only of a complete transcript and hold its keys.
CandidatesOfTranscript ==
  candidates # {} => \A p \in Phases : close[p] # None /\ beacon[p] # None

\* The inductive invariant behind the properties above.
SetupInv ==
  /\ TypeOK
  /\ ClosureBindsChain
  /\ BeaconsOfClosures
  /\ SealsOfClosure
  /\ Phase2OnSeals
  /\ ReceiptsFollowClosures
  /\ CandidatesOfTranscript
  /\ KeysOfClosedChains
=============================================================================
