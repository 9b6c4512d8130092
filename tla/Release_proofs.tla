--------------------------- MODULE Release_proofs ----------------------------
(***************************************************************************)
(* From the first contribution to the signed release: proofs about         *)
(* TwoPhaseSetup, for any schedule, any rounds, any error of the           *)
(* coordinator's clock, any claimed timestamps, any number of seal         *)
(* directories and witnesses, and a coordinator who may sign wrong seals,  *)
(* and about ReleaseAudit, for any number of auditors, candidates,         *)
(* reports, signers and release directories.  Candidates, reports and the  *)
(* evidence bundle may be discarded and made again between any two steps   *)
(* of a signer.                                                            *)
(***************************************************************************)
EXTENDS TwoPhaseSetup, ReleaseAudit, SequenceTheorems, FiniteSetTheorems, TLAPS

-----------------------------------------------------------------------------
\* chain-kkkk.json has k records, and is not changed by later acceptances.
LEMMA PrefixOf ==
  ASSUME NEW S, NEW s \in Seq(S), NEW k \in 0..Len(s)
  PROVE  /\ SubSeq(s, 1, k) \in Seq(S)
         /\ Len(SubSeq(s, 1, k)) = k
         /\ \A e : SubSeq(Append(s, e), 1, k) = SubSeq(s, 1, k)
<1>1. \A i \in 1..k : s[i] \in S
  BY ElementOfSeq
<1>2. /\ SubSeq(s, 1, k) \in Seq(S)
      /\ Len(SubSeq(s, 1, k)) = IF 1 <= k THEN k - 1 + 1 ELSE 0
      /\ \A i \in 1..k : SubSeq(s, 1, k)[i] = s[i]
  BY <1>1, SubSeqProperties
<1>3. ASSUME NEW e
      PROVE  SubSeq(Append(s, e), 1, k) = SubSeq(s, 1, k)
  <2>1. \A i \in 1..k : Append(s, e)[i] = s[i]
    OBVIOUS
  <2> QED
    BY <2>1
<1> QED
  BY <1>2, <1>3

\* An acceptance adds one record.
LEMMA AppendTo ==
  ASSUME NEW S, NEW s \in Seq(S), NEW e \in S
  PROVE  /\ Append(s, e) \in Seq(S)
         /\ Len(s) \in Nat
         /\ Len(Append(s, e)) = Len(s) + 1
  BY AppendProperties, LenProperties

\* A round has a time.
LEMMA RoundTimeType == \A r \in Rounds : RoundTime(r) \in Nat
  BY TimeAssumption DEF RoundTime

\* What the records of each phase are made on.
LEMMA RecordTypes ==
  /\ Records[1] = RecordsOn({None}) /\ Records[2] = RecordsOn(Seals)
  /\ Phases = {1, 2}
  BY DEF Records, Records1, Phases

\* The chain file that is as long as the closed chain is the closed chain.
LEMMA ClosedChainFile ==
  ASSUME SetupInv, NEW p \in Phases, close[p] # None
  PROVE  ChainFile(p, Len(close[p].chain)) = close[p].chain
  BY DEF SetupInv, ClosureBindsChain

-----------------------------------------------------------------------------
\* An empty ceremony satisfies SetupInv.
LEMMA InitSetupInv == Init => SetupInv
<1> SUFFICES ASSUME Init PROVE SetupInv
  OBVIOUS
<1>1. TypeOK
  BY PolicyAssumption, TimeAssumption, RecordTypes DEF Init, TypeOK, PerPhase
<1>2. chain[2] = <<>> /\ DOMAIN chain[2] = {}
  BY DEF Init, Phases
<1> QED
  BY <1>1, <1>2
  DEF Init, SetupInv, ClosureBindsChain, BeaconsOfClosures, SealsOfClosure, Phase2OnSeals,
      ReceiptsFollowClosures, CandidatesOfTranscript, KeysOfClosedChains, Phases

\* Time passes.
LEMMA TickKeeps == SetupInv /\ Tick /\ UNCHANGED mode => SetupInv'
<1> SUFFICES ASSUME SetupInv, Tick, UNCHANGED mode PROVE SetupInv'
  OBVIOUS
<1>1. TypeOK'
  BY TimeAssumption DEF SetupInv, Tick, TypeOK, PerPhase
<1>2. ClosureBindsChain'
  BY TimeAssumption DEF SetupInv, Tick, TypeOK, ClosureBindsChain, ChainFile, ValidateClose
<1> QED
  BY <1>1, <1>2 DEF SetupInv, Tick, BeaconsOfClosures, ValidateBeacon, SealsOfClosure,
     ValidateSeal, Phase2OnSeals, Commons, ReceiptsFollowClosures, CandidatesOfTranscript,
     KeysOfClosedChains, Keys

\* An acceptance in any phase, on a base that the phase allows, lengthens the
\* chain and leaves the closed prefix as it is.
LEMMA AcceptKeeps ==
  ASSUME SetupInv, UNCHANGED mode, NEW p \in Phases, NEW base, NEW t \in Stamps, Accept(p, base, t),
         [base |-> base, acceptedAt |-> t] \in Records[p],
         p = 2 => \E d \in Dirs : /\ seals[d] # None /\ base = seals[d]
                                  /\ base.commons = Commons(close[1].chain, beacon[1])
  PROVE  SetupInv'
<1> DEFINE e == [base |-> base, acceptedAt |-> t]
<1>1. /\ chain' = [chain EXCEPT ![p] = Append(chain[p], e)]
      /\ UNCHANGED <<now, close, committedAt, receipts, beacon, seals, genesis, candidates>>
      /\ Len(chain[p]) < Scheduled[p]
  BY DEF Accept
<1>2. \A q \in Phases :
        /\ chain[q] \in Seq(Records[q])
        /\ chain'[q] = IF q = p THEN Append(chain[q], e) ELSE chain[q]
  BY <1>1 DEF SetupInv, TypeOK, PerPhase
<1> HIDE DEF e
<1> /\ chain[p] \in Seq(Records[p]) /\ e \in Records[p]
    /\ \A q \in Phases : Len(chain[q]) \in Nat
  BY <1>2, LenProperties DEF e
<1>3. /\ Append(chain[p], e) \in Seq(Records[p])
      /\ Len(Append(chain[p], e)) = Len(chain[p]) + 1
  BY AppendTo
<1>4. TypeOK'
  <2>1. Scheduled[p] \in Nat /\ e \in Records[p]
    BY PolicyAssumption DEF e
  <2>2. chain'[p] \in Seq(Records[p]) /\ Len(chain'[p]) <= Scheduled[p]
    BY <1>1, <1>2, <1>3, <2>1
  <2> QED
    BY <1>1, <1>2, <2>2 DEF SetupInv, TypeOK, PerPhase
<1>5. \A q \in Phases : \A k \in 0..Len(chain[q]) :
        k <= Len(chain'[q]) /\ ChainFile(q, k)' = ChainFile(q, k)
  <2> SUFFICES ASSUME NEW q \in Phases, NEW k \in 0..Len(chain[q])
               PROVE  k <= Len(chain'[q]) /\ SubSeq(chain'[q], 1, k) = SubSeq(chain[q], 1, k)
    BY DEF ChainFile
  <2>1. CASE q = p
    <3>1. SubSeq(Append(chain[p], e), 1, k) = SubSeq(chain[p], 1, k)
      BY <2>1, PrefixOf
    <3>2. chain'[q] = Append(chain[p], e)
      BY <1>2, <2>1
    <3>3. k <= Len(Append(chain[p], e))
      BY <1>3, <2>1
    <3> QED
      BY <2>1, <3>1, <3>2, <3>3
  <2>2. CASE q # p
    BY <1>2, <2>2, LenProperties
  <2> QED
    BY <2>1, <2>2
<1>6. ClosureBindsChain'
  <2>1. ASSUME NEW q \in Phases, close[q] # None
        PROVE  /\ Len(close[q].chain) \in 0..Len(chain[q])
               /\ ValidateClose(q, close[q].chain, close[q])'
    BY <1>1, <1>2, <2>1 DEF SetupInv, ClosureBindsChain, ValidateClose, TypeOK, Closures
  <2> QED
    BY <1>1, <1>5, <2>1 DEF SetupInv, ClosureBindsChain
<1>7. Phase2OnSeals'
  <2>1. CASE p = 1
    BY <1>1, <1>2, <2>1, SMTT(60) DEF SetupInv, Phase2OnSeals, Phases, Commons
  <2>2. CASE p = 2
    <3>1. PICK d \in Dirs : /\ seals[d] # None /\ base = seals[d]
                            /\ base.commons = Commons(close[1].chain, beacon[1])
      BY <2>2
    <3>2. chain'[2] = Append(chain[2], e) /\ chain[2] \in Seq(Records[2]) /\ e.base = base
      BY <1>2, <2>2 DEF e
    <3>3. \A i \in DOMAIN chain'[2] :
            (i \in DOMAIN chain[2] /\ chain'[2][i] = chain[2][i]) \/ chain'[2][i] = e
      BY <3>2
    <3> QED
      BY <1>1, <3>1, <3>2, <3>3 DEF SetupInv, Phase2OnSeals, Commons
  <2> QED
    BY <2>1, <2>2 DEF Phases
<1> QED
  BY <1>1, <1>4, <1>6, <1>7 DEF SetupInv, BeaconsOfClosures, ValidateBeacon, SealsOfClosure,
     ValidateSeal, Commons, ReceiptsFollowClosures, CandidatesOfTranscript,
     KeysOfClosedChains, Keys

\* Phase 2 does not begin before phase 1 is closed and its beacon recorded.
LEMMA Phase2Follows ==
  ASSUME SetupInv, chain[2] # <<>> \/ close[2] # None
  PROVE  close[1] # None /\ beacon[1] # None /\ 1 \in DOMAIN chain[2]
<1>1. chain[2] \in Seq(Records[2])
  BY DEF SetupInv, TypeOK, Phases
<1>2. chain[2] # <<>>
  <2>1. CASE close[2] # None
    <3>1. close[2].chain # <<>> /\ Len(close[2].chain) <= Len(chain[2])
      BY <2>1 DEF SetupInv, ClosureBindsChain, ValidateClose, Phases
    <3>2. close[2].chain \in Seq(Records[2])
      BY <2>1 DEF SetupInv, TypeOK, Closures, Phases
    <3> QED
      BY <3>1, <3>2, EmptySeq
  <2> QED
    BY <2>1
<1>3. 1 \in DOMAIN chain[2]
  BY <1>1, <1>2
<1> QED
  BY <1>3 DEF SetupInv, Phase2OnSeals, SealsOfClosure

\* A first closure of a phase, on a round the other phase does not use: nothing
\* rests on the closure yet.
LEMMA CloseKeeps ==
  ASSUME SetupInv, UNCHANGED mode, NEW p \in Phases, NEW k \in 1..Scheduled[p], NEW r \in Rounds,
         NEW o \in Offsets, ClosePhase(p, k, r, o), p = 2 => r # close[1].round
  PROVE  SetupInv'
<1> DEFINE c == ChainFile(p, k)
           record == CloseRecord(p, c, r, now + o)
<1>1. /\ close[p] = None
      /\ k <= Len(chain[p])
      /\ ValidateClose(p, c, record)
      /\ close' = [close EXCEPT ![p] = record]
      /\ committedAt' = [committedAt EXCEPT ![p] = now]
      /\ UNCHANGED <<now, chain, receipts, beacon, seals, genesis, candidates>>
  BY DEF ClosePhase
<1>2. chain[p] \in Seq(Records[p]) /\ Len(chain[p]) \in Nat /\ k \in 0..Len(chain[p])
  BY <1>1, LenProperties, PolicyAssumption DEF SetupInv, TypeOK
<1>3. c \in Seq(Records[p]) /\ Len(c) = k
  BY <1>2, PrefixOf DEF ChainFile
<1>4. record.chain = c /\ record.round = r /\ record \in Closures(Records[p])
  BY <1>3, TimeAssumption DEF CloseRecord, Closures, SetupInv, TypeOK
<1>5. \A q \in Phases :
        /\ close'[q] = IF q = p THEN record ELSE close[q]
        /\ committedAt'[q] = IF q = p THEN now ELSE committedAt[q]
  BY <1>1 DEF SetupInv, TypeOK, PerPhase
<1> HIDE DEF record
<1>6. TypeOK'
  BY <1>1, <1>4, <1>5 DEF SetupInv, TypeOK, PerPhase
<1>7. ClosureBindsChain'
  <2>1. ASSUME NEW q \in Phases, close'[q] # None
        PROVE  /\ Len(close'[q].chain) <= Len(chain'[q])
               /\ close'[q].chain = SubSeq(chain'[q], 1, Len(close'[q].chain))
               /\ ValidateClose(q, close[q].chain, close[q])'
               /\ committedAt'[q] \in 0..now'
    <3>1. CASE q = p
      <4>1. close'[q] = record /\ committedAt'[q] = now /\ now \in 0..now
        BY <1>5, <3>1, TimeAssumption DEF SetupInv, TypeOK
      <4>2. ValidateClose(q, close[q].chain, close[q])'
        BY <1>1, <1>4, <3>1, <4>1 DEF ValidateClose
      <4>3. Len(close'[q].chain) = k /\ close'[q].chain = SubSeq(chain'[q], 1, k)
        BY <1>1, <1>3, <1>4, <3>1, <4>1 DEF ChainFile
      <4> QED
        BY <1>1, <3>1, <4>1, <4>2, <4>3
    <3>2. CASE q # p
      <4>1. close'[q] = close[q] /\ committedAt'[q] = committedAt[q]
        BY <1>5, <3>2
      <4>2. ValidateClose(q, close[q].chain, close[q])'
        BY <1>1, <2>1, <4>1 DEF SetupInv, ClosureBindsChain, ValidateClose
      <4> QED
        BY <1>1, <2>1, <4>1, <4>2 DEF SetupInv, ClosureBindsChain, ChainFile
    <3> QED
      BY <3>1, <3>2
  <2>2. close'[2] # None => close'[2].round # close'[1].round
    <3>1. CASE p = 1
      BY <1>1, <1>5, <3>1, Phase2Follows DEF Phases
    <3>2. CASE p = 2
      BY <1>4, <1>5, <3>2 DEF Phases
    <3> QED
      BY <3>1, <3>2 DEF Phases
  <2> QED
    BY <2>1, <2>2 DEF ClosureBindsChain, ChainFile
<1>8. candidates = {} /\ beacon[p] = None /\ \A w \in Witnesses : receipts[p][w] = None
  BY <1>1 DEF SetupInv, CandidatesOfTranscript, BeaconsOfClosures, ReceiptsFollowClosures
<1>9. BeaconsOfClosures' /\ ReceiptsFollowClosures'
  BY <1>1, <1>5, <1>8 DEF SetupInv, BeaconsOfClosures, ReceiptsFollowClosures, ValidateBeacon
<1>10. CandidatesOfTranscript' /\ KeysOfClosedChains'
  BY <1>1, <1>8 DEF CandidatesOfTranscript, KeysOfClosedChains
<1>11. SealsOfClosure' /\ Phase2OnSeals'
  <2>1. CASE p = 1
    <3>1. chain[2] = <<>> /\ \A d \in Dirs : seals[d] = None
      BY <1>1, <2>1, Phase2Follows DEF SetupInv, SealsOfClosure
    <3> QED
      BY <1>1, <3>1 DEF SealsOfClosure, Phase2OnSeals
  <2>2. CASE p = 2
    <3>1. close'[1] = close[1]
      BY <1>5, <2>2 DEF Phases
    <3> QED
      BY <1>1, <3>1 DEF SetupInv, SealsOfClosure, Phase2OnSeals, ValidateSeal, Commons
  <2> QED
    BY <2>1, <2>2 DEF Phases
<1> QED
  BY <1>6, <1>7, <1>9, <1>10, <1>11 DEF SetupInv

\* A witness signs after the closure appeared.
LEMMA WitnessKeeps ==
  ASSUME SetupInv, UNCHANGED mode, NEW p \in Phases, NEW w \in Witnesses, Witness(w, p)
  PROVE  SetupInv'
<1>1. /\ close[p] # None
      /\ receipts' = [receipts EXCEPT ![p][w] = now]
      /\ UNCHANGED <<now, chain, close, committedAt, beacon, seals, genesis, candidates>>
  BY DEF Witness
<1>2. \A q \in Phases, v \in Witnesses :
        receipts'[q][v] = IF q = p /\ v = w THEN now ELSE receipts[q][v]
  BY <1>1 DEF SetupInv, TypeOK, PerPhase
<1>3. TypeOK'
  BY <1>1 DEF SetupInv, TypeOK, PerPhase
<1>4. committedAt[p] <= now
  BY <1>1, TimeAssumption DEF SetupInv, ClosureBindsChain, TypeOK
<1>5. ReceiptsFollowClosures'
  BY <1>1, <1>2, <1>4 DEF SetupInv, ReceiptsFollowClosures
<1> QED
  BY <1>1, <1>3, <1>5 DEF SetupInv, ClosureBindsChain, ChainFile, ValidateClose, BeaconsOfClosures,
     ValidateBeacon, SealsOfClosure, ValidateSeal, Phase2OnSeals, Commons,
     CandidatesOfTranscript, KeysOfClosedChains, Keys

\* The beacon of a closed phase is recorded once; before it nothing is sealed
\* or finalized on it.
LEMMA BeaconKeeps ==
  ASSUME SetupInv, UNCHANGED mode, NEW p \in Phases, NEW t \in Stamps, RecordBeacon(p, t)
  PROVE  SetupInv'
<1> DEFINE record == [close |-> close[p], publishedAt |-> t]
<1>1. /\ close[p] # None
      /\ beacon[p] = None
      /\ ValidateBeacon(close[p], record)
      /\ beacon' = [beacon EXCEPT ![p] = record]
      /\ UNCHANGED <<now, chain, close, committedAt, receipts, seals, genesis, candidates>>
  BY DEF RecordBeacon
<1>2. record \in Beacons(Records[p])
  BY <1>1 DEF SetupInv, TypeOK, Beacons
<1>3. \A q \in Phases : beacon'[q] = IF q = p THEN record ELSE beacon[q]
  BY <1>1 DEF SetupInv, TypeOK, PerPhase
<1> HIDE DEF record
<1>4. TypeOK'
  BY <1>1, <1>2, <1>3 DEF SetupInv, TypeOK, PerPhase
<1>5. BeaconsOfClosures'
  BY <1>1, <1>3 DEF SetupInv, BeaconsOfClosures, ValidateBeacon
<1>6. candidates = {}
  BY <1>1 DEF SetupInv, CandidatesOfTranscript
<1>7. SealsOfClosure' /\ Phase2OnSeals'
  <2>1. CASE p = 1
    <3>1. chain[2] = <<>> /\ \A d \in Dirs : seals[d] = None
      BY <1>1, <2>1, Phase2Follows DEF SetupInv, SealsOfClosure
    <3> QED
      BY <1>1, <3>1 DEF SealsOfClosure, Phase2OnSeals
  <2>2. CASE p = 2
    <3>1. beacon'[1] = beacon[1]
      BY <1>3, <2>2 DEF Phases
    <3> QED
      BY <1>1, <3>1 DEF SetupInv, SealsOfClosure, Phase2OnSeals, ValidateSeal, Commons
  <2> QED
    BY <2>1, <2>2 DEF Phases
<1> QED
  BY <1>1, <1>4, <1>5, <1>6, <1>7 DEF SetupInv, ClosureBindsChain, ChainFile, ValidateClose,
     ReceiptsFollowClosures, CandidatesOfTranscript, KeysOfClosedChains

\* A seal of the standing closure and beacon goes into a free directory, with
\* derived commons or with wrong ones.
LEMMA SealKeeps ==
  ASSUME SetupInv, UNCHANGED mode, NEW d \in Dirs, NEW commons,
         close[1] # None, beacon[1] # None, seals[d] = None,
         commons \in [head : Seq(Records1), challenge : Closures(Records1)] \cup {Wrong},
         seals' = [seals EXCEPT ![d] =
           [dir |-> d, close |-> close[1], beacon |-> beacon[1],
            commons |-> commons, sealedAt |-> beacon[1].publishedAt]],
         genesis' \subseteq genesis \cup {seals'[d]},
         UNCHANGED <<now, chain, close, committedAt, receipts, beacon, candidates>>
  PROVE  SetupInv'
<1> DEFINE seal == [dir |-> d, close |-> close[1], beacon |-> beacon[1],
                    commons |-> commons, sealedAt |-> beacon[1].publishedAt]
<1>1. close[1] \in Closures(Records1) /\ beacon[1] \in Beacons(Records1)
  BY DEF SetupInv, TypeOK, Phases, Records
<1>2. seal \in Seals
  BY <1>1 DEF Seals, Beacons
<1>3. ValidateSeal(close[1], beacon[1], seal)
  BY <1>1, TimeAssumption DEF ValidateSeal, Beacons
<1>4. /\ seals'[d] = seal
      /\ seals' \in [Dirs -> Seals \cup {None}]
      /\ genesis' \subseteq Seals
      /\ \A x \in Dirs : seals'[x] = IF x = d THEN seal ELSE seals[x]
  BY <1>2 DEF SetupInv, TypeOK
<1> HIDE DEF seal
<1>5. TypeOK'
  BY <1>4 DEF SetupInv, TypeOK, PerPhase
<1>6. SealsOfClosure'
  BY <1>3, <1>4 DEF SetupInv, SealsOfClosure, ValidateSeal
<1>7. Phase2OnSeals'
  BY <1>4 DEF SetupInv, Phase2OnSeals, Commons
<1> QED
  BY <1>5, <1>6, <1>7 DEF SetupInv, ClosureBindsChain, ChainFile, ValidateClose,
     BeaconsOfClosures, ValidateBeacon, ReceiptsFollowClosures, CandidatesOfTranscript,
     KeysOfClosedChains, Keys, Commons

\* Finalize replays exactly the two closed chains.
LEMMA FinalizeKeeps ==
  ASSUME SetupInv, UNCHANGED mode, NEW d \in Dirs, NEW k1 \in 1..Scheduled[1],
         NEW k2 \in 1..Scheduled[2], NEW t \in Stamps, Finalize(d, k1, k2, t)
  PROVE  SetupInv'
<1>1. /\ close[1] # None /\ beacon[1] # None /\ close[2] # None /\ beacon[2] # None
      /\ close[1].chain = ChainFile(1, k1)
      /\ close[2].chain = ChainFile(2, k2)
  BY DEF Finalize, ReplayAll, ValidateReplayRecords, ValidateClose
<1>2. UNCHANGED <<now, chain, close, committedAt, receipts, beacon, seals, genesis>>
  BY DEF Finalize
<1>3. \A c \in candidates' :
        c \in candidates \/ c.keys = Keys(Commons(close[1].chain, beacon[1]), close[2].chain, beacon[2])
  BY <1>1 DEF Finalize
<1>4. CandidatesOfTranscript' /\ KeysOfClosedChains'
  BY <1>1, <1>2, <1>3 DEF SetupInv, CandidatesOfTranscript, KeysOfClosedChains, Keys, Commons, Phases
<1> QED
  BY <1>2, <1>4, ZenonT(60) DEF SetupInv, TypeOK, PerPhase, ClosureBindsChain, ChainFile, ValidateClose,
     BeaconsOfClosures, ValidateBeacon, SealsOfClosure, ValidateSeal, Phase2OnSeals, Commons,
     ReceiptsFollowClosures

\* Every command preserves SetupInv.
LEMMA NextSetupInv == SetupInv /\ [Next]_vars => SetupInv'
<1> SUFFICES ASSUME SetupInv, [Next]_vars PROVE SetupInv'
  OBVIOUS
<1>1. CASE UNCHANGED vars
  BY <1>1, ZenonT(60) DEF vars, SetupInv, TypeOK, PerPhase, ClosureBindsChain, ChainFile, ValidateClose,
     BeaconsOfClosures, ValidateBeacon, SealsOfClosure, ValidateSeal, Phase2OnSeals, Commons,
     ReceiptsFollowClosures, CandidatesOfTranscript, KeysOfClosedChains, Keys
<1>2. CASE Next
  <2>1. UNCHANGED mode
    BY <1>2 DEF Next
  <2>2. CASE Tick
    BY <2>1, <2>2, TickKeeps
  <2>3. ASSUME NEW t \in Stamps, AcceptPhase1(t)
        PROVE  SetupInv'
    <3>1. [base |-> None, acceptedAt |-> t] \in Records[1] /\ 1 \in Phases
      BY RecordTypes DEF RecordsOn
    <3> QED
      BY <2>1, <2>3, <3>1, AcceptKeeps DEF AcceptPhase1
  <2>4. ASSUME NEW d \in Dirs, NEW t \in Stamps, AcceptPhase2(seals[d], t)
        PROVE  SetupInv'
    <3>1. /\ seals[d] # None
          /\ seals[d].commons = Commons(close[1].chain, beacon[1])
          /\ Accept(2, seals[d], t)
      BY <2>4, ClosedChainFile DEF AcceptPhase2, DerivedCommons, AuthenticatedCommons, Phases
    <3>2. [base |-> seals[d], acceptedAt |-> t] \in Records[2] /\ 2 \in Phases
      BY <3>1, RecordTypes DEF RecordsOn, SetupInv, TypeOK
    <3> QED
      BY <2>1, <3>1, <3>2, AcceptKeeps
  <2>5. ASSUME NEW k \in 1..Scheduled[1], NEW r \in Rounds, NEW o \in Offsets, ClosePhase1(k, r, o)
        PROVE  SetupInv'
    BY <2>1, <2>5, CloseKeeps DEF ClosePhase1, Phases
  <2>6. ASSUME NEW d \in Dirs, NEW k \in 1..Scheduled[2], NEW r \in Rounds, NEW o \in Offsets,
               ClosePhase2(seals[d], k, r, o)
        PROVE  SetupInv'
    BY <2>1, <2>6, CloseKeeps DEF ClosePhase2, Phases
  <2>7. ASSUME NEW w \in Witnesses, NEW p \in Phases, Witness(w, p)
        PROVE  SetupInv'
    BY <2>1, <2>7, WitnessKeeps
  <2>8. ASSUME NEW p \in Phases, NEW t \in Stamps, RecordBeacon(p, t)
        PROVE  SetupInv'
    BY <2>1, <2>8, BeaconKeeps
  <2>9. ASSUME NEW d \in Dirs, SealPhase1(d)
        PROVE  SetupInv'
    <3> DEFINE commons == Commons(close[1].chain, beacon[1])
    <3>1. close[1] # None /\ beacon[1] # None /\ seals[d] = None
      BY <2>9 DEF SealPhase1
    <3>2. ChainFile(1, Len(close[1].chain)) = close[1].chain
      BY <3>1, ClosedChainFile DEF Phases
    <3>3. commons \in [head : Seq(Records1), challenge : Closures(Records1)]
      BY <3>1 DEF Commons, SetupInv, TypeOK, Phases, Records, Closures, Beacons
    <3>4. /\ seals' = [seals EXCEPT ![d] =
               [dir |-> d, close |-> close[1], beacon |-> beacon[1],
                commons |-> commons, sealedAt |-> beacon[1].publishedAt]]
          /\ UNCHANGED <<now, chain, close, committedAt, receipts, beacon, genesis, candidates>>
      BY <2>9, <3>2 DEF SealPhase1
    <3> QED
      BY <2>1, <3>1, <3>3, <3>4, SealKeeps
  <2>10. ASSUME NEW d \in Dirs, InitPhase2(d)
         PROVE  SetupInv'
    <3>1. seals[d] # None
      BY <2>10 DEF InitPhase2, DerivedCommons, AuthenticatedCommons
    <3>2. /\ genesis' \subseteq Seals
          /\ UNCHANGED <<now, chain, close, committedAt, receipts, beacon, seals, candidates>>
      BY <2>10, <3>1 DEF InitPhase2, SetupInv, TypeOK
    <3> QED
      BY <2>1, <3>2, ZenonT(60) DEF SetupInv, TypeOK, PerPhase, ClosureBindsChain, ChainFile, ValidateClose,
         BeaconsOfClosures, ValidateBeacon, SealsOfClosure, ValidateSeal, Phase2OnSeals, Commons,
         ReceiptsFollowClosures, CandidatesOfTranscript, KeysOfClosedChains, Keys
  <2>11. ASSUME NEW d \in Dirs, SignWrongSeal(d)
         PROVE  SetupInv'
    <3>1. seals'[d] = [dir |-> d, close |-> close[1], beacon |-> beacon[1],
                       commons |-> Wrong, sealedAt |-> beacon[1].publishedAt]
      BY <2>11 DEF SignWrongSeal, SetupInv, TypeOK
    <3> QED
      BY <2>1, <2>11, <3>1, SealKeeps DEF SignWrongSeal
  <2>12. ASSUME NEW d \in Dirs, NEW k1 \in 1..Scheduled[1], NEW k2 \in 1..Scheduled[2],
                NEW t \in Stamps, Finalize(d, k1, k2, t)
         PROVE  SetupInv'
    BY <2>1, <2>12, FinalizeKeeps
  <2> QED
    BY <1>2, <2>2, <2>3, <2>4, <2>5, <2>6, <2>7, <2>8, <2>9, <2>10, <2>11, <2>12 DEF Next
<1> QED
  BY <1>1, <1>2

\* SetupInv holds throughout.
LEMMA SetupInvariant == Spec => []SetupInv
  BY InitSetupInv, NextSetupInv, PTL DEF Spec

-----------------------------------------------------------------------------
\* Every contribution to phase 2 is made on the commons of the closed phase 1,
\* whatever the coordinator signed.
THEOREM Phase2Base == Spec => []Phase2OnDerivedCommons
<1>1. SetupInv => Phase2OnDerivedCommons
  BY DEF SetupInv, Phase2OnSeals, Phase2OnDerivedCommons
<1> QED
  BY <1>1, SetupInvariant, PTL

\* Finalized keys are those of the closed chains, so finalizations agree.
THEOREM FinalizedKeys == Spec => []KeysOfClosedChains
<1>1. SetupInv => KeysOfClosedChains
  BY DEF SetupInv
<1> QED
  BY <1>1, SetupInvariant, PTL

\* In production all scheduled participants are in the keys.
THEOREM AllContributed == Spec => []EveryoneContributed
<1>1. SetupInv => EveryoneContributed
  <2> SUFFICES ASSUME SetupInv, mode = "production", NEW c \in candidates
               PROVE  Len(c.keys.commons.head) = Scheduled[1] /\ Len(c.keys.head) = Scheduled[2]
    BY DEF EveryoneContributed
  <2>1. c.keys.commons.head = close[1].chain /\ c.keys.head = close[2].chain
    BY DEF SetupInv, KeysOfClosedChains, Keys, Commons
  <2>2. \A p \in Phases : close[p] # None
    BY DEF SetupInv, CandidatesOfTranscript
  <2>3. \A p \in Phases : Len(close[p].chain) = Scheduled[p]
    BY <2>2 DEF SetupInv, ClosureBindsChain, ValidateClose
  <2> QED
    BY <2>1, <2>3 DEF Phases
<1> QED
  BY <1>1, SetupInvariant, PTL

\* A release rests on closures that were public MinLead before their rounds,
\* however wrong the coordinator's clock was: one receipt of the quorum proves it.
THEOREM PublicClosures == Spec => []ReleasedClosuresWerePublic
<1>1. SetupInv => ReleasedClosuresWerePublic
  <2> SUFFICES ASSUME SetupInv, NEW c \in candidates, VerifyOperationalEvidence(c), NEW p \in Phases
               PROVE  RoundTime(close[p].round) - committedAt[p] >= MinLead
    BY DEF ReleasedClosuresWerePublic
  <2>1. PICK W \in SUBSET Witnesses :
          /\ Cardinality(W) >= Quorum
          /\ \A w \in W : ValidatePublicWitnessReceipt(p, receipts[p][w])
    BY DEF VerifyOperationalEvidence
  <2>2. PICK w \in W : TRUE
    BY <2>1, FS_EmptySet, QuorumAssumption
  <2>3. receipts[p][w] # None /\ RoundTime(close[p].round) - receipts[p][w] >= MinLead
    BY <2>1 DEF ValidatePublicWitnessReceipt
  <2>4. close[p] # None /\ committedAt[p] <= receipts[p][w]
    BY <2>3 DEF SetupInv, ReceiptsFollowClosures
  <2>5. committedAt[p] \in Int /\ receipts[p][w] \in Int
    BY <2>3, <2>4, TimeAssumption DEF SetupInv, ClosureBindsChain, TypeOK
  <2>6. RoundTime(close[p].round) \in Int /\ MinLead \in Int
    BY <2>4, RoundTimeType, TimeAssumption DEF SetupInv, TypeOK, Closures
  <2> QED
    BY <2>3, <2>4, <2>5, <2>6
<1> QED
  BY <1>1, SetupInvariant, PTL

\* No sequence of commands ends in a transcript that finalize must reject.
THEOREM TranscriptReplays == Spec => []Finalizable
<1>1. SetupInv => Finalizable
  <2> SUFFICES ASSUME SetupInv, beacon[2] # None
               PROVE  \E d \in Dirs : ReplayAll(seals[d], Len(close[1].chain), Len(close[2].chain))
    BY DEF Finalizable
  <2>1. close[2] # None
    BY DEF SetupInv, BeaconsOfClosures, Phases
  <2>2. close[1] # None /\ beacon[1] # None /\ 1 \in DOMAIN chain[2]
    BY <2>1, Phase2Follows
  <2>3. PICK d \in Dirs : /\ seals[d] # None
                          /\ chain[2][1].base = seals[d]
                          /\ seals[d].commons = Commons(close[1].chain, beacon[1])
    BY <2>2 DEF SetupInv, Phase2OnSeals
  <2>4. \A p \in Phases :
          /\ close[p] # None /\ beacon[p] # None
          /\ Len(close[p].chain) <= Len(chain[p])
          /\ ChainFile(p, Len(close[p].chain)) = close[p].chain
          /\ ValidateClose(p, close[p].chain, close[p])
          /\ ValidateBeacon(close[p], beacon[p])
    BY <2>1, <2>2 DEF SetupInv, ClosureBindsChain, BeaconsOfClosures, Phases
  <2>5. ValidateSeal(close[1], beacon[1], seals[d]) /\ close[1].round # close[2].round
    BY <2>1, <2>3 DEF SetupInv, SealsOfClosure, ClosureBindsChain
  <2>6. ReplayAll(seals[d], Len(close[1].chain), Len(close[2].chain))
    BY <2>3, <2>4, <2>5 DEF ReplayAll, ValidateReplayRecords, Phases
  <2> QED
    BY <2>6
<1> QED
  BY <1>1, SetupInvariant, PTL

-----------------------------------------------------------------------------
\* Releases.

-----------------------------------------------------------------------------
\* The reports a command line names are finitely many.
LEMMA ReportsFinite ==
  ASSUME NEW F \in SUBSET Paths, audit \in [Paths -> Audits \cup {Nothing}]
  PROVE  IsFiniteSet({audit[f] : f \in F})
<1> DEFINE T == {audit[f] : f \in F}
           g == [f \in F |-> audit[f]]
<1>1. IsFiniteSet(F)
  BY FS_Subset, FiniteAssumption
<1>2. g \in Surjection(F, T)
  BY DEF Surjection
<1> QED
  BY <1>1, <1>2, FS_Surjection

\* A finite set counted as two or more has two different members.
LEMMA TwoMembers ==
  ASSUME NEW S, IsFiniteSet(S), Cardinality(S) >= 2
  PROVE  \E x, y \in S : x # y
<1>1. S # {}
  BY FS_EmptySet
<1>2. PICK x \in S : TRUE
  BY <1>1
<1>3. S # {x}
  BY FS_Singleton
<1> QED
  BY <1>2, <1>3

\* A finite set with two different members counts as two or more.
LEMMA CountsTwo ==
  ASSUME NEW S, IsFiniteSet(S), NEW x \in S, NEW y \in S, x # y
  PROVE  Cardinality(S) >= 2
<1>1. IsFiniteSet({x}) /\ Cardinality({x}) = 1
  BY FS_Singleton
<1>2. Cardinality({x} \cup {y}) = 2
  <2>1. Cardinality({x} \cup {y}) =
          IF y \in {x} THEN Cardinality({x}) ELSE Cardinality({x}) + 1
    BY <1>1, FS_AddElement, Zenon
  <2> QED
    BY <1>1, <2>1
<1>3. {x} \cup {y} \subseteq S
  OBVIOUS
<1>4. Cardinality({x} \cup {y}) <= Cardinality(S)
  BY <1>3, FS_Subset
<1>5. Cardinality(S) \in Nat
  BY FS_CardinalityType
<1> QED
  BY <1>2, <1>4, <1>5

\* Reports that pass verifyPassingAudits are of two different auditors.
LEMMA PassingAuditsAreTwo ==
  ASSUME NEW c, NEW reports, IsFiniteSet(reports), VerifyPassingAudits(c, reports)
  PROVE  \E r, q \in reports : r.auditor # q.auditor /\ r.candidate = c /\ q.candidate = c
<1>1. PICK r, q \in reports : r # q
  BY TwoMembers DEF VerifyPassingAudits
<1> QED
  BY <1>1 DEF VerifyPassingAudits

-----------------------------------------------------------------------------
\* Before anything is finalized nothing is staged or released.
LEMMA InitReleaseInv == ReleaseInit => ReleaseInv
  BY FS_EmptySet
  DEF ReleaseInit, ReleaseInv, ReleaseTypeOK, ReportsAreGenuine, StagingIsBacked, BackedBy,
      VerifiedBeforePublish, ReleasesAreBacked, ReleaseVerifies, Empty, Staging, Steps

\* Whatever is genuine stays genuine: audits that ran are never undone.
LEMMA GenuineStays ==
  ASSUME performed \subseteq performed'
  PROVE  /\ \A r : Genuine(r) => Genuine(r)'
         /\ \A c : BackedBy(c) => BackedBy(c)'
  BY DEF Genuine, BackedBy

\* The end of a call leaves an empty staging directory and everything else.
LEMMA StopKeeps ==
  ASSUME ReleaseInv, NEW s \in Signers, Stop(s),
         UNCHANGED <<candidate, audit, bundle, performed, release>>
  PROVE  ReleaseInv'
  BY FS_EmptySet
  DEF ReleaseInv, ReleaseTypeOK, ReportsAreGenuine, StagingIsBacked, BackedBy, Genuine,
      VerifiedBeforePublish, ReleasesAreBacked, ReleaseVerifies, Empty, Staging, Steps, Stop

\* Every step of the coordinator, the auditors, the operators and the signers
\* preserves ReleaseInv.
LEMMA NextReleaseInv == ReleaseInv /\ [ReleaseNext]_releaseVars => ReleaseInv'
<1> SUFFICES ASSUME ReleaseInv, [ReleaseNext]_releaseVars PROVE ReleaseInv'
  OBVIOUS
<1> USE DEF ReleaseInv
<1>1. ASSUME NEW d \in CandidateDirs, NEW keys \in {Replayed, WrongKeys}, NEW t \in FinalizedAt,
             FinalizeCandidate(d, keys, t)
      PROVE  ReleaseInv'
  BY <1>1 DEF FinalizeCandidate, ReleaseTypeOK, Candidates, ReportsAreGenuine, StagingIsBacked, BackedBy,
     Genuine, VerifiedBeforePublish, ReleasesAreBacked, ReleaseVerifies
<1>2. ASSUME NEW a \in Auditors, NEW d \in CandidateDirs, NEW f \in Paths, NEW t \in AuditedAt,
             Audit(a, d, f, t)
      PROVE  ReleaseInv'
  <2> DEFINE c == candidate[d]
             r == [auditor |-> a, candidate |-> c, auditedAt |-> t]
  <2>1. c \in Candidates /\ c.keys = Replayed
    BY <1>2 DEF Audit, ReleaseTypeOK
  <2>2. /\ audit' = [audit EXCEPT ![f] = r]
        /\ performed' = performed \cup {<<a, c>>}
        /\ UNCHANGED <<candidate, bundle, step, input, staged, release>>
    BY <1>2 DEF Audit
  <2>3. Genuine(r)'
    BY <2>1, <2>2 DEF Genuine, Audits
  <2>4. /\ \A q : Genuine(q) => Genuine(q)'
        /\ \A b : BackedBy(b) => BackedBy(b)'
    BY <2>2, GenuineStays
  <2>5. ReleaseTypeOK'
    BY <2>1, <2>2 DEF ReleaseTypeOK, Audits
  <2>6. ReportsAreGenuine'
    BY <2>2, <2>3, <2>4 DEF ReportsAreGenuine, ReleaseTypeOK
  <2>7. StagingIsBacked' /\ ReleasesAreBacked'
    BY <2>2, <2>4 DEF StagingIsBacked, ReleasesAreBacked
  <2>8. VerifiedBeforePublish' /\ ReleaseVerifies'
    BY <2>2 DEF VerifiedBeforePublish, ReleaseVerifies
  <2> QED
    BY <2>5, <2>6, <2>7, <2>8
<1>3. ASSUME NEW t \in AssembledAt, AssembleEvidence(t)
      PROVE  ReleaseInv'
  BY <1>3 DEF AssembleEvidence, ReleaseTypeOK, ReportsAreGenuine, StagingIsBacked, BackedBy,
     Genuine, VerifiedBeforePublish, ReleasesAreBacked, ReleaseVerifies
<1>4. CASE Discard
  BY <1>4 DEF Discard, ReleaseTypeOK, ReportsAreGenuine, StagingIsBacked, BackedBy,
     Genuine, VerifiedBeforePublish, ReleasesAreBacked, ReleaseVerifies
<1>5. ASSUME NEW s \in Signers, NEW d \in CandidateDirs, NEW F \in SUBSET Paths, NEW t \in ReleasedAt,
             BeginRelease(s, d, F, t)
      PROVE  ReleaseInv'
  <2>1. candidate[d] \in Candidates /\ bundle \in AssembledAt
    BY <1>5 DEF BeginRelease, ReleaseTypeOK, VerifyReleaseOperationalEvidence
  <2>2. ReleaseTypeOK'
    BY <1>5, <2>1 DEF BeginRelease, ReleaseTypeOK, Inputs, Steps
  <2>3. ReportsAreGenuine' /\ StagingIsBacked' /\ ReleasesAreBacked' /\ ReleaseVerifies'
    BY <1>5 DEF BeginRelease, ReportsAreGenuine, StagingIsBacked, ReleasesAreBacked,
       ReleaseVerifies, BackedBy, Genuine
  <2>4. VerifiedBeforePublish'
    BY <1>5 DEF BeginRelease, VerifiedBeforePublish, ReleaseTypeOK
  <2> QED
    BY <2>2, <2>3, <2>4
<1>6. ASSUME NEW s \in Signers, CopyCandidate(s)
      PROVE  ReleaseInv'
  <2>1. input[s] \in Inputs /\ candidate[input[s].dir] \in Candidates
    BY <1>6 DEF CopyCandidate, ReleaseTypeOK, Inputs
  <2>2. ReleaseTypeOK'
    BY <1>6, <2>1, SMTT(60) DEF CopyCandidate, ReleaseTypeOK, Staging, Steps
  <2>3. \A z \in Signers : staged'[z].audits = staged[z].audits
    BY <1>6 DEF CopyCandidate, ReleaseTypeOK, Staging
  <2>4. ReportsAreGenuine' /\ StagingIsBacked' /\ ReleasesAreBacked' /\ ReleaseVerifies'
    BY <1>6, <2>3 DEF CopyCandidate, ReportsAreGenuine, StagingIsBacked, ReleasesAreBacked,
       ReleaseVerifies, BackedBy, Genuine
  <2>5. VerifiedBeforePublish'
    BY <1>6 DEF CopyCandidate, VerifiedBeforePublish, ReleaseTypeOK
  <2> QED
    BY <2>2, <2>4, <2>5
<1>7. ASSUME NEW s \in Signers, CopyAudits(s)
      PROVE  ReleaseInv'
  <2> DEFINE reports == {audit[f] : f \in input[s].paths}
  <2>1. input[s].paths \in SUBSET Paths /\ Nothing \notin reports
    BY <1>7 DEF CopyAudits, ReleaseTypeOK, Inputs
  <2>2. IsFiniteSet(reports)
    BY <2>1, ReportsFinite DEF ReleaseTypeOK
  <2>3. \A r \in reports : Genuine(r)
    BY <2>1 DEF ReportsAreGenuine
  <2>4. reports \subseteq Audits
    BY <2>3 DEF Genuine
  <2>5. /\ staged' = [staged EXCEPT ![s].audits = reports]
        /\ step' = [step EXCEPT ![s] = "copyEvidence"]
        /\ UNCHANGED <<candidate, audit, bundle, performed, input, release>>
    BY <1>7 DEF CopyAudits
  <2> HIDE DEF reports
  <2>6. ReleaseTypeOK'
    <3>1. staged' \in [Signers -> Staging]
      BY <2>4, <2>5, SMTT(60) DEF ReleaseTypeOK, Staging
    <3>2. step' \in [Signers -> Steps] /\ \A z \in Signers : step'[z] # "idle" => input[z] \in Inputs
      BY <1>7, <2>5 DEF CopyAudits, ReleaseTypeOK, Steps
    <3> QED
      BY <2>5, <3>1, <3>2 DEF ReleaseTypeOK
  <2>7. \A z \in Signers : staged'[z].audits = IF z = s THEN reports ELSE staged[z].audits
    BY <2>5 DEF ReleaseTypeOK, Staging
  <2>8. StagingIsBacked'
    BY <2>2, <2>3, <2>5, <2>7 DEF StagingIsBacked, BackedBy, Genuine
  <2>9. ReportsAreGenuine' /\ ReleasesAreBacked' /\ ReleaseVerifies'
    BY <2>5 DEF ReportsAreGenuine, ReleasesAreBacked, ReleaseVerifies, BackedBy, Genuine
  <2>10. VerifiedBeforePublish'
    BY <2>5 DEF VerifiedBeforePublish, ReleaseTypeOK
  <2> QED
    BY <2>6, <2>8, <2>9, <2>10
<1>8. ASSUME NEW s \in Signers, CopyEvidence(s)
      PROVE  ReleaseInv'
  <2> DEFINE tr == FinalTranscript(input[s].candidate, staged[s].audits, bundle, input[s].releasedAt)
  <2>1. input[s] \in Inputs /\ bundle = input[s].bundle
    BY <1>8 DEF CopyEvidence, ReleaseTypeOK
  <2>2. tr \in Transcripts
    BY <2>1 DEF FinalTranscript, Transcripts, ReleaseTypeOK, Inputs, Staging
  <2>3. /\ staged' = [staged EXCEPT ![s].bundle = bundle, ![s].transcript = tr]
        /\ step' = [step EXCEPT ![s] = "selfVerify"]
        /\ UNCHANGED <<candidate, audit, bundle, performed, input, release>>
    BY <1>8 DEF CopyEvidence
  <2> HIDE DEF tr
  <2>4. staged' \in [Signers -> Staging]
    BY <2>2, <2>3, ZenonT(60) DEF ReleaseTypeOK, Staging
  <2>5. ReleaseTypeOK'
    BY <1>8, <2>3, <2>4 DEF CopyEvidence, ReleaseTypeOK, Steps
  <2>6. \A z \in Signers : staged'[z].audits = staged[z].audits
    BY <2>3 DEF ReleaseTypeOK, Staging
  <2>7. ReportsAreGenuine' /\ StagingIsBacked' /\ ReleasesAreBacked' /\ ReleaseVerifies'
    BY <2>3, <2>6 DEF ReportsAreGenuine, StagingIsBacked, ReleasesAreBacked,
       ReleaseVerifies, BackedBy, Genuine
  <2>8. VerifiedBeforePublish'
    BY <2>3 DEF VerifiedBeforePublish, ReleaseTypeOK
  <2> QED
    BY <2>5, <2>7, <2>8
<1>9. ASSUME NEW s \in Signers, SelfVerify(s)
      PROVE  ReleaseInv'
  <2>1. ReleaseTypeOK'
    BY <1>9 DEF SelfVerify, ReleaseTypeOK, Steps
  <2>2. VerifiedBeforePublish'
    BY <1>9 DEF SelfVerify, VerifiedBeforePublish, ReleaseTypeOK
  <2>3. ReportsAreGenuine' /\ StagingIsBacked' /\ ReleasesAreBacked' /\ ReleaseVerifies'
    BY <1>9 DEF SelfVerify, ReportsAreGenuine, StagingIsBacked, ReleasesAreBacked,
       ReleaseVerifies, BackedBy, Genuine
  <2> QED
    BY <2>1, <2>2, <2>3
<1>10. ASSUME NEW s \in Signers, FailRelease(s)
       PROVE  ReleaseInv'
  BY <1>10, StopKeeps DEF FailRelease
<1>11. ASSUME NEW s \in Signers, NEW r \in ReleaseDirs, PublishRelease(s, r)
       PROVE  ReleaseInv'
  <2>1. VerifyRelease(staged[s]) /\ BackedBy(staged[s]) /\ staged[s] \in Staging
    BY <1>11 DEF PublishRelease, VerifiedBeforePublish, StagingIsBacked, ReleaseTypeOK
  <2>2. /\ release' = [release EXCEPT ![r] = staged[s]]
        /\ Stop(s)
        /\ UNCHANGED <<candidate, audit, bundle, performed>>
    BY <1>11 DEF PublishRelease
  <2>3. ReleaseTypeOK'
    BY <2>1, <2>2 DEF Stop, ReleaseTypeOK, Steps, Empty, Staging
  <2>4. ReportsAreGenuine'
    BY <2>2 DEF ReportsAreGenuine, Genuine
  <2>5. StagingIsBacked'
    BY <2>2, FS_EmptySet DEF StagingIsBacked, Stop, ReleaseTypeOK, Empty, BackedBy, Genuine
  <2>6. VerifiedBeforePublish'
    BY <2>2 DEF VerifiedBeforePublish, Stop, ReleaseTypeOK
  <2>7. ReleasesAreBacked'
    BY <2>1, <2>2 DEF ReleasesAreBacked, ReleaseTypeOK, BackedBy, Genuine
  <2>8. ReleaseVerifies'
    BY <2>1, <2>2 DEF ReleaseVerifies, ReleaseTypeOK
  <2> QED
    BY <2>3, <2>4, <2>5, <2>6, <2>7, <2>8
<1>12. CASE UNCHANGED releaseVars
  BY <1>12 DEF releaseVars, ReleaseTypeOK, ReportsAreGenuine, StagingIsBacked, BackedBy, Genuine,
     VerifiedBeforePublish, ReleasesAreBacked, ReleaseVerifies
<1> QED
  BY <1>1, <1>2, <1>3, <1>4, <1>5, <1>6, <1>7, <1>8, <1>9, <1>10, <1>11, <1>12 DEF ReleaseNext

\* ReleaseInv holds throughout.
LEMMA ReleaseInvariant == ReleaseSpec => []ReleaseInv
  BY InitReleaseInv, NextReleaseInv, PTL DEF ReleaseSpec

-----------------------------------------------------------------------------
\* What SignRelease publishes passes VerifyRelease, whatever was discarded and
\* made again while it was copying.
THEOREM ReleasesVerify == ReleaseSpec => []ReleaseVerifies
<1>1. ReleaseInv => ReleaseVerifies
  BY DEF ReleaseInv
<1> QED
  BY <1>1, ReleaseInvariant, PTL

\* A backed release carries replayed keys and two auditors replayed it.
LEMMA BackedRelease ==
  ASSUME ReleaseInv
  PROVE  ReleasedKeysWereReplayed /\ ReleaseIndependentlyAudited
<1> SUFFICES ASSUME NEW d \in ReleaseDirs, release[d] # Nothing
             PROVE  /\ release[d].candidate.keys = Replayed
                    /\ Cardinality({a \in Auditors : <<a, release[d].candidate>> \in performed}) >= 2
  BY DEF ReleasedKeysWereReplayed, ReleaseIndependentlyAudited
<1> DEFINE c == release[d].candidate
           A == {a \in Auditors : <<a, c>> \in performed}
<1>1. BackedBy(release[d]) /\ VerifyPassingAudits(c, release[d].audits)
  BY DEF ReleaseInv, ReleasesAreBacked, ReleaseVerifies, VerifyRelease
<1>2. PICK r, q \in release[d].audits :
        r.auditor # q.auditor /\ r.candidate = c /\ q.candidate = c
  BY <1>1, PassingAuditsAreTwo DEF BackedBy
<1>3. Genuine(r) /\ Genuine(q)
  BY <1>1 DEF BackedBy
<1>4. c.keys = Replayed
  BY <1>2, <1>3 DEF Genuine
<1>5. r.auditor \in A /\ q.auditor \in A
  BY <1>2, <1>3 DEF Genuine, Audits
<1>6. IsFiniteSet(A)
  BY FS_Subset, FiniteAssumption
<1> QED
  BY <1>2, <1>4, <1>5, <1>6, CountsTwo

\* Released keys are the ones a replay of the transcript yields, whatever
\* candidates were signed.
THEOREM ReleasedKeysReplayed == ReleaseSpec => []ReleasedKeysWereReplayed
  BY BackedRelease, ReleaseInvariant, PTL

\* Two different enrolled auditors replayed every released candidate.
THEOREM IndependentlyAudited == ReleaseSpec => []ReleaseIndependentlyAudited
  BY BackedRelease, ReleaseInvariant, PTL
=============================================================================
