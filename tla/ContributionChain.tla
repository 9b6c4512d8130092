------------------------- MODULE ContributionChain -------------------------
(***************************************************************************)
(* One phase of the ceremony: participants contribute on the head of the   *)
(* accepted chain, and the coordinator accepts a candidate by publishing   *)
(* its evidence under the next index and, last, the signed chain document  *)
(* chain-NNNN.json.  Nothing else orders the commands: every one names the *)
(* chain file it starts from, several acceptances may run at once, and any *)
(* of them may be killed and retried.                                      *)
(*                                                                         *)
(* The frozen order of the participants is checked where the tool makes a  *)
(* candidate and where a chain is loaded, but not by the acceptance, which *)
(* takes a directory that any participant of the roster may have signed.   *)
(*                                                                         *)
(* A hash is modelled by the value hashed, so a record carries its         *)
(* predecessor.  Files are written as in EvidenceDirectory: disk is the    *)
(* history of the directory tree since the last fsync, its last element is *)
(* what processes see and a power loss keeps some prefix.  A tree gives    *)
(* for every index the files that are there, with their bytes.             *)
(***************************************************************************)
EXTENDS Naturals, Sequences, SequencesExt

CONSTANTS
  Acceptors,      \* coordinator processes running the accept command
  Participants,   \* the signed roster
  Schedule,       \* the frozen order of the phase, a sequence of participants
  MaxParticipants, \* records that a chain may hold at most
  Dirs,           \* candidate directories, each with entropy of its own
  ContributedAt,  \* timestamps an operator may pass to contribute
  DestroyedAt,    \* ... to record-erasure
  AcceptedAt,     \* ... to accept
  Genesis,        \* the record ID before the first contribution
  None            \* no candidate, no erasure yet

ASSUME ScheduleAssumption ==
  /\ Schedule \in Seq(Participants) /\ IsInjective(Schedule)
  /\ MaxParticipants \in Nat /\ Len(Schedule) <= MaxParticipants
ASSUME StampsAssumption ==
  ContributedAt \cup DestroyedAt \cup AcceptedAt \subseteq Nat \ {0}

VARIABLES
  candidate,  \* candidate[d]: attestation and erasure time in directory d
  disk,       \* states of the transcript tree since the last fsync
  next,       \* next[c]: the chain c's command publishes, empty without a command
  file,       \* file[c]: index in Files of the file c is at, 0 before preflight
  linked      \* linked[c]: c linked that file and has not fsynced it

vars == <<candidate, disk, next, file, linked>>

-----------------------------------------------------------------------------
Indices == 1..MaxParticipants

\* Mutant of Files: the chain is published before its evidence is complete.
ChainBeforeVerification ==
  <<"payload", "attestation", "erasure", "chainSig", "chain", "verification">>

\* What accept publishes for an index, in this order.  An attestation and an
\* erasure are each published with the participant's signature right behind.
Files ==
  <<"payload", "attestation", "erasure", "verification", "chainSig", "chain">>

\* The chain record of candidate v accepted at time t on top of chain.
ChainRecord(v, t) == [attestation |-> v.attestation, destroyedAt |-> v.destroyedAt, acceptedAt |-> t]

HeadRecordID(chain) == IF chain = <<>> THEN Genesis ELSE Last(chain)

\* The bytes of file f for the last record of chain.
Bytes(chain, f) ==
  LET record == Last(chain) IN
  CASE f = "payload" -> record.attestation.output
    [] f = "attestation" -> record.attestation
    [] f = "erasure" -> <<record.attestation, record.destroyedAt>>
    [] f = "verification" -> record
    [] f \in {"chainSig", "chain"} -> chain

Visible == Last(disk)

Exists(tree, i, f) == f \in DOMAIN tree[i]
Holds(tree, i, f, bytes) == Exists(tree, i, f) /\ tree[i][f] = bytes

\* requireAbsentOrExact and its variants for native payloads.
AbsentOrExact(tree, chain, f) ==
  Exists(tree, Len(chain), f) => tree[Len(chain)][f] = Bytes(chain, f)

\* The tree with file f of chain's last record, linked or replaced.
WithFile(tree, chain, f) ==
  [tree EXCEPT ![Len(chain)] =
     [g \in DOMAIN @ \cup {f} |-> IF g = f THEN Bytes(chain, f) ELSE @[g]]]

-----------------------------------------------------------------------------
\* Chain.Validate: length, indices, links, acceptance order, nobody twice.
Validate(chain) ==
  /\ Len(chain) <= MaxParticipants
  /\ \A i \in DOMAIN chain :
       /\ chain[i].attestation.index = i
       /\ chain[i].attestation.previous = HeadRecordID(SubSeq(chain, 1, i - 1))
       /\ i > 1 => chain[i].acceptedAt > chain[i - 1].acceptedAt
  /\ IsInjective([i \in DOMAIN chain |-> chain[i].attestation.participant])

\* Index i is participant p's in the frozen order.
InTurn(i, p) == i <= Len(Schedule) /\ p = Schedule[i]

\* Chain.ValidateAgainstDefinition
ValidateAgainstDefinition(chain) ==
  /\ Validate(chain)
  /\ \A i \in DOMAIN chain : InTurn(i, chain[i].attestation.participant)

\* ValidateAttestationAcceptance; the definition was created at time 0.
ValidateAttestationAcceptance(chain, record) ==
  /\ ValidateAgainstDefinition(chain)
  /\ record.attestation.index = Len(chain) + 1
  /\ record.attestation.previous = HeadRecordID(chain)
  /\ record.attestation.contributedAt > IF chain = <<>> THEN 0 ELSE Last(chain).acceptedAt
  /\ record.destroyedAt > record.attestation.contributedAt
  /\ record.acceptedAt > record.destroyedAt

\* verifyChainFiles: every record's evidence is there and binds the record.
VerifyChainFiles(tree, chain) ==
  \A i \in DOMAIN chain :
    LET prefix == SubSeq(chain, 1, i) IN
    /\ \A f \in Range(Files) \ {"chainSig", "chain"} : Holds(tree, i, f, Bytes(prefix, f))
    /\ ValidateAttestationAcceptance(SubSeq(chain, 1, i - 1), chain[i])

\* chain-kkkk.json as a reader finds it; init published the empty chain.
ChainFile(tree, k) == IF k = 0 THEN <<>> ELSE tree[k]["chain"]

\* loadVerifiedPhase1Files / loadVerifiedPhase2Files on chain-kkkk.json.
Loads(tree, k) ==
  k > 0 =>
    /\ Exists(tree, k, "chain")
    /\ Holds(tree, k, "chainSig", ChainFile(tree, k))
    /\ ValidateAgainstDefinition(ChainFile(tree, k))
    /\ VerifyChainFiles(tree, ChainFile(tree, k))

Init ==
  /\ candidate = [d \in Dirs |-> None]
  /\ disk = <<[i \in Indices |-> <<>>]>>
  /\ next = [c \in Acceptors |-> <<>>]
  /\ file = [c \in Acceptors |-> 0]
  /\ linked = [c \in Acceptors |-> FALSE]

-----------------------------------------------------------------------------
\* What participant p signs after contributing, with the entropy of directory
\* d, on the head of chain-kkkk.json.
Attestation(d, p, k, t) ==
  [output |-> d, index |-> k + 1, participant |-> p,
   previous |-> HeadRecordID(ChainFile(Visible, k)), contributedAt |-> t]

\* A new candidate directory; nothing else is written.
MakeCandidate(d, p, k, t) ==
  /\ candidate[d] = None
  /\ Loads(Visible, k)
  /\ k < MaxParticipants
  /\ candidate' = [candidate EXCEPT ![d] =
       [attestation |-> Attestation(d, p, k, t), destroyedAt |-> None]]
  /\ UNCHANGED <<disk, next, file, linked>>

\* CreateContributionCandidate: participant p replays chain-kkkk.json, finds
\* that it is its turn and contributes with fresh entropy.
Contribute(d, p, k, t) ==
  /\ InTurn(k + 1, p)
  /\ MakeCandidate(d, p, k, t)

\* A participant of the roster contributes without asking whose turn it is:
\* the candidate directory reaches the coordinator from outside.
ContributeOutOfTurn(d, p, k, t) ==
  /\ ~InTurn(k + 1, p)
  /\ MakeCandidate(d, p, k, t)

\* CreateErasureAttestationFiles
RecordErasure(d, t) ==
  /\ candidate[d] # None
  /\ candidate[d].destroyedAt = None
  /\ t > candidate[d].attestation.contributedAt
  /\ candidate' = [candidate EXCEPT ![d].destroyedAt = t]
  /\ UNCHANGED <<disk, next, file, linked>>

-----------------------------------------------------------------------------
\* What VerifyAndAcceptContribution checks of candidate d against chain k.
Acceptable(tree, d, k, t) ==
  LET chain == ChainFile(tree, k)
      record == ChainRecord(candidate[d], t)
  IN
  /\ Loads(tree, k)
  /\ candidate[d] # None
  /\ candidate[d].destroyedAt # None
  /\ ValidateAttestationAcceptance(chain, record)
  /\ Validate(Append(chain, record))

\* The chain that accepting d on chain-kkkk.json at time t publishes.
Accepted(tree, d, k, t) == Append(ChainFile(tree, k), ChainRecord(candidate[d], t))

\* VerifyAndAcceptContribution up to the signed new chain.  A candidate that
\* fails a check ends the command with nothing changed.
BeginAccept(c, d, k, t) ==
  /\ next[c] = <<>>
  /\ Acceptable(Visible, d, k, t)
  /\ next' = [next EXCEPT ![c] = Accepted(Visible, d, k, t)]
  /\ file' = [file EXCEPT ![c] = 0]
  /\ UNCHANGED <<candidate, disk, linked>>

\* The command of c ends, with or without an error.
Return(c) ==
  /\ next' = [next EXCEPT ![c] = <<>>]
  /\ file' = [file EXCEPT ![c] = 0]
  /\ linked' = [linked EXCEPT ![c] = FALSE]

\* The next file, or the end of the command.
Advance(c) ==
  IF file[c] = Len(Files)
    THEN Return(c)
    ELSE /\ file' = [file EXCEPT ![c] = @ + 1]
         /\ linked' = [linked EXCEPT ![c] = FALSE]
         /\ UNCHANGED next

\* Every destination is checked before anything is published.
Preflight(c) ==
  /\ next[c] # <<>>
  /\ file[c] = 0
  /\ IF \A f \in Range(Files) : AbsentOrExact(Visible, next[c], f) THEN Advance(c) ELSE Return(c)
  /\ UNCHANGED <<candidate, disk>>

\* writeSignedRecordNoReplace checks both of its files again first.
Recheck(c) ==
  Files[file[c]] = "chainSig" =>
    AbsentOrExact(Visible, next[c], "chainSig") /\ AbsentOrExact(Visible, next[c], "chain")

\* Mutant of Publish: an existing file is taken for the one to publish.
PublishTrusting(c) ==
  /\ file[c] # 0
  /\ ~linked[c]
  /\ IF ~Exists(Visible, Len(next[c]), Files[file[c]])
       THEN /\ disk' = Append(disk, WithFile(Visible, next[c], Files[file[c]]))
            /\ linked' = [linked EXCEPT ![c] = TRUE]
            /\ UNCHANGED <<next, file>>
       ELSE Advance(c) /\ UNCHANGED disk
  /\ UNCHANGED candidate

\* Mutant of Publish: the file is written and fsynced over an existing one.
PublishReplacing(c) ==
  /\ file[c] # 0
  /\ disk' = <<WithFile(Visible, next[c], Files[file[c]])>>
  /\ Advance(c)
  /\ UNCHANGED candidate

\* write...NoReplaceOrExact: link when the name is free, go on without an
\* fsync when it holds the exact bytes, give up when it holds others.  The
\* system may also fail, or another acceptance have removed the temporary.
Publish(c) ==
  LET f == Files[file[c]]
      i == Len(next[c])
  IN
  /\ file[c] # 0
  /\ ~linked[c]
  /\ \/ /\ Recheck(c)
        /\ ~Exists(Visible, i, f)
        /\ disk' = Append(disk, WithFile(Visible, next[c], f))
        /\ linked' = [linked EXCEPT ![c] = TRUE]
        /\ UNCHANGED <<next, file>>
     \/ /\ Recheck(c)
        /\ Holds(Visible, i, f, Bytes(next[c], f))
        /\ Advance(c)
        /\ UNCHANGED disk
     \/ /\ Return(c)
        /\ UNCHANGED disk
  /\ UNCHANGED candidate

\* The directory is fsynced, or the command fails with the file committed.
Sync(c) ==
  /\ linked[c]
  /\ \/ /\ Holds(Visible, Len(next[c]), Files[file[c]], Bytes(next[c], Files[file[c]]))
        /\ disk' = <<Visible>>
        /\ Advance(c)
     \/ UNCHANGED disk /\ Return(c)
  /\ UNCHANGED candidate

-----------------------------------------------------------------------------
Kill(c) ==
  /\ next[c] # <<>>
  /\ Return(c)
  /\ UNCHANGED <<candidate, disk>>

PowerLoss ==
  /\ \E i \in DOMAIN disk : disk' = <<disk[i]>>
  /\ next' = [c \in Acceptors |-> <<>>]
  /\ file' = [c \in Acceptors |-> 0]
  /\ linked' = [c \in Acceptors |-> FALSE]
  /\ UNCHANGED candidate

Next ==
  \/ \E d \in Dirs, p \in Participants, k \in 0..MaxParticipants, t \in ContributedAt :
       Contribute(d, p, k, t) \/ ContributeOutOfTurn(d, p, k, t)
  \/ \E d \in Dirs, t \in DestroyedAt : RecordErasure(d, t)
  \/ \E c \in Acceptors, d \in Dirs, k \in 0..MaxParticipants, t \in AcceptedAt :
       BeginAccept(c, d, k, t)
  \/ \E c \in Acceptors : Preflight(c) \/ Publish(c) \/ Sync(c) \/ Kill(c)
  \/ PowerLoss

Spec == Init /\ [][Next]_vars

-----------------------------------------------------------------------------
\* Types: a file holds what accept writes under its name, and chains have the
\* length their name says.
TypeOK ==
  /\ \A d \in Dirs :
       candidate[d] = None \/
         /\ candidate[d].attestation.participant \in Participants
         /\ candidate[d].attestation.index \in Indices
         /\ candidate[d].attestation.contributedAt \in ContributedAt
         /\ candidate[d].destroyedAt \in DestroyedAt \cup {None}
  /\ disk # <<>>
  /\ \A s \in Range(disk) :
       /\ DOMAIN s = Indices
       /\ \A i \in Indices :
            /\ DOMAIN s[i] \subseteq Range(Files)
            /\ Exists(s, i, "payload") => s[i]["payload"] \in Dirs
            /\ Exists(s, i, "chain") => Len(s[i]["chain"]) = i
  /\ \A c \in Acceptors : next[c] # <<>> => Len(next[c]) \in Indices
  /\ file \in [Acceptors -> 0..Len(Files)]
  /\ linked \in [Acceptors -> BOOLEAN]

\* All published chain documents are prefixes of one another, whichever
\* acceptances of whichever candidates ran at once, were killed or were
\* repeated from an old chain file.
NoFork ==
  \A j, k \in Indices :
    j < k /\ Exists(Visible, j, "chain") /\ Exists(Visible, k, "chain") =>
      IsPrefix(Visible[j]["chain"], Visible[k]["chain"])

\* A published chain extends one that loads, and loads itself exactly if its
\* last contributor was the one whose turn it was: evidence, signature, links
\* and chronology are in place before chain-NNNN.json appears ("writes a new
\* signed chain document last"), and the frozen order is the only thing that
\* acceptance leaves to the load.  A chain accepted out of turn is never
\* extended.
LoadsIfInTurn ==
  \A k \in Indices : Exists(Visible, k, "chain") =>
    /\ Loads(Visible, k - 1)
    /\ Loads(Visible, k) <=> InTurn(k, Last(Visible[k]["chain"]).attestation.participant)

\* Candidate d, accepted at t, accounts for every file that index i holds.
Completes(tree, d, i, t) ==
  /\ Acceptable(tree, d, i - 1, t)
  /\ \A f \in Range(Files) : AbsentOrExact(tree, Accepted(tree, d, i - 1, t), f)

\* Whatever partial evidence an index holds, some acceptance can complete it
\* ("A complete or partial byte-identical prefix is resumable"): files of two
\* competing acceptances are never mixed under one index.
Resumable ==
  \A i \in Indices :
    DOMAIN Visible[i] # {} => \E d \in Dirs, t \in AcceptedAt : Completes(Visible, d, i, t)

-----------------------------------------------------------------------------
\* The inductive invariant behind NoFork, LoadsIfInTurn and Resumable.

IsChain(chain) == chain \in Seq(Range(chain))

\* A candidate was signed by a participant of the roster.
CandidatesInv ==
  /\ DOMAIN candidate = Dirs
  /\ \A d \in Dirs : candidate[d] # None =>
       /\ candidate[d] = [attestation |-> candidate[d].attestation,
                          destroyedAt |-> candidate[d].destroyedAt]
       /\ candidate[d].attestation.output = d
       /\ candidate[d].attestation.index \in Indices
       /\ candidate[d].attestation.participant \in Participants
       /\ candidate[d].attestation.contributedAt \in ContributedAt
       /\ candidate[d].destroyedAt \in DestroyedAt \cup {None}

\* Files appear under an index in the order of Files.
InOrder(tree) ==
  \A i \in Indices : \A a, b \in DOMAIN Files :
    a < b /\ Exists(tree, i, Files[b]) => Exists(tree, i, Files[a])

\* A chain document has all its prefixes below it.
Rooted(tree) ==
  \A i \in Indices : Exists(tree, i, "chain") =>
    /\ IsChain(tree[i]["chain"])
    /\ Len(tree[i]["chain"]) = i
    /\ \A j \in 1..i : Holds(tree, j, "chain", SubSeq(tree[i]["chain"], 1, j))

\* What every tree that a power loss can leave behind satisfies.
TreeInv(tree) ==
  /\ DOMAIN tree = Indices
  /\ \A i \in Indices : DOMAIN tree[i] \subseteq Range(Files)
  /\ InOrder(tree)
  /\ Rooted(tree)
  /\ \A i \in Indices :
       DOMAIN tree[i] # {} => \E d \in Dirs, t \in AcceptedAt : Completes(tree, d, i, t)

\* A running acceptance extends a chain that still loads, and every file it
\* has passed is the one it would have written.
AcceptorInv(c) ==
  /\ next[c] = <<>> => file[c] = 0
  /\ file[c] = 0 => ~linked[c]
  /\ next[c] # <<>> =>
       /\ IsChain(next[c])
       /\ Len(next[c]) \in Indices
       /\ \E d \in Dirs, t \in AcceptedAt :
            /\ Acceptable(Visible, d, Len(next[c]) - 1, t)
            /\ next[c] = Accepted(Visible, d, Len(next[c]) - 1, t)
       /\ \A a \in 1..file[c] : a < file[c] \/ linked[c] =>
            Holds(Visible, Len(next[c]), Files[a], Bytes(next[c], Files[a]))

ChainInv ==
  /\ CandidatesInv
  /\ disk \in Seq(Range(disk)) /\ disk # <<>>
  /\ \A s \in Range(disk) : TreeInv(s)
  /\ next \in [Acceptors -> Range(next)]
  /\ file \in [Acceptors -> 0..Len(Files)]
  /\ linked \in [Acceptors -> BOOLEAN]
  /\ \A c \in Acceptors : AcceptorInv(c)
=============================================================================
