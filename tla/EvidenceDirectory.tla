------------------------- MODULE EvidenceDirectory -------------------------
(***************************************************************************)
(* RecordBeaconFiles, SealPhase1Files and InitializePhase2Files publish a  *)
(* payload, a detached signature and the signed record into a directory of *)
(* their own: make or resume the directory, remove stale temporaries,      *)
(* check that every file is absent or exact, then publish payload,         *)
(* signature and record in that order.  A call that created the directory  *)
(* removes it again when it fails before anything was committed.           *)
(*                                                                         *)
(* disk is the history of the directory since the last fsync: its last     *)
(* element is what processes see, and a power loss keeps some prefix (the  *)
(* file system journals directory operations in order).                    *)
(***************************************************************************)
EXTENDS Naturals, Sequences, SequencesExt

CONSTANTS
  Coordinators,  \* coordinator processes running the command
  Payloads,      \* payload bytes (raw beacon response, commons, genesis)
  Stamps,        \* operator-supplied timestamps that enter the record
  None,          \* no file
  NoDir,         \* no directory
  Scenarios      \* who runs the command, with which inputs, and the bound on
                 \* failed calls, kills and power losses

VARIABLES
  scenario, \* the member of Scenarios this behaviour belongs to
  disk,     \* states of the directory since the last fsync
  temps,    \* processes whose temporary file is in the directory
  pc,       \* pc[p]: where p's command is
  input,    \* input[p]: what p's command publishes
  made,     \* made[p]: createdEvidence / createdOutput
  file,     \* file[p]: index in Files of the file being published
  result,   \* result[p]: what p's command returned
  faults,   \* faults still to come
  acked     \* inputs some command reported as recorded (history)

local == <<pc, input, made, file, result>>
vars == <<scenario, disk, temps, local, faults, acked>>

-----------------------------------------------------------------------------
\* Mutant of Files: the record is published before its signature.
RecordFirst == <<"payload", "record", "signature">>

\* The order of publication (writeSignedRecordNoReplace: signature first).
Files == <<"payload", "signature", "record">>

Inputs == [payload : Payloads, stamp : Stamps]

\* What the directory may hold, a missing directory apart.
Listings == [payload : Payloads \cup {None}, signature : Inputs \cup {None}, record : Inputs \cup {None}]

ASSUME NoneAssumption == None \notin Payloads \cup Inputs /\ NoDir \notin Listings

ASSUME ScenariosAssumption ==
  Scenarios \subseteq [running : SUBSET Coordinators, inputs : SUBSET Inputs, faults : Nat]

\* The coordinators that run the command, possibly at the same time.
running == scenario.running

\* The record and its signature depend on the whole input.
Bytes(v) == [payload |-> v.payload, signature |-> v, record |-> v]

EmptyDir == [payload |-> None, signature |-> None, record |-> None]

Visible == Last(disk)
Durable == Head(disk)

Modify(state) == disk' = Append(disk, state)
Fsync == disk' = <<Visible>>

Goto(p, step) ==
  /\ pc' = [pc EXCEPT ![p] = step]
  /\ UNCHANGED <<input, made, file, result, acked>>

Return(p, r) ==
  /\ pc' = [pc EXCEPT ![p] = "returned"]
  /\ result' = [result EXCEPT ![p] = r]
  /\ acked' = IF r = "ok" THEN acked \cup {input[p]} ELSE acked
  /\ UNCHANGED <<input, made, file>>

\* Mutant of Abort: a directory this command only resumed is removed too.
AbortResumed(p, r) ==
  IF r # "committed"
    THEN /\ pc' = [pc EXCEPT ![p] = "rollback"]
         /\ result' = [result EXCEPT ![p] = r]
         /\ UNCHANGED <<input, made, file, acked>>
    ELSE Return(p, r)

\* The deferred function of the command, run when it returns an error.
Abort(p, r) ==
  IF made[p] /\ r # "committed"
    THEN /\ pc' = [pc EXCEPT ![p] = "rollback"]
         /\ result' = [result EXCEPT ![p] = r]
         /\ UNCHANGED <<input, made, file, acked>>
    ELSE Return(p, r)

\* An operation of the operating system fails.
Fault ==
  /\ faults > 0
  /\ faults' = faults - 1

NoFault == UNCHANGED faults

\* The next file, or the end of the command.
Advance(p) ==
  IF file[p] = Len(Files)
    THEN Return(p, "ok")
    ELSE /\ pc' = [pc EXCEPT ![p] = "stage"]
         /\ file' = [file EXCEPT ![p] = @ + 1]
         /\ UNCHANGED <<input, made, result, acked>>

\* What is at f now; a missing directory has no files.
At(f) == IF Visible = NoDir THEN None ELSE Visible[f]

AbsentOrExact(p, f) == At(f) \in {None, Bytes(input[p])[f]}

Init ==
  /\ scenario \in Scenarios
  /\ disk = <<NoDir>>
  /\ temps = {}
  /\ pc = [p \in Coordinators |-> "idle"]
  /\ input = [p \in Coordinators |-> None]
  /\ made = [p \in Coordinators |-> FALSE]
  /\ file = [p \in Coordinators |-> 1]
  /\ result = [p \in Coordinators |-> "none"]
  /\ faults = scenario.faults
  /\ acked = {}

-----------------------------------------------------------------------------
\* makeOrResumePrivateDir: os.Mkdir succeeds or finds the directory there.
MakeOrResume(p, v) ==
  /\ pc[p] \in {"idle", "returned"}
  /\ input' = [input EXCEPT ![p] = v]
  /\ made' = [made EXCEPT ![p] = FALSE]
  /\ file' = [file EXCEPT ![p] = 1]
  /\ result' = [result EXCEPT ![p] = "none"]
  /\ IF Visible = NoDir
       THEN pc' = [pc EXCEPT ![p] = "made"] /\ Modify(EmptyDir)
       ELSE pc' = [pc EXCEPT ![p] = "scan"] /\ UNCHANGED disk
  /\ UNCHANGED <<temps, faults, acked>>

\* ... a fresh directory is fsynced into its parent; when that fails it is
\* removed again, which works only while it is empty, and the parent fsynced
\* if possible.
SyncMade(p) ==
  /\ pc[p] = "made"
  /\ UNCHANGED temps
  /\ \/ /\ Fsync
        /\ NoFault
        /\ pc' = [pc EXCEPT ![p] = "scan"]
        /\ made' = [made EXCEPT ![p] = TRUE]
        /\ UNCHANGED <<input, file, result, acked>>
     \/ /\ Fault
        /\ IF Visible = EmptyDir /\ temps = {}
             THEN disk' \in {<<NoDir>>, Append(disk, NoDir)}
             ELSE disk' \in {<<Visible>>, disk}
        /\ Return(p, "failed")

\* Mutant of Scan: a leftover temporary is an unexpected entry.
ScanRejecting(p) ==
  /\ pc[p] = "scan"
  /\ IF Visible = NoDir \/ temps # {} THEN Abort(p, "failed") ELSE Goto(p, "preflight")
  /\ NoFault
  /\ UNCHANGED <<disk, temps>>

\* requireDirectoryEntriesSubset removes every temporary it finds.
Scan(p) ==
  /\ pc[p] = "scan"
  /\ \/ /\ Visible = NoDir
        /\ Abort(p, "failed")
        /\ NoFault
        /\ UNCHANGED <<disk, temps>>
     \/ /\ Visible # NoDir
        /\ temps' = {}
        /\ NoFault
        /\ IF temps = {} THEN UNCHANGED disk ELSE Fsync
        /\ Goto(p, "preflight")
     \/ /\ Visible # NoDir
        /\ temps' = {}
        /\ Fault
        /\ Abort(p, "failed")
        /\ UNCHANGED disk

\* Every destination must be absent or exact before anything is published.
Preflight(p) ==
  /\ pc[p] = "preflight"
  /\ IF \A f \in Range(Files) : AbsentOrExact(p, f)
       THEN Goto(p, "stage")
       ELSE Abort(p, "conflict")
  /\ NoFault
  /\ UNCHANGED <<disk, temps>>

\* A temporary file for the next destination.  writeSignedRecordNoReplace
\* checks signature and record again before it publishes the signature.
Stage(p) ==
  /\ pc[p] = "stage"
  /\ UNCHANGED disk
  /\ \/ /\ Files[file[p]] = "signature"
        /\ ~(AbsentOrExact(p, "signature") /\ AbsentOrExact(p, "record"))
        /\ Abort(p, "conflict")
        /\ NoFault
        /\ UNCHANGED temps
     \/ /\ Files[file[p]] = "signature" => AbsentOrExact(p, "signature") /\ AbsentOrExact(p, "record")
        /\ \/ /\ Visible # NoDir
              /\ temps' = temps \cup {p}
              /\ Goto(p, "link")
              /\ NoFault
           \/ /\ Visible = NoDir
              /\ Abort(p, "failed")
              /\ NoFault
              /\ UNCHANGED temps
           \/ /\ Abort(p, "failed")
              /\ Fault
              /\ UNCHANGED temps

\* publishFileNoReplace up to the link: fails when the temporary is gone,
\* turns to the comparison when the name is taken.
Link(p) ==
  LET f == Files[file[p]] IN
  /\ pc[p] = "link"
  /\ temps' = temps \ {p}
  /\ \/ /\ p \notin temps
        /\ Abort(p, "failed")
        /\ NoFault
        /\ UNCHANGED disk
     \/ /\ p \in temps
        /\ At(f) = None
        /\ Modify([Visible EXCEPT ![f] = Bytes(input[p])[f]])
        /\ Goto(p, "sync")
        /\ NoFault
     \/ /\ p \in temps
        /\ At(f) # None
        /\ Goto(p, "compare")
        /\ NoFault
        /\ UNCHANGED disk
     \/ /\ Abort(p, "failed")
        /\ Fault
        /\ UNCHANGED disk

\* The destination is read back and the directory fsynced; a failure of
\* either is a committed publication error.
Sync(p) ==
  LET f == Files[file[p]] IN
  /\ pc[p] = "sync"
  /\ UNCHANGED temps
  /\ \/ /\ At(f) = Bytes(input[p])[f]
        /\ Fsync
        /\ Advance(p)
        /\ NoFault
     \/ /\ At(f) # Bytes(input[p])[f]
        /\ Abort(p, "committed")
        /\ NoFault
        /\ UNCHANGED disk
     \/ /\ Abort(p, "committed")
        /\ Fault
        /\ UNCHANGED disk

\* writeBytesNoReplaceOrExact after fs.ErrExist.
Compare(p) ==
  /\ pc[p] = "compare"
  /\ IF AbsentOrExact(p, Files[file[p]]) THEN Advance(p) ELSE Abort(p, "conflict")
  /\ NoFault
  /\ UNCHANGED <<disk, temps>>

\* os.RemoveAll of the whole directory, then a best-effort fsync of its parent.
Rollback(p) ==
  /\ pc[p] = "rollback"
  /\ temps' = {}
  /\ disk' \in {<<NoDir>>, IF Visible = NoDir THEN disk ELSE Append(disk, NoDir)}
  /\ Return(p, result[p])
  /\ NoFault

-----------------------------------------------------------------------------
\* The process is killed; its temporary stays in the directory.
Kill(p) ==
  /\ pc[p] \notin {"idle", "returned"}
  /\ Fault
  /\ pc' = [pc EXCEPT ![p] = "idle"]
  /\ result' = [result EXCEPT ![p] = "none"]
  /\ UNCHANGED <<disk, temps, input, made, file, acked>>

\* The machine stops: some prefix of the unsynced operations is on disk.
PowerLoss ==
  /\ Fault
  /\ \E i \in DOMAIN disk : disk' = <<disk[i]>>
  /\ temps' \in {{}, IF disk'[1] = NoDir THEN {} ELSE temps}
  /\ pc' = [p \in Coordinators |-> "idle"]
  /\ result' = [p \in Coordinators |-> "none"]
  /\ UNCHANGED <<input, made, file, acked>>

Start(p) == \E v \in scenario.inputs : MakeOrResume(p, v)

Step(p) ==
  \/ SyncMade(p)
  \/ Scan(p)
  \/ Preflight(p)
  \/ Stage(p)
  \/ Link(p)
  \/ Sync(p)
  \/ Compare(p)
  \/ Rollback(p)

Next ==
  /\ UNCHANGED scenario
  /\ \/ \E p \in running : Start(p) \/ Step(p) \/ Kill(p)
     \/ PowerLoss

Spec == Init /\ [][Next]_vars

\* A running command keeps going, and an operator who fails comes back to
\* every input used before.
Fairness ==
  \A p \in Coordinators :
    /\ WF_vars(p \in running /\ Step(p) /\ UNCHANGED scenario)
    /\ \A v \in Inputs : SF_vars(/\ p \in running /\ v \in scenario.inputs
                                /\ MakeOrResume(p, v) /\ UNCHANGED scenario)

FairSpec == Spec /\ Fairness

-----------------------------------------------------------------------------
\* Commands of several coordinators overlap in this behaviour.
Overlapping == \E p, q \in running : p # q

Steps == {"idle", "made", "scan", "preflight", "stage", "link", "sync", "compare",
          "rollback", "returned"}

\* Types: the directory's history is never empty and every command is at a
\* step the code has.
TypeOK ==
  /\ scenario \in Scenarios
  /\ disk \in Seq(Listings \cup {NoDir}) /\ disk # <<>>
  /\ temps \subseteq Coordinators
  /\ pc \in [Coordinators -> Steps]
  /\ input \in [Coordinators -> Inputs \cup {None}]
  /\ made \in [Coordinators -> BOOLEAN]
  /\ file \in [Coordinators -> DOMAIN Files]
  /\ result \in [Coordinators -> {"none", "ok", "failed", "conflict", "committed"}]
  /\ faults \in 0..scenario.faults
  /\ acked \subseteq Inputs

\* A record has its exact signature and payload.
Authenticated(d) ==
  d # NoDir /\ d.record # None => d.signature = d.record /\ d.payload = d.record.payload

\* What the directory has been since the last fsync.
History == Range(disk)

\* Unless commands overlap, a reader never finds a record without its exact
\* signature and payload, now or in anything a power loss may leave behind
\* (writeSignedRecordNoReplace publishes the signature first).
RecordIsAuthenticated ==
  ~Overlapping => \A d \in History : Authenticated(d)

RecordStays ==
  Durable # NoDir /\ Durable.record # None =>
    Durable' # NoDir /\ Durable'.record = Durable.record

\* A record that is on disk stays there for ever, unchanged.
DurableRecordIsPermanent == [][RecordStays]_vars

\* A coordinator that runs one command at a time never loses a record that is
\* on disk: no failing, repeated or crashing command rolls it back (makeOrResume
\* remembers who made the directory) or replaces it.
SoleRecordIsPermanent == [][~Overlapping => RecordStays]_vars

-----------------------------------------------------------------------------
\* The inductive invariant.  Underway(p): p's command has its directory and
\* has not returned.
Underway(p) == pc[p] \in {"scan", "preflight", "stage", "link", "sync", "compare"}
Publishing(p) == pc[p] \in {"stage", "link", "sync", "compare"}

\* What holds of any number of overlapping commands: a command that runs has an
\* input, and a temporary is in a directory that is there.
CommandsTyped ==
  /\ \A p \in Coordinators : pc[p] \notin {"idle", "returned"} => input[p] \in Inputs
  /\ temps # {} => Visible # NoDir

Unrecorded(d) == d = NoDir \/ d.record = None

\* A durable record is in everything that happened to the directory since.
DurableRecordKept ==
  ~Unrecorded(Durable) =>
    \A d \in History : d # NoDir /\ d.record = Durable.record

\* Where the command of p is, and what it has published so far.
SoleProgress(p) ==
  /\ pc[p] = "made" => Visible = EmptyDir
  /\ pc[p] \in {"made", "scan", "preflight"} => file[p] = 1
  /\ Underway(p) => Visible # NoDir
  /\ Publishing(p) =>
       \A j \in 1..3 : j < file[p] \/ (j = file[p] /\ pc[p] = "sync") =>
         Visible[Files[j]] = Bytes(input[p])[Files[j]]
  /\ pc[p] = "compare" => Visible[Files[file[p]]] # None

\* A directory that p made, and may remove again, holds no record until p has
\* linked it.
MadeIsUnrecorded(p) ==
  pc[p] = "rollback" \/ (made[p] /\ Underway(p) /\ ~(pc[p] = "sync" /\ file[p] = 3)) =>
    \A d \in History : Unrecorded(d)

SoleInv ==
  /\ \A p \in Coordinators \ running : pc[p] = "idle"
  /\ \A d \in History : Authenticated(d)
  /\ DurableRecordKept
  /\ \A p \in running : SoleProgress(p) /\ MadeIsUnrecorded(p)

EvidenceInv == TypeOK /\ CommandsTyped /\ (~Overlapping => SoleInv)

\* A sole operator who repeats a command with the inputs it was first given gets it
\* done in the end, from whatever partial prefix kills, failures and attempts
\* with other inputs left ("Retrying completes an exact signature-only prefix").
RetryCompletes == ~Overlapping => <>(acked # {})
=============================================================================
