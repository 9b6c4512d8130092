---------------------- MODULE EvidenceDirectory_proofs ----------------------
(***************************************************************************)
(* Proofs about EvidenceDirectory, for any number of coordinators, any     *)
(* payloads and timestamps, and any failures.                              *)
(*                                                                         *)
(* EvidenceInv says where each command is, that nothing the directory has  *)
(* been holds a record without its signature and payload, and that a       *)
(* directory a command may remove again holds no record; the last two as   *)
(* long as no two commands overlap.                                        *)
(***************************************************************************)
EXTENDS EvidenceDirectory, TLAPS

-----------------------------------------------------------------------------
\* The directory.

DirStates == Listings \cup {NoDir}

\* The history of the directory is never empty and holds states of the directory.
LEMMA DiskTyped ==
  ASSUME disk \in Seq(DirStates), disk # <<>>
  PROVE  /\ Visible \in DirStates /\ Durable \in DirStates /\ History \subseteq DirStates
         /\ Visible \in History /\ Durable \in History
<1>1. /\ Len(disk) \in Nat /\ Len(disk) # 0 /\ DOMAIN disk = 1..Len(disk)
      /\ \A i \in 1..Len(disk) : disk[i] \in DirStates
      /\ Head(disk) = disk[1]
  OBVIOUS
<1>2. /\ 1 \in DOMAIN disk /\ Len(disk) \in DOMAIN disk
  BY <1>1
<1> QED
  BY <1>1, <1>2 DEF Visible, Durable, History, Last, Range

\* A step that leaves the directory alone.
LEMMA DiskKept ==
  disk' = disk => Visible' = Visible /\ Durable' = Durable /\ History' = History
  BY DEF Visible, Durable, History

\* An fsync, a rollback or a power loss leaves one state.
LEMMA DiskSettled ==
  ASSUME NEW d \in DirStates, disk' = <<d>>
  PROVE  /\ (disk \in Seq(DirStates) /\ disk # <<>>)'
         /\ Visible' = d /\ Durable' = d /\ History' = {d}
<1>1. /\ Len(disk') = 1 /\ DOMAIN disk' = {1} /\ disk'[1] = d /\ Head(disk') = d
  OBVIOUS
<1> QED
  BY <1>1 DEF Visible, Durable, History, Last, Range

\* A directory operation adds a state.
LEMMA DiskGrows ==
  ASSUME disk \in Seq(DirStates), disk # <<>>, NEW d \in DirStates, Modify(d)
  PROVE  /\ (disk \in Seq(DirStates) /\ disk # <<>>)'
         /\ Visible' = d /\ Durable' = Durable /\ History' = History \cup {d}
<1>1. /\ Len(disk) \in Nat /\ Len(disk) # 0 /\ DOMAIN disk = 1..Len(disk)
      /\ Head(disk) = disk[1]
  OBVIOUS
<1>2. /\ disk' \in Seq(DirStates) /\ Len(disk') = Len(disk) + 1
      /\ DOMAIN disk' = 1..(Len(disk) + 1)
      /\ \A i \in 1..Len(disk) : disk'[i] = disk[i]
      /\ disk'[Len(disk) + 1] = d
  BY DEF Modify
<1>3. /\ disk' # <<>> /\ Head(disk') = disk[1]
  BY <1>1, <1>2
<1>4. Range(disk') = Range(disk) \cup {d}
  <2>1. \A i \in DOMAIN disk' : i \in DOMAIN disk \/ i = Len(disk) + 1
    BY <1>1, <1>2
  <2>2. DOMAIN disk \subseteq DOMAIN disk' /\ Len(disk) + 1 \in DOMAIN disk'
    BY <1>1, <1>2
  <2> QED
    BY <1>1, <1>2, <2>1, <2>2 DEF Range
<1> QED
  BY <1>1, <1>2, <1>3, <1>4 DEF Visible, Durable, History, Last

-----------------------------------------------------------------------------
\* The files of the directory, in the order of their publication.
LEMMA FilesFact ==
  /\ DOMAIN Files = 1..3 /\ Len(Files) = 3
  /\ Range(Files) = {"payload", "signature", "record"}
  /\ Files[1] = "payload" /\ Files[2] = "signature" /\ Files[3] = "record"
<1>1. DOMAIN Files = 1..3 /\ Len(Files) = 3
      /\ Files[1] = "payload" /\ Files[2] = "signature" /\ Files[3] = "record"
  BY DEF Files
<1>2. Range(Files) = {"payload", "signature", "record"}
  <2>1. \A x \in 1..3 : x = 1 \/ x = 2 \/ x = 3
    OBVIOUS
  <2> QED
    BY <1>1, <2>1 DEF Range
<1> QED
  BY <1>1, <1>2

\* The directory with file f published from input v.
Linked(d, f, v) == [d EXCEPT ![f] = Bytes(v)[f]]

\* The empty directory and what a publication makes of one.
LEMMA DirFact ==
  /\ EmptyDir \in Listings /\ EmptyDir.record = None
  /\ \A d \in Listings, v \in Inputs :
       /\ /\ Linked(d, "payload", v) \in Listings
          /\ Linked(d, "payload", v).payload = v.payload
          /\ Linked(d, "payload", v).signature = d.signature
          /\ Linked(d, "payload", v).record = d.record
       /\ /\ Linked(d, "signature", v) \in Listings
          /\ Linked(d, "signature", v).payload = d.payload
          /\ Linked(d, "signature", v).signature = v
          /\ Linked(d, "signature", v).record = d.record
       /\ /\ Linked(d, "record", v) \in Listings
          /\ Linked(d, "record", v).payload = d.payload
          /\ Linked(d, "record", v).signature = d.signature
          /\ Linked(d, "record", v).record = v
  BY DEF EmptyDir, Listings, Linked, Bytes, Inputs

\* What each file of input v holds.
LEMMA BytesFact ==
  \A v \in Inputs :
    /\ Bytes(v)["payload"] = v.payload /\ Bytes(v)["signature"] = v /\ Bytes(v)["record"] = v
    /\ v.payload \in Payloads /\ v.payload # None /\ v # None
  BY NoneAssumption DEF Bytes, Inputs

\* Every file a command is at can be linked in a directory that is there.
LEMMA LinkTyped ==
  ASSUME NEW d \in Listings, NEW v \in Inputs, NEW k \in DOMAIN Files
  PROVE  Linked(d, Files[k], v) \in Listings
<1>1. k = 1 \/ k = 2 \/ k = 3
  BY FilesFact
<1> QED
  BY <1>1, FilesFact, DirFact

-----------------------------------------------------------------------------
\* Type correctness, for any number of overlapping commands.
TypeInv == TypeOK /\ CommandsTyped

\* The command of p runs on, or returns, with a typed local state.
LocalTyped ==
  /\ pc \in [Coordinators -> Steps]
  /\ input \in [Coordinators -> Inputs \cup {None}]
  /\ made \in [Coordinators -> BOOLEAN]
  /\ file \in [Coordinators -> DOMAIN Files]
  /\ result \in [Coordinators -> {"none", "ok", "failed", "conflict", "committed"}]
  /\ acked \subseteq Inputs
  /\ \A p \in Coordinators : pc[p] \notin {"idle", "returned"} => input[p] \in Inputs

\* The ways a step of a command ends.
LEMMA LocalSteps ==
  ASSUME LocalTyped, NEW p \in Coordinators, pc[p] \notin {"idle", "returned"}
  PROVE  /\ \A s \in {"made", "scan", "preflight", "stage", "link", "sync", "compare"} :
              Goto(p, s) => LocalTyped'
         /\ \A r \in {"ok", "failed", "conflict", "committed"} :
              (Return(p, r) => LocalTyped') /\ (Abort(p, r) => LocalTyped')
         /\ Advance(p) => LocalTyped'
<1>1. ASSUME NEW s \in {"made", "scan", "preflight", "stage", "link", "sync", "compare"},
    Goto(p, s)
      PROVE  LocalTyped'
  BY <1>1 DEF LocalTyped, Steps, Goto
<1>2. ASSUME NEW r \in {"ok", "failed", "conflict", "committed"}, Return(p, r)
      PROVE  LocalTyped'
  BY <1>2 DEF LocalTyped, Steps, Return
<1>3. ASSUME NEW r \in {"ok", "failed", "conflict", "committed"}, Abort(p, r)
      PROVE  LocalTyped'
  BY <1>2, <1>3 DEF LocalTyped, Steps, Abort
<1>4. ASSUME Advance(p) PROVE LocalTyped'
  <2>1. CASE file[p] = Len(Files)
    BY <1>2, <1>4, <2>1 DEF Advance
  <2>2. CASE file[p] # Len(Files)
    <3>1. file[p] \in 1..3 /\ file[p] + 1 \in DOMAIN Files
      BY <2>2, FilesFact DEF LocalTyped, Steps
    <3> QED
      BY <1>4, <2>2, <3>1 DEF LocalTyped, Steps, Advance
  <2> QED
    BY <2>1, <2>2
<1> QED
  BY <1>1, <1>2, <1>3, <1>4

\* What TypeInv says besides the local state of the commands.
DiskTypedInv ==
  /\ scenario \in Scenarios
  /\ disk \in Seq(DirStates) /\ disk # <<>>
  /\ temps \subseteq Coordinators
  /\ temps # {} => Visible # NoDir
  /\ faults \in 0..scenario.faults

\* TypeInv is the two together.
LEMMA TypeInvParts == TypeInv <=> LocalTyped /\ DiskTypedInv
  BY DEF TypeInv, TypeOK, CommandsTyped, LocalTyped, DiskTypedInv, DirStates

\* An operating system failure is counted, anything else is not.
LEMMA FaultTyped ==
  ASSUME scenario \in Scenarios, faults \in 0..scenario.faults, UNCHANGED scenario,
         Fault \/ NoFault
  PROVE  faults' \in 0..scenario'.faults
<1>1. scenario.faults \in Nat
  BY ScenariosAssumption
<1> QED
  BY <1>1 DEF Fault, NoFault

\* The initial state.
LEMMA InitTyped == Init => TypeInv
<1> SUFFICES ASSUME Init PROVE LocalTyped /\ DiskTypedInv
  BY TypeInvParts
<1>1. LocalTyped
  BY FilesFact DEF Init, LocalTyped, Steps
<1>2. DiskTypedInv
  <2>1. scenario \in Scenarios /\ scenario.faults \in Nat
    BY ScenariosAssumption DEF Init
  <2> QED
    BY <2>1 DEF Init, DiskTypedInv, DirStates
<1> QED
  BY <1>1, <1>2

\* Every step of a command, a kill and a power loss.
LEMMA StepTyped ==
  ASSUME TypeInv, NEW p \in Coordinators, UNCHANGED scenario, Start(p) \/ Step(p) \/ Kill(p)
  PROVE  TypeInv'
<1> SUFFICES LocalTyped' /\ DiskTypedInv'
  BY DEF TypeInv, TypeOK, CommandsTyped, LocalTyped, DiskTypedInv, DirStates
<1>0. LocalTyped /\ DiskTypedInv
  BY TypeInvParts
<1>i. scenario.inputs \subseteq Inputs
  BY <1>0, ScenariosAssumption DEF DiskTypedInv
<1>d. /\ Visible \in DirStates /\ Durable \in DirStates
      /\ disk \in Seq(DirStates) /\ disk # <<>>
  BY <1>0, DiskTyped DEF DiskTypedInv
<1>k. ASSUME disk' = disk, temps' \subseteq temps \cup {p}, Fault \/ NoFault,
             temps' # {} => Visible # NoDir
      PROVE  DiskTypedInv'
  BY <1>0, <1>k, DiskKept, FaultTyped DEF DiskTypedInv
<1>s. ASSUME NEW d \in DirStates, disk' = <<d>>, temps' \subseteq temps, Fault \/ NoFault,
             temps' # {} => d # NoDir
      PROVE  DiskTypedInv'
  BY <1>0, <1>s, DiskSettled, FaultTyped DEF DiskTypedInv
<1>g. ASSUME NEW d \in DirStates, Modify(d), temps' \subseteq temps, Fault \/ NoFault,
             temps' # {} => d # NoDir
      PROVE  DiskTypedInv'
  BY <1>0, <1>g, <1>d, DiskGrows, FaultTyped DEF DiskTypedInv
<1>f. ASSUME Fsync, temps' \subseteq temps, Fault \/ NoFault PROVE DiskTypedInv'
  BY <1>0, <1>d, <1>f, <1>s DEF Fsync, DiskTypedInv
<1>e. EmptyDir \in DirStates /\ EmptyDir # NoDir /\ NoDir \in DirStates
  BY DirFact, NoneAssumption DEF DirStates
<1>1. ASSUME NEW v \in scenario.inputs, MakeOrResume(p, v) PROVE LocalTyped' /\ DiskTypedInv'
  <2>1. LocalTyped'
    BY <1>0, <1>1, <1>i, FilesFact DEF MakeOrResume, LocalTyped, Steps
  <2>2. DiskTypedInv'
    <3>1. CASE Visible = NoDir
      BY <1>0, <1>1, <1>e, <1>g, <3>1 DEF MakeOrResume, NoFault
    <3>2. CASE Visible # NoDir
      BY <1>0, <1>1, <1>k, <3>2 DEF MakeOrResume, NoFault
    <3> QED
      BY <3>1, <3>2
  <2> QED
    BY <2>1, <2>2
<1>2. ASSUME SyncMade(p) PROVE LocalTyped' /\ DiskTypedInv'
  <2>1. CASE Fsync /\ NoFault /\ pc' = [pc EXCEPT ![p] = "scan"]
             /\ made' = [made EXCEPT ![p] = TRUE] /\ UNCHANGED <<input, file, result, acked>>
    <3>1. LocalTyped'
      BY <1>0, <1>2, <2>1 DEF LocalTyped, Steps, SyncMade
    <3> QED
      BY <1>2, <1>f, <2>1, <3>1 DEF SyncMade
  <2>2. CASE Fault /\ Return(p, "failed")
    <3>1. LocalTyped'
      BY <1>0, <1>2, <2>2, LocalSteps DEF SyncMade
    <3>2. UNCHANGED temps
      BY <1>2 DEF SyncMade
    <3>3. \/ temps = {} /\ disk' = <<NoDir>>
          \/ temps = {} /\ Modify(NoDir)
          \/ disk' = <<Visible>>
          \/ disk' = disk
      BY <1>0, <1>2, <2>2 DEF SyncMade, Modify, Fsync, LocalTyped, Steps
    <3>4. DiskTypedInv'
      BY <1>0, <1>d, <1>e, <1>k, <1>s, <1>g, <2>2, <3>2, <3>3 DEF DiskTypedInv
    <3> QED
      BY <3>1, <3>4
  <2> QED
    BY <1>2, <2>1, <2>2 DEF SyncMade
<1>3. ASSUME Scan(p) PROVE LocalTyped' /\ DiskTypedInv'
  <2>1. LocalTyped'
    BY <1>0, <1>3, LocalSteps DEF Scan
  <2>2. DiskTypedInv'
    BY <1>0, <1>3, <1>f, <1>k DEF Scan, DiskTypedInv
  <2> QED
    BY <2>1, <2>2
<1>4. ASSUME Preflight(p) PROVE LocalTyped' /\ DiskTypedInv'
  <2>1. LocalTyped'
    BY <1>0, <1>4, LocalSteps DEF Preflight
  <2>2. DiskTypedInv'
    BY <1>0, <1>4, <1>k DEF Preflight, DiskTypedInv
  <2> QED
    BY <2>1, <2>2
<1>5. ASSUME Stage(p) PROVE LocalTyped' /\ DiskTypedInv'
  <2>1. LocalTyped'
    BY <1>0, <1>5, LocalSteps DEF Stage
  <2>2. DiskTypedInv'
    BY <1>0, <1>5, <1>k DEF Stage, DiskTypedInv
  <2> QED
    BY <2>1, <2>2
<1>6. ASSUME Link(p) PROVE LocalTyped' /\ DiskTypedInv'
  <2>1. LocalTyped'
    BY <1>0, <1>6, LocalSteps DEF Link
  <2>2. temps' = temps \ {p} /\ pc[p] = "link"
    BY <1>6 DEF Link
  <2>3. CASE p \in temps /\ Modify(Linked(Visible, Files[file[p]], input[p])) /\ NoFault
    <3>1. Visible # NoDir /\ Visible \in Listings
      BY <1>0, <1>d, <2>3 DEF DiskTypedInv, DirStates
    <3>2. input[p] \in Inputs /\ file[p] \in DOMAIN Files
      BY <1>0, <2>2 DEF LocalTyped, Steps
    <3>3. Linked(Visible, Files[file[p]], input[p]) \in Listings
      BY <3>1, <3>2, LinkTyped
    <3>4. Linked(Visible, Files[file[p]], input[p]) \in DirStates
          /\ Linked(Visible, Files[file[p]], input[p]) # NoDir
      BY <3>3, NoneAssumption DEF DirStates
    <3> QED
      BY <1>g, <2>1, <2>2, <2>3, <3>4
  <2>4. CASE UNCHANGED disk /\ (Fault \/ NoFault)
    BY <1>0, <1>k, <2>1, <2>2, <2>4 DEF DiskTypedInv
  <2> QED
    BY <1>6, <2>3, <2>4 DEF Link, Linked
<1>7. ASSUME Sync(p) PROVE LocalTyped' /\ DiskTypedInv'
  <2>1. LocalTyped'
    BY <1>0, <1>7, LocalSteps DEF Sync
  <2>2. DiskTypedInv'
    BY <1>0, <1>7, <1>f, <1>k DEF Sync, DiskTypedInv
  <2> QED
    BY <2>1, <2>2
<1>8. ASSUME Compare(p) PROVE LocalTyped' /\ DiskTypedInv'
  <2>1. LocalTyped'
    BY <1>0, <1>8, LocalSteps DEF Compare
  <2>2. DiskTypedInv'
    BY <1>0, <1>8, <1>k DEF Compare, DiskTypedInv
  <2> QED
    BY <2>1, <2>2
<1>9. ASSUME Rollback(p) PROVE LocalTyped' /\ DiskTypedInv'
  <2>1. LocalTyped'
    BY <1>0, <1>9 DEF Rollback, Return, LocalTyped, Steps
  <2>2. temps' = {} /\ NoFault /\ (disk' = <<NoDir>> \/ disk' = disk \/ Modify(NoDir))
    BY <1>9 DEF Rollback, Modify
  <2>3. DiskTypedInv'
    BY <1>e, <1>k, <1>s, <1>g, <2>2
  <2> QED
    BY <2>1, <2>3
<1>10. ASSUME Kill(p) PROVE LocalTyped' /\ DiskTypedInv'
  <2>1. LocalTyped'
    BY <1>0, <1>10 DEF Kill, LocalTyped, Steps
  <2>2. DiskTypedInv'
    BY <1>0, <1>10, <1>k DEF Kill, DiskTypedInv
  <2> QED
    BY <2>1, <2>2
<1> QED
  BY <1>1, <1>2, <1>3, <1>4, <1>5, <1>6, <1>7, <1>8, <1>9, <1>10 DEF Start, Step

\* A power loss.
LEMMA PowerLossTyped ==
  ASSUME TypeInv, UNCHANGED scenario, PowerLoss
  PROVE  TypeInv'
<1> SUFFICES LocalTyped' /\ DiskTypedInv'
  BY DEF TypeInv, TypeOK, CommandsTyped, LocalTyped, DiskTypedInv, DirStates
<1>0. LocalTyped /\ DiskTypedInv
  BY TypeInvParts
<1>1. LocalTyped'
  BY <1>0 DEF PowerLoss, LocalTyped, Steps
<1>2. PICK d \in History : disk' = <<d>>
  BY DEF PowerLoss, History, Range
<1>3. d \in DirStates
  BY <1>0, DiskTyped DEF DiskTypedInv
<1>4. disk'[1] = d /\ temps' \subseteq temps /\ (temps' # {} => d # NoDir)
  BY <1>2 DEF PowerLoss
<1>5. DiskTypedInv'
  BY <1>0, <1>2, <1>3, <1>4, DiskSettled, FaultTyped DEF PowerLoss, DiskTypedInv
<1> QED
  BY <1>1, <1>5

\* Every step is typed.
LEMMA NextTyped == TypeInv /\ [Next]_vars => TypeInv'
<1> SUFFICES ASSUME TypeInv, [Next]_vars PROVE TypeInv'
  OBVIOUS
<1>1. running \subseteq Coordinators
  BY ScenariosAssumption DEF TypeInv, TypeOK, running
<1>2. CASE UNCHANGED vars
  BY <1>2, DiskKept DEF vars, local, TypeInv, TypeOK, CommandsTyped
<1> QED
  BY <1>1, <1>2, StepTyped, PowerLossTyped DEF Next

-----------------------------------------------------------------------------
\* A sole coordinator.

\* The steps that leave the directory as it is seen, and those that settle it: a
\* step that only fsyncs or repeats what is seen keeps what SoleInv says of it.
LEMMA SeenKept ==
  ASSUME TypeInv, disk' = disk \/ Fsync,
         \A d \in History : Authenticated(d), DurableRecordKept
  PROVE  /\ Visible' = Visible
         /\ \A d \in History' : Authenticated(d)
         /\ \A d \in History' : d \in History
         /\ DurableRecordKept' /\ RecordStays
<1>1. /\ disk \in Seq(DirStates) /\ disk # <<>>
  BY DEF TypeInv, TypeOK, DirStates
<1>2. Visible \in DirStates /\ Visible \in History
  BY <1>1, DiskTyped
<1>3. CASE disk' = disk
  BY <1>3, DiskKept DEF DurableRecordKept, Unrecorded, RecordStays
<1>4. CASE Fsync
  <2>1. Visible' = Visible /\ Durable' = Visible /\ History' = {Visible}
    BY <1>2, <1>4, DiskSettled DEF Fsync
  <2> QED
    BY <1>2, <2>1 DEF DurableRecordKept, Unrecorded, RecordStays
<1> QED
  BY <1>3, <1>4

\* SoleInv after a step of p's command, from what the step does to the directory
\* and to p.
LEMMA SoleAgain ==
  ASSUME TypeInv, SoleInv, ~Overlapping, NEW p \in running, UNCHANGED scenario,
         \A q \in Coordinators : q # p => pc'[q] = pc[q],
         \A d \in History' : Authenticated(d), DurableRecordKept',
         SoleProgress(p)', MadeIsUnrecorded(p)'
  PROVE  SoleInv'
<1>1. running' = running /\ \A q \in running : q = p
  BY DEF running, Overlapping
<1> QED
  BY <1>1 DEF SoleInv

\* A command that ends, with or without its rollback still to come.
LEMMA SoleEnds ==
  ASSUME TypeInv, SoleInv, NEW p \in running, p \in Coordinators,
         pc[p] \in {"scan", "preflight", "stage", "link", "compare"},
         NEW r \in {"failed", "conflict"}, Abort(p, r),
         \A d \in History' : d \in History
  PROVE  /\ SoleProgress(p)' /\ MadeIsUnrecorded(p)'
         /\ \A q \in Coordinators : q # p => pc'[q] = pc[q]
<1>1. pc \in [Coordinators -> Steps]
  BY DEF TypeInv, TypeOK
<1>2. CASE made[p]
  <2>1. pc'[p] = "rollback" /\ \A q \in Coordinators : q # p => pc'[q] = pc[q]
    BY <1>1, <1>2 DEF Abort
  <2>2. \A d \in History : Unrecorded(d)
    BY <1>2 DEF SoleInv, MadeIsUnrecorded, Underway
  <2> QED
    BY <2>1, <2>2 DEF SoleProgress, MadeIsUnrecorded, Underway, Publishing, Unrecorded
<1>3. CASE ~made[p]
  <2>1. pc'[p] = "returned" /\ \A q \in Coordinators : q # p => pc'[q] = pc[q]
    BY <1>1, <1>3 DEF Abort, Return
  <2> QED
    BY <2>1 DEF SoleProgress, MadeIsUnrecorded, Underway, Publishing
<1> QED
  BY <1>2, <1>3

\* A command that returns, or is killed.
LEMMA SoleReturns ==
  ASSUME TypeInv, NEW p \in Coordinators, pc'[p] \in {"returned", "idle"}
  PROVE  SoleProgress(p)' /\ MadeIsUnrecorded(p)'
  BY DEF SoleProgress, MadeIsUnrecorded, Underway, Publishing

\* makeOrResumePrivateDir by a sole coordinator.
LEMMA SoleMakeOrResume ==
  ASSUME TypeInv, SoleInv, ~Overlapping, NEW p \in running, p \in Coordinators,
         UNCHANGED scenario, NEW v \in Inputs, MakeOrResume(p, v)
  PROVE  SoleInv' /\ RecordStays
<1>1. /\ pc \in [Coordinators -> Steps] /\ file \in [Coordinators -> DOMAIN Files]
      /\ made \in [Coordinators -> BOOLEAN]
      /\ disk \in Seq(DirStates) /\ disk # <<>>
  BY DEF TypeInv, TypeOK, DirStates
<1>2. /\ \A q \in Coordinators : q # p => pc'[q] = pc[q]
      /\ made'[p] = FALSE /\ file'[p] = 1
  BY <1>1 DEF MakeOrResume
<1>3. CASE Visible = NoDir
  <2>1. pc'[p] = "made" /\ Modify(EmptyDir)
    BY <1>1, <1>3 DEF MakeOrResume
  <2>2. EmptyDir \in DirStates /\ EmptyDir.record = None
    BY DirFact DEF DirStates
  <2>3. Visible' = EmptyDir /\ Durable' = Durable /\ History' = History \cup {EmptyDir}
    BY <1>1, <2>1, <2>2, DiskGrows
  <2>4. Visible \in History
    BY <1>1, DiskTyped
  <2>5. DurableRecordKept'
    BY <1>3, <2>2, <2>3, <2>4 DEF SoleInv, DurableRecordKept, Unrecorded
  <2>6. \A d \in History' : Authenticated(d)
    BY <2>2, <2>3 DEF SoleInv, Authenticated
  <2>7. SoleProgress(p)' /\ MadeIsUnrecorded(p)'
    BY <1>2, <2>1, <2>3 DEF SoleProgress, MadeIsUnrecorded, Underway, Publishing
  <2> QED
    BY <1>2, <2>3, <2>5, <2>6, <2>7, SoleAgain DEF RecordStays
<1>4. CASE Visible # NoDir
  <2>1. pc'[p] = "scan" /\ disk' = disk
    BY <1>1, <1>4 DEF MakeOrResume
  <2>2. /\ Visible' = Visible /\ DurableRecordKept' /\ RecordStays
        /\ \A d \in History' : Authenticated(d)
    BY <2>1, SeenKept DEF SoleInv
  <2>3. SoleProgress(p)' /\ MadeIsUnrecorded(p)'
    BY <1>2, <1>4, <2>1, <2>2 DEF SoleProgress, MadeIsUnrecorded, Underway, Publishing
  <2> QED
    BY <1>2, <2>2, <2>3, SoleAgain
<1> QED
  BY <1>3, <1>4

\* ... the fsync of its parent.
LEMMA SoleSyncMade ==
  ASSUME TypeInv, SoleInv, ~Overlapping, NEW p \in running, p \in Coordinators,
         UNCHANGED scenario, SyncMade(p)
  PROVE  SoleInv' /\ RecordStays
<1>1. /\ pc \in [Coordinators -> Steps] /\ file \in [Coordinators -> DOMAIN Files]
      /\ made \in [Coordinators -> BOOLEAN]
      /\ disk \in Seq(DirStates) /\ disk # <<>>
  BY DEF TypeInv, TypeOK, DirStates
<1>2. Visible = EmptyDir /\ file[p] = 1 /\ pc[p] = "made"
  BY DEF SyncMade, SoleInv, SoleProgress
<1>3. /\ EmptyDir \in DirStates /\ EmptyDir.record = None /\ EmptyDir # NoDir
      /\ NoDir \in DirStates /\ Visible \in History
  BY <1>1, DirFact, DiskTyped, NoneAssumption DEF DirStates
<1>4. Unrecorded(Durable)
  BY <1>2, <1>3 DEF SoleInv, DurableRecordKept, Unrecorded
<1>5. RecordStays
  BY <1>4 DEF RecordStays, Unrecorded
<1>6. CASE Fsync /\ pc' = [pc EXCEPT ![p] = "scan"]
           /\ made' = [made EXCEPT ![p] = TRUE] /\ UNCHANGED <<input, file, result, acked>>
  <2>1. Visible' = EmptyDir /\ Durable' = EmptyDir /\ History' = {EmptyDir}
    BY <1>2, <1>3, <1>6, DiskSettled DEF Fsync
  <2>2. /\ pc'[p] = "scan" /\ file'[p] = 1
        /\ \A q \in Coordinators : q # p => pc'[q] = pc[q]
    BY <1>1, <1>2, <1>6
  <2>3. DurableRecordKept' /\ \A d \in History' : Authenticated(d)
    BY <1>3, <2>1 DEF DurableRecordKept, Unrecorded, Authenticated
  <2>4. SoleProgress(p)' /\ MadeIsUnrecorded(p)'
    BY <1>3, <2>1, <2>2 DEF SoleProgress, MadeIsUnrecorded, Underway, Publishing, Unrecorded
  <2> QED
    BY <1>5, <2>2, <2>3, <2>4, SoleAgain
<1>7. CASE Return(p, "failed") /\ (disk' = <<NoDir>> \/ Modify(NoDir) \/ Fsync \/ disk' = disk)
  <2>1. /\ pc'[p] = "returned"
        /\ \A q \in Coordinators : q # p => pc'[q] = pc[q]
    BY <1>1, <1>7 DEF Return
  <2>2. CASE disk' = <<NoDir>>
    <3>1. Visible' = NoDir /\ Durable' = NoDir /\ History' = {NoDir}
      BY <1>3, <2>2, DiskSettled
    <3> QED
      BY <1>5, <2>1, <3>1, SoleReturns, SoleAgain
      DEF DurableRecordKept, Unrecorded, Authenticated
  <2>3. CASE Modify(NoDir)
    <3>1. Durable' = Durable /\ History' = History \cup {NoDir}
      BY <1>1, <1>3, <2>3, DiskGrows
    <3>2. DurableRecordKept' /\ \A d \in History' : Authenticated(d)
      BY <1>4, <3>1 DEF SoleInv, DurableRecordKept, Unrecorded, Authenticated
    <3> QED
      BY <1>5, <2>1, <3>2, SoleReturns, SoleAgain
  <2>4. CASE Fsync \/ disk' = disk
    <3>1. DurableRecordKept' /\ \A d \in History' : Authenticated(d)
      BY <2>4, SeenKept DEF SoleInv
    <3> QED
      BY <1>5, <2>1, <3>1, SoleReturns, SoleAgain
  <2> QED
    BY <1>7, <2>2, <2>3, <2>4
<1> QED
  BY <1>6, <1>7 DEF SyncMade, Modify, Fsync

\* requireDirectoryEntriesSubset, the preflight and the staging of a file: the
\* directory looks the same afterwards.
LEMMA SoleScanToStage ==
  ASSUME TypeInv, SoleInv, ~Overlapping, NEW p \in running, p \in Coordinators,
         UNCHANGED scenario, Scan(p) \/ Preflight(p) \/ Stage(p)
  PROVE  SoleInv' /\ RecordStays
<1>1. /\ pc \in [Coordinators -> Steps] /\ file \in [Coordinators -> DOMAIN Files]
      /\ pc[p] \in {"scan", "preflight", "stage"}
  BY DEF TypeInv, TypeOK, Scan, Preflight, Stage
<1>2. disk' = disk \/ Fsync
  BY DEF Scan, Preflight, Stage
<1>3. /\ Visible' = Visible /\ DurableRecordKept' /\ RecordStays
      /\ \A d \in History' : Authenticated(d)
      /\ \A d \in History' : d \in History
  BY <1>2, SeenKept DEF SoleInv
<1>4. CASE Abort(p, "failed") \/ Abort(p, "conflict")
  BY <1>1, <1>3, <1>4, SoleEnds, SoleAgain
<1>5. ASSUME NEW s \in {"preflight", "stage", "link"}, Goto(p, s),
             s = "preflight" => pc[p] = "scan",
             s = "stage" => pc[p] = "preflight",
             s = "link" => pc[p] = "stage"
      PROVE  SoleInv' /\ RecordStays
  <2>1. /\ pc'[p] = s /\ file' = file /\ made' = made /\ input' = input
        /\ \A q \in Coordinators : q # p => pc'[q] = pc[q]
    BY <1>1, <1>5 DEF Goto
  <2>2. SoleProgress(p) /\ MadeIsUnrecorded(p)
    BY DEF SoleInv
  <2>3. s = "preflight" => file[p] = 1
    BY <1>5, <2>2 DEF SoleProgress
  <2>4. Visible # NoDir
    BY <1>1, <2>2 DEF SoleProgress, Underway
  <2>5. \A j \in 1..3 : j < file[p] => Visible[Files[j]] = Bytes(input[p])[Files[j]]
    <3>1. CASE pc[p] = "stage"
      BY <2>2, <3>1 DEF SoleProgress, Publishing
    <3>2. CASE pc[p] # "stage"
      BY <1>1, <2>2, <3>2 DEF SoleProgress
    <3> QED
      BY <3>1, <3>2
  <2>6. SoleProgress(p)'
    BY <1>3, <1>5, <2>1, <2>3, <2>4, <2>5 DEF SoleProgress, Underway, Publishing
  <2>7. MadeIsUnrecorded(p)'
    BY <1>1, <1>3, <1>5, <2>1, <2>2 DEF MadeIsUnrecorded, Underway
  <2> QED
    BY <1>3, <2>1, <2>6, <2>7, SoleAgain
<1>6. CASE Scan(p)
  BY <1>4, <1>5, <1>6 DEF Scan
<1>7. CASE Preflight(p)
  BY <1>4, <1>5, <1>7 DEF Preflight
<1>8. CASE Stage(p)
  BY <1>4, <1>5, <1>8 DEF Stage
<1> QED
  BY <1>6, <1>7, <1>8

\* A directory in which p's command may link file f has no record yet, and a
\* record it links has its signature and payload.
LEMMA SoleLinked ==
  ASSUME TypeInv, SoleInv, NEW p \in running, p \in Coordinators, pc[p] = "link",
         At(Files[file[p]]) = None
  PROVE  /\ Visible \in Listings /\ Visible # NoDir /\ Visible.record = None
         /\ Linked(Visible, Files[file[p]], input[p]) \in Listings
         /\ Authenticated(Linked(Visible, Files[file[p]], input[p]))
         /\ file[p] # 3 => Linked(Visible, Files[file[p]], input[p]).record = None
         /\ \A j \in 1..3 : j <= file[p] =>
              Linked(Visible, Files[file[p]], input[p])[Files[j]] = Bytes(input[p])[Files[j]]
<1> DEFINE L == Linked(Visible, Files[file[p]], input[p])
<1>1. input[p] \in Inputs /\ file[p] \in 1..3
  BY FilesFact DEF TypeInv, TypeOK, CommandsTyped
<1>2. disk \in Seq(DirStates) /\ disk # <<>>
  BY DEF TypeInv, TypeOK, DirStates
<1>3. SoleProgress(p)
  BY DEF SoleInv
<1>4. Visible # NoDir
  BY <1>3 DEF SoleProgress, Underway
<1>5. Visible \in Listings /\ Visible \in History
  BY <1>2, <1>4, DiskTyped DEF DirStates
<1>6. Authenticated(Visible)
  BY <1>5 DEF SoleInv
<1>7. \A j \in 1..3 : j < file[p] => Visible[Files[j]] = Bytes(input[p])[Files[j]]
  BY <1>3 DEF SoleProgress, Publishing
<1>8. Visible[Files[file[p]]] = None
  BY <1>4 DEF At
<1>9. Visible.record \in Inputs => Visible.signature # None /\ Visible.payload # None
  BY <1>4, <1>6, BytesFact DEF Authenticated
<1>10. CASE file[p] = 1
  <2>1. Visible.payload = None
    BY <1>8, <1>10, FilesFact
  <2>2. Visible.record = None
    BY <1>5, <1>9, <2>1 DEF Listings
  <2>3. L = Linked(Visible, "payload", input[p])
    BY <1>10, FilesFact
  <2>p. LET M == Linked(Visible, "payload", input[p])
        IN  M \in Listings /\ M.payload = input[p].payload /\ M.record = None
    BY <1>1, <1>5, <2>2, DirFact
  <2>4. L \in Listings /\ L.payload = input[p].payload /\ L.record = None
    BY <2>3, <2>p
  <2>5. ASSUME NEW j \in 1..3, j <= file[p] PROVE L[Files[j]] = Bytes(input[p])[Files[j]]
    <3>1. j = 1
      BY <1>10, <2>5
    <3> QED
      BY <1>1, <2>4, <3>1, FilesFact, BytesFact
  <2>6. Authenticated(L)
    BY <2>4 DEF Authenticated
  <2> QED
    BY <1>4, <1>5, <2>2, <2>4, <2>5, <2>6
<1>11. CASE file[p] = 2
  <2>1. Visible.signature = None /\ Visible["payload"] = input[p].payload
    BY <1>1, <1>7, <1>8, <1>11, FilesFact, BytesFact
  <2>2. Visible.record = None
    BY <1>5, <1>9, <2>1 DEF Listings
  <2>l. L = Linked(Visible, "signature", input[p])
    BY <1>11, FilesFact
  <2>p. LET M == Linked(Visible, "signature", input[p])
        IN  /\ M \in Listings /\ M["payload"] = input[p].payload /\ M["signature"] = input[p]
            /\ M.record = None
    BY <1>1, <1>5, <2>1, <2>2, DirFact
  <2>3. /\ L \in Listings /\ L["payload"] = input[p].payload /\ L["signature"] = input[p]
        /\ L.record = None
    BY <2>l, <2>p
  <2>4. ASSUME NEW j \in 1..3, j <= file[p] PROVE L[Files[j]] = Bytes(input[p])[Files[j]]
    <3>1. j = 1 \/ j = 2
      BY <1>11, <2>4
    <3> QED
      BY <1>1, <2>3, <3>1, FilesFact, BytesFact
  <2> QED
    BY <1>4, <1>5, <2>2, <2>3, <2>4 DEF Authenticated
<1>12. CASE file[p] = 3
  <2>1. /\ Visible.record = None /\ Visible["payload"] = input[p].payload
        /\ Visible["signature"] = input[p]
    BY <1>1, <1>7, <1>8, <1>12, FilesFact, BytesFact
  <2>l. L = Linked(Visible, "record", input[p])
    BY <1>12, FilesFact
  <2>p. LET M == Linked(Visible, "record", input[p])
        IN  /\ M \in Listings /\ M["payload"] = input[p].payload /\ M["signature"] = input[p]
            /\ M["record"] = input[p]
    BY <1>1, <1>5, <2>1, DirFact
  <2>3. /\ L \in Listings /\ L["payload"] = input[p].payload /\ L["signature"] = input[p]
        /\ L["record"] = input[p]
    BY <2>l, <2>p
  <2>4. ASSUME NEW j \in 1..3 PROVE L[Files[j]] = Bytes(input[p])[Files[j]]
    <3>1. j = 1 \/ j = 2 \/ j = 3
      OBVIOUS
    <3> QED
      BY <1>1, <2>3, <3>1, FilesFact, BytesFact
  <2>5. Authenticated(L)
    BY <2>3 DEF Authenticated
  <2> QED
    BY <1>4, <1>5, <1>12, <2>1, <2>3, <2>4, <2>5
<1> QED
  BY <1>1, <1>10, <1>11, <1>12

\* publishFileNoReplace up to the link.
LEMMA SoleLink ==
  ASSUME TypeInv, SoleInv, ~Overlapping, NEW p \in running, p \in Coordinators,
         UNCHANGED scenario, Link(p)
  PROVE  SoleInv' /\ RecordStays
<1> DEFINE L == Linked(Visible, Files[file[p]], input[p])
<1>1. /\ pc \in [Coordinators -> Steps] /\ file \in [Coordinators -> DOMAIN Files]
      /\ disk \in Seq(DirStates) /\ disk # <<>>
      /\ pc[p] = "link"
  BY DEF TypeInv, TypeOK, DirStates, Link
<1>2. SoleProgress(p) /\ MadeIsUnrecorded(p) /\ Visible # NoDir /\ file[p] \in 1..3
  BY <1>1, FilesFact DEF SoleInv, SoleProgress, Underway
<1>3. CASE Abort(p, "failed") /\ disk' = disk
  <2>1. /\ DurableRecordKept' /\ RecordStays
        /\ \A d \in History' : Authenticated(d)
        /\ \A d \in History' : d \in History
    BY <1>3, SeenKept DEF SoleInv
  <2> QED
    BY <1>1, <1>3, <2>1, SoleEnds, SoleAgain
<1>4. CASE At(Files[file[p]]) = None /\ Modify(L) /\ Goto(p, "sync")
  <2>1. /\ Visible \in Listings /\ Visible.record = None /\ L \in Listings /\ Authenticated(L)
        /\ file[p] # 3 => L.record = None
        /\ \A j \in 1..3 : j <= file[p] => L[Files[j]] = Bytes(input[p])[Files[j]]
    BY <1>1, <1>4, SoleLinked
  <2>2. L \in DirStates /\ L # NoDir
    BY <2>1, NoneAssumption DEF DirStates
  <2>3. Visible' = L /\ Durable' = Durable /\ History' = History \cup {L}
    BY <1>1, <1>4, <2>2, DiskGrows
  <2>4. Visible \in History
    BY <1>1, DiskTyped
  <2>5. Unrecorded(Durable)
    BY <1>2, <2>1, <2>4 DEF SoleInv, DurableRecordKept, Unrecorded
  <2>6. DurableRecordKept' /\ RecordStays
    BY <2>3, <2>5 DEF DurableRecordKept, RecordStays, Unrecorded
  <2>7. \A d \in History' : Authenticated(d)
    BY <2>1, <2>3 DEF SoleInv
  <2>8. /\ pc'[p] = "sync" /\ file' = file /\ made' = made /\ input' = input
        /\ \A q \in Coordinators : q # p => pc'[q] = pc[q]
    BY <1>1, <1>4 DEF Goto
  <2>9. SoleProgress(p)'
    BY <1>2, <2>1, <2>2, <2>3, <2>8 DEF SoleProgress, Underway, Publishing
  <2>10. MadeIsUnrecorded(p)'
    BY <1>1, <1>2, <2>1, <2>3, <2>8 DEF MadeIsUnrecorded, Underway, Unrecorded
  <2> QED
    BY <2>6, <2>7, <2>8, <2>9, <2>10, SoleAgain
<1>5. CASE At(Files[file[p]]) # None /\ Goto(p, "compare") /\ disk' = disk
  <2>1. /\ Visible' = Visible /\ DurableRecordKept' /\ RecordStays
        /\ \A d \in History' : Authenticated(d)
        /\ \A d \in History' : d \in History
    BY <1>5, SeenKept DEF SoleInv
  <2>2. /\ pc'[p] = "compare" /\ file' = file /\ made' = made /\ input' = input
        /\ \A q \in Coordinators : q # p => pc'[q] = pc[q]
    BY <1>1, <1>5 DEF Goto
  <2>3. Visible[Files[file[p]]] # None
    BY <1>2, <1>5 DEF At
  <2>4. SoleProgress(p)'
    BY <1>1, <1>2, <2>1, <2>2, <2>3 DEF SoleProgress, Underway, Publishing
  <2>5. MadeIsUnrecorded(p)'
    BY <1>1, <1>2, <2>1, <2>2 DEF MadeIsUnrecorded, Underway
  <2> QED
    BY <2>1, <2>2, <2>4, <2>5, SoleAgain
<1> QED
  BY <1>3, <1>4, <1>5 DEF Link, Linked

\* The next file is begun, or the command returns, with the file at hand exact.
LEMMA SoleAdvances ==
  ASSUME TypeInv, SoleInv, ~Overlapping, NEW p \in running, p \in Coordinators,
         UNCHANGED scenario, pc[p] \in {"sync", "compare"}, disk' = disk \/ Fsync,
         Visible[Files[file[p]]] = Bytes(input[p])[Files[file[p]]], Advance(p)
  PROVE  SoleInv' /\ RecordStays
<1>1. /\ pc \in [Coordinators -> Steps] /\ file \in [Coordinators -> DOMAIN Files]
  BY DEF TypeInv, TypeOK
<1>2. SoleProgress(p) /\ MadeIsUnrecorded(p) /\ Visible # NoDir /\ file[p] \in 1..3
  BY <1>1, FilesFact DEF SoleInv, SoleProgress, Underway
<1>3. /\ Visible' = Visible /\ DurableRecordKept' /\ RecordStays
      /\ \A d \in History' : Authenticated(d)
      /\ \A d \in History' : d \in History
  BY SeenKept DEF SoleInv
<1>4. CASE file[p] = 3
  <2>1. /\ pc'[p] = "returned" /\ \A q \in Coordinators : q # p => pc'[q] = pc[q]
    BY <1>1, <1>4, FilesFact DEF Advance, Return
  <2> QED
    BY <1>3, <2>1, SoleReturns, SoleAgain
<1>5. CASE file[p] # 3
  <2>1. /\ pc'[p] = "stage" /\ file'[p] = file[p] + 1 /\ made' = made /\ input' = input
        /\ \A q \in Coordinators : q # p => pc'[q] = pc[q]
    BY <1>1, <1>5, FilesFact DEF Advance
  <2>2. \A j \in 1..3 : j < file[p] + 1 => Visible[Files[j]] = Bytes(input[p])[Files[j]]
    <3>1. \A j \in 1..3 : j < file[p] => Visible[Files[j]] = Bytes(input[p])[Files[j]]
      BY <1>2 DEF SoleProgress, Publishing
    <3>2. \A j \in 1..3 : j < file[p] + 1 => j < file[p] \/ j = file[p]
      BY <1>2
    <3> QED
      BY <3>1, <3>2
  <2>3. SoleProgress(p)'
    BY <1>2, <1>3, <2>1, <2>2 DEF SoleProgress, Underway, Publishing
  <2>4. MadeIsUnrecorded(p)'
    BY <1>2, <1>3, <1>5, <2>1 DEF MadeIsUnrecorded, Underway
  <2> QED
    BY <1>3, <2>1, <2>3, <2>4, SoleAgain
<1> QED
  BY <1>4, <1>5

\* The fsync after a link, and the comparison with a file that was there.
LEMMA SoleSyncCompare ==
  ASSUME TypeInv, SoleInv, ~Overlapping, NEW p \in running, p \in Coordinators,
         UNCHANGED scenario, Sync(p) \/ Compare(p)
  PROVE  SoleInv' /\ RecordStays
<1>1. /\ pc \in [Coordinators -> Steps] /\ pc[p] \in {"sync", "compare"}
  BY DEF TypeInv, TypeOK, Sync, Compare
<1>2. disk' = disk \/ Fsync
  BY DEF Sync, Compare
<1>3. SoleProgress(p) /\ Visible # NoDir
  BY <1>1 DEF SoleInv, SoleProgress, Underway
<1>4. /\ DurableRecordKept' /\ RecordStays
      /\ \A d \in History' : Authenticated(d)
      /\ \A d \in History' : d \in History
  BY <1>2, SeenKept DEF SoleInv
<1>5. CASE Sync(p)
  <2>1. CASE At(Files[file[p]]) = Bytes(input[p])[Files[file[p]]] /\ Advance(p)
    BY <1>1, <1>2, <1>3, <2>1, SoleAdvances DEF At
  <2>2. CASE Abort(p, "committed")
    <3>1. pc'[p] = "returned" /\ \A q \in Coordinators : q # p => pc'[q] = pc[q]
      BY <1>1, <2>2 DEF Abort, Return
    <3> QED
      BY <1>4, <3>1, SoleReturns, SoleAgain
  <2> QED
    BY <1>5, <2>1, <2>2 DEF Sync
<1>6. CASE Compare(p)
  <2>1. CASE AbsentOrExact(p, Files[file[p]]) /\ Advance(p)
    <3>1. Visible[Files[file[p]]] # None
      BY <1>3, <1>6 DEF SoleProgress, Compare
    <3>2. Visible[Files[file[p]]] = Bytes(input[p])[Files[file[p]]]
      BY <1>3, <2>1, <3>1 DEF AbsentOrExact, At
    <3> QED
      BY <1>1, <1>2, <2>1, <3>2, SoleAdvances
  <2>2. CASE Abort(p, "conflict")
    <3>1. pc[p] = "compare"
      BY <1>6 DEF Compare
    <3> QED
      BY <1>4, <2>2, <3>1, SoleEnds, SoleAgain
  <2> QED
    BY <1>6, <2>1, <2>2 DEF Compare
<1> QED
  BY <1>5, <1>6

\* The rollback removes a directory without a record.
LEMMA SoleRollback ==
  ASSUME TypeInv, SoleInv, ~Overlapping, NEW p \in running, p \in Coordinators,
         UNCHANGED scenario, Rollback(p)
  PROVE  SoleInv' /\ RecordStays
<1>1. /\ pc \in [Coordinators -> Steps] /\ pc[p] = "rollback"
      /\ disk \in Seq(DirStates) /\ disk # <<>>
  BY DEF TypeInv, TypeOK, DirStates, Rollback
<1>2. \A d \in History : Unrecorded(d)
  BY <1>1 DEF SoleInv, MadeIsUnrecorded
<1>3. Durable \in History /\ NoDir \in DirStates
  BY <1>1, DiskTyped DEF DirStates
<1>4. RecordStays
  BY <1>2, <1>3 DEF RecordStays, Unrecorded
<1>5. pc'[p] = "returned" /\ \A q \in Coordinators : q # p => pc'[q] = pc[q]
  BY <1>1 DEF Rollback, Return
<1>6. CASE disk' = <<NoDir>>
  <2>1. Durable' = NoDir /\ History' = {NoDir}
    BY <1>3, <1>6, DiskSettled
  <2> QED
    BY <1>4, <1>5, <2>1, SoleReturns, SoleAgain DEF DurableRecordKept, Unrecorded, Authenticated
<1>7. CASE Modify(NoDir)
  <2>1. Durable' = Durable /\ History' = History \cup {NoDir}
    BY <1>1, <1>3, <1>7, DiskGrows
  <2>2. DurableRecordKept' /\ \A d \in History' : Authenticated(d)
    BY <1>2, <1>3, <2>1 DEF SoleInv, DurableRecordKept, Unrecorded, Authenticated
  <2> QED
    BY <1>4, <1>5, <2>2, SoleReturns, SoleAgain
<1>8. CASE disk' = disk
  <2>1. DurableRecordKept' /\ \A d \in History' : Authenticated(d)
    BY <1>8, SeenKept DEF SoleInv
  <2> QED
    BY <1>4, <1>5, <2>1, SoleReturns, SoleAgain
<1> QED
  BY <1>6, <1>7, <1>8 DEF Rollback, Modify

\* A kill.
LEMMA SoleKill ==
  ASSUME TypeInv, SoleInv, ~Overlapping, NEW p \in running, p \in Coordinators,
         UNCHANGED scenario, Kill(p)
  PROVE  SoleInv' /\ RecordStays
<1>1. pc'[p] = "idle" /\ \A q \in Coordinators : q # p => pc'[q] = pc[q]
  BY DEF Kill, TypeInv, TypeOK
<1>2. /\ DurableRecordKept' /\ RecordStays /\ \A d \in History' : Authenticated(d)
  BY SeenKept DEF SoleInv, Kill
<1> QED
  BY <1>1, <1>2, SoleReturns, SoleAgain

\* A power loss leaves something the directory has been.
LEMMA SolePowerLoss ==
  ASSUME TypeInv, SoleInv, UNCHANGED scenario, PowerLoss
  PROVE  SoleInv' /\ RecordStays
<1>1. disk \in Seq(DirStates) /\ disk # <<>>
  BY DEF TypeInv, TypeOK, DirStates
<1>2. PICK d \in History : disk' = <<d>>
  BY DEF PowerLoss, History, Range
<1>3. d \in DirStates
  BY <1>1, DiskTyped
<1>4. Durable' = d /\ History' = {d}
  BY <1>2, <1>3, DiskSettled
<1>5. RecordStays /\ DurableRecordKept' /\ \A x \in History' : Authenticated(x)
  BY <1>4 DEF SoleInv, DurableRecordKept, Unrecorded, RecordStays
<1>6. \A p \in Coordinators : pc'[p] = "idle"
  BY DEF PowerLoss
<1>7. running' = running /\ running \subseteq Coordinators
  BY ScenariosAssumption DEF running, TypeInv, TypeOK
<1>8. \A p \in running' : SoleProgress(p)' /\ MadeIsUnrecorded(p)'
  BY <1>6, <1>7 DEF SoleProgress, MadeIsUnrecorded, Underway, Publishing
<1> QED
  BY <1>5, <1>6, <1>7, <1>8 DEF SoleInv

\* Every step keeps EvidenceInv, and the durable record of a sole coordinator.
LEMMA NextEvidence ==
  ASSUME EvidenceInv, [Next]_vars
  PROVE  EvidenceInv' /\ (~Overlapping => RecordStays)
<1>1. TypeInv /\ TypeInv'
  BY NextTyped DEF EvidenceInv, TypeInv
<1>2. scenario' = scenario
  BY DEF Next, vars
<1>3. Overlapping' = Overlapping
  BY <1>2 DEF Overlapping, running
<1>4. ASSUME ~Overlapping PROVE SoleInv' /\ RecordStays
  <2>1. SoleInv
    BY <1>4 DEF EvidenceInv
  <2>2. running \subseteq Coordinators /\ scenario.inputs \subseteq Inputs
    BY <1>1, ScenariosAssumption DEF TypeInv, TypeOK, running
  <2>3. ASSUME NEW p \in running, Start(p) \/ Step(p) \/ Kill(p)
        PROVE  SoleInv' /\ RecordStays
    BY <1>1, <1>2, <1>4, <2>1, <2>2, <2>3, SoleMakeOrResume, SoleSyncMade, SoleScanToStage,
       SoleLink, SoleSyncCompare, SoleRollback, SoleKill DEF Start, Step
  <2>4. CASE PowerLoss
    BY <1>1, <1>2, <2>1, <2>4, SolePowerLoss
  <2>5. CASE UNCHANGED vars
    <3>1. /\ disk' = disk /\ pc' = pc /\ made' = made /\ file' = file /\ input' = input
          /\ running' = running
      BY <1>2, <2>5 DEF vars, local, running
    <3>2. Visible' = Visible /\ Durable' = Durable /\ History' = History
      BY <3>1, DiskKept
    <3> QED
      BY <2>1, <3>1, <3>2
      DEF SoleInv, DurableRecordKept, SoleProgress, MadeIsUnrecorded, Underway, Publishing,
          RecordStays, Unrecorded
  <2> QED
    BY <2>3, <2>4, <2>5 DEF Next
<1> QED
  BY <1>1, <1>3, <1>4 DEF EvidenceInv, TypeInv

\* No directory and no command satisfy EvidenceInv.
LEMMA InitEvidence == Init => EvidenceInv
<1> SUFFICES ASSUME Init PROVE EvidenceInv
  OBVIOUS
<1>1. TypeInv
  BY InitTyped
<1>2. disk = <<NoDir>> /\ \A p \in Coordinators : pc[p] = "idle"
  BY DEF Init
<1>3. Visible = NoDir /\ Durable = NoDir /\ History = {NoDir}
  BY <1>2 DEF Visible, Durable, History, Last, Range
<1>4. running \subseteq Coordinators
  BY <1>1, ScenariosAssumption DEF TypeInv, TypeOK, running
<1>5. SoleInv
  BY <1>2, <1>3, <1>4
  DEF SoleInv, DurableRecordKept, Unrecorded, Authenticated, SoleProgress, MadeIsUnrecorded,
      Underway, Publishing
<1> QED
  BY <1>1, <1>5 DEF EvidenceInv, TypeInv

\* EvidenceInv, and with it type correctness, holds throughout, for any number of
\* coordinators, inputs and faults.
THEOREM EvidenceIsConsistent == Spec => []EvidenceInv
<1>1. EvidenceInv /\ [Next]_vars => EvidenceInv'
  BY NextEvidence
<1> QED
  BY InitEvidence, <1>1, PTL DEF Spec

\* Unless commands overlap, no reader and no power loss finds a record without its
\* exact signature and payload (writeSignedRecordNoReplace).
THEOREM RecordsAreAuthenticated == Spec => []RecordIsAuthenticated
<1>1. EvidenceInv => RecordIsAuthenticated
  BY DEF EvidenceInv, RecordIsAuthenticated, SoleInv
<1> QED
  BY <1>1, EvidenceIsConsistent, PTL

\* A coordinator that runs one command at a time never rolls back or replaces a
\* record that is on disk (makeOrResumePrivateDir, recordBeacon's rollback).
THEOREM SoleRecordsStay == Spec => SoleRecordIsPermanent
<1>1. EvidenceInv /\ [Next]_vars => [~Overlapping => RecordStays]_vars
  BY NextEvidence
<1> QED
  BY <1>1, EvidenceIsConsistent, PTL DEF Spec, SoleRecordIsPermanent
=============================================================================
