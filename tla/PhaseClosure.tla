--------------------------- MODULE PhaseClosure ---------------------------
(***************************************************************************)
(* ClosePhaseFiles commits a phase to a future drand round.  The signed    *)
(* close record is staged in a directory of its own and renamed, without   *)
(* replacement, to the fixed name "closure"; the lead before the round is  *)
(* checked when the record is made and again, with a safety margin, just   *)
(* before the rename.  A call that finds a closure re-syncs and returns it *)
(* when it commits the round asked for.                                    *)
(*                                                                         *)
(* Several closers may run at once with different rounds, be killed, lose  *)
(* power and retry.  Time is the machine's clock in seconds.               *)
(***************************************************************************)
EXTENDS Integers

CONSTANTS
  Closers,     \* processes running the close command
  Rounds,      \* drand rounds they may commit to
  Period,      \* seconds between rounds
  MinLead,     \* minimum_witness_lead_seconds of the signed definition
  Margin,      \* closePublicationSafetyMargin
  Pause,       \* longest time a process is held between guard and rename
  NoClosure,   \* no closure, no round
  MaxTime      \* bound: the clock stops here

ASSUME RoundsAssumption == Rounds \subseteq Nat /\ Period \in Nat
ASSUME LeadAssumption ==
  MinLead \in Nat \ {0} /\ Margin \in Nat /\ Pause \in Nat /\ MaxTime \in Nat

VARIABLES
  now,        \* the clock
  closure,    \* the closure directory as processes see it, or NoClosure
  durable,    \* the closure directory as a power loss would leave it at worst
  pc,         \* pc[p]: where p's call is
  round,      \* round[p]: the round p was asked to commit
  closedAt,   \* closedAt[p]: the time in p's staged record
  guardAt,    \* guardAt[p]: when p's pre-commit guard passed
  result,     \* result[p]: what p's call returned
  acked       \* rounds reported as committed (history)

closureVars == <<now, closure, durable, pc, round, closedAt, guardAt, result, acked>>

-----------------------------------------------------------------------------
\* QuicknetRoundTime; the schedule's genesis is time 0.
RoundTime(r) == Period * r

\* A close record, with the time of the rename that published it (history).
Closures == [round : Rounds, closedAt : Nat, committedAt : Nat]

ASSUME NoneAssumption == NoClosure \notin Rounds \cup Closures

\* ValidateClose, the part about time.
ValidateClose(r, t) == RoundTime(r) > t /\ RoundTime(r) - t >= MinLead

\* Mutant of ValidateCloseCommitTime: the safety margin is forgotten.
CommitTimeWithoutMargin(closed, commit, r) ==
  commit >= closed /\ RoundTime(r) - commit >= MinLead

\* validateCloseCommitTime
ValidateCloseCommitTime(closed, commit, r) ==
  commit >= closed /\ RoundTime(r) - commit >= MinLead + Margin

\* equalPublicationTrees: record and signature are determined by these two.
SameTree(p) == closure.round = round[p] /\ closure.closedAt = closedAt[p]

Goto(p, step) ==
  /\ pc' = [pc EXCEPT ![p] = step]
  /\ UNCHANGED <<round, closedAt, guardAt, result, acked>>

\* The call ends and its locals with it.
EndCall(p, r) ==
  /\ pc' = [pc EXCEPT ![p] = "returned"]
  /\ round' = [round EXCEPT ![p] = NoClosure]
  /\ closedAt' = [closedAt EXCEPT ![p] = 0]
  /\ guardAt' = [guardAt EXCEPT ![p] = 0]
  /\ result' = [result EXCEPT ![p] = r]
  /\ acked' = IF r = "ok" THEN acked \cup {round[p]} ELSE acked

ClosureInit ==
  /\ now = 0
  /\ closure = NoClosure
  /\ durable = NoClosure
  /\ pc = [p \in Closers |-> "returned"]
  /\ round = [p \in Closers |-> NoClosure]
  /\ closedAt = [p \in Closers |-> 0]
  /\ guardAt = [p \in Closers |-> 0]
  /\ result = [p \in Closers |-> "none"]
  /\ acked = {}

-----------------------------------------------------------------------------
\* The call authenticates the ceremony and replays the chain.
Begin(p, r) ==
  /\ pc[p] = "returned"
  /\ pc' = [pc EXCEPT ![p] = "stat"]
  /\ round' = [round EXCEPT ![p] = r]
  /\ result' = [result EXCEPT ![p] = "none"]
  /\ UNCHANGED <<now, closure, durable, closedAt, guardAt, acked>>

\* Lstat of the closure directory: an existing closure is validated.
FindExisting(p) ==
  /\ pc[p] = "stat"
  /\ closure # NoClosure
  /\ IF closure.round = round[p] THEN Goto(p, "recover") ELSE EndCall(p, "conflict")
  /\ UNCHANGED <<now, closure, durable>>

\* Mutant of RecoverExisting: an existing closure is reported as it is.
RecoverWithoutSync(p) ==
  /\ pc[p] = "recover"
  /\ EndCall(p, "ok")
  /\ UNCHANGED <<now, closure, durable>>

\* ... the phase directory is fsynced before the existing closure is reported.
RecoverExisting(p) ==
  /\ pc[p] = "recover"
  /\ \/ durable' = closure /\ EndCall(p, "ok")
     \/ durable' = durable /\ EndCall(p, "failed")
  /\ UNCHANGED <<now, closure>>

\* No closure: the closing time is sampled, the record validated and staged.
StageRecord(p) ==
  /\ pc[p] = "stat"
  /\ closure = NoClosure
  /\ IF ValidateClose(round[p], now)
       THEN /\ pc' = [pc EXCEPT ![p] = "inspect"]
            /\ closedAt' = [closedAt EXCEPT ![p] = now]
            /\ UNCHANGED <<round, guardAt, result, acked>>
       ELSE EndCall(p, "tooLate")
  /\ UNCHANGED <<now, closure, durable>>

\* publishDirectoryNoReplaceOrExactGuarded: both trees are inspected.
InspectTrees(p) ==
  /\ pc[p] = "inspect"
  /\ \/ closure = NoClosure /\ Goto(p, "guard")
     \/ closure # NoClosure /\ SameTree(p) /\ Goto(p, "sync")
     \/ closure # NoClosure /\ ~SameTree(p) /\ EndCall(p, "conflict")
  /\ UNCHANGED <<now, closure, durable>>

\* The pre-commit guard reads the clock again.
Guard(p) ==
  /\ pc[p] = "guard"
  /\ IF ValidateCloseCommitTime(closedAt[p], now, round[p])
       THEN /\ pc' = [pc EXCEPT ![p] = "rename"]
            /\ guardAt' = [guardAt EXCEPT ![p] = now]
            /\ UNCHANGED <<round, closedAt, result, acked>>
       ELSE EndCall(p, "tooLate")
  /\ UNCHANGED <<now, closure, durable>>

\* The no-replace rename: it fails when another closer was first, and it may
\* fail without effect.
Rename(p) ==
  /\ pc[p] = "rename"
  /\ \/ /\ closure = NoClosure
        /\ closure' = [round |-> round[p], closedAt |-> closedAt[p], committedAt |-> now]
        /\ Goto(p, "sync")
     \/ /\ EndCall(p, "failed")
        /\ UNCHANGED closure
  /\ UNCHANGED <<now, durable>>

\* The destination is validated and the parent fsynced, twice at most.
SyncParent(p) ==
  /\ pc[p] = "sync"
  /\ \/ durable' = closure /\ EndCall(p, "ok")
     \/ durable' = durable /\ EndCall(p, "committed")
  /\ UNCHANGED <<now, closure>>

-----------------------------------------------------------------------------
\* Time passes; no process is held longer than Pause before its rename.
Tick ==
  /\ now < MaxTime
  /\ \A p \in Closers : pc[p] = "rename" => now < guardAt[p] + Pause
  /\ now' = now + 1
  /\ UNCHANGED <<closure, durable, pc, round, closedAt, guardAt, result, acked>>

KillCloser(p) ==
  /\ pc[p] # "returned"
  /\ EndCall(p, "none")
  /\ UNCHANGED <<now, closure, durable>>

LosePower ==
  /\ closure' \in {closure, durable}
  /\ durable' = closure'
  /\ pc' = [p \in Closers |-> "returned"]
  /\ round' = [p \in Closers |-> NoClosure]
  /\ closedAt' = [p \in Closers |-> 0]
  /\ guardAt' = [p \in Closers |-> 0]
  /\ result' = [p \in Closers |-> "none"]
  /\ UNCHANGED <<now, acked>>

Call(p) == \E r \in Rounds : Begin(p, r)

ClosureNext ==
  \/ \E p \in Closers :
       \/ Call(p)
       \/ FindExisting(p)
       \/ RecoverExisting(p)
       \/ StageRecord(p)
       \/ InspectTrees(p)
       \/ Guard(p)
       \/ Rename(p)
       \/ SyncParent(p)
       \/ KillCloser(p)
  \/ Tick
  \/ LosePower

ClosureSpec == ClosureInit /\ [][ClosureNext]_closureVars

-----------------------------------------------------------------------------
ClosureSteps ==
  {"stat", "recover", "inspect", "guard", "rename", "sync", "returned"}

ClosureResults == {"none", "ok", "tooLate", "conflict", "failed", "committed"}

\* Types: closures carry rounds and times, and calls are at steps the code
\* has.
ClosureTypeOK ==
  /\ now \in 0..MaxTime
  /\ closure \in Closures \cup {NoClosure}
  /\ durable \in Closures \cup {NoClosure}
  /\ pc \in [Closers -> ClosureSteps]
  /\ round \in [Closers -> Rounds \cup {NoClosure}]
  /\ closedAt \in [Closers -> 0..MaxTime]
  /\ guardAt \in [Closers -> 0..MaxTime]
  /\ result \in [Closers -> ClosureResults]
  /\ acked \subseteq Rounds

\* The closure became visible at least the signed witness lead before its
\* round, however long staging took and whoever raced for the name: the
\* guard runs just before the rename and the margin covers the gap.
LeadAtCommit ==
  closure # NoClosure => RoundTime(closure.round) - closure.committedAt >= MinLead

\* A call never reports a round that a later reader does not find, and two
\* successful calls report the same round: the phase is committed to one
\* round for ever.
Abstract == INSTANCE WriteOnce WITH
  Values <- Rounds,
  Empty <- NoClosure,
  value <- IF durable = NoClosure THEN NoClosure ELSE durable.round,
  reported <- acked

\* ClosePhaseFiles, with its re-sync of an existing closure, implements the
\* write-once register over beacon rounds.
ImplementsWriteOnce == Abstract!Spec

-----------------------------------------------------------------------------
\* How far each call is, and what the clock allows: a call about to rename
\* passed the guard at most Pause seconds ago.
CallsInTime ==
  \A p \in Closers :
    /\ pc[p] = "rename" =>
         /\ RoundTime(round[p]) - guardAt[p] >= MinLead + Margin
         /\ now <= guardAt[p] + Pause
    /\ pc[p] \in {"recover", "sync"} => closure # NoClosure /\ closure.round = round[p]
    /\ pc[p] # "returned" => round[p] \in Rounds

DurableIsVisible == durable # NoClosure => closure = durable

ReportedIsDurable == \A r \in acked : durable # NoClosure /\ durable.round = r

\* The inductive invariant behind LeadAtCommit and ImplementsWriteOnce.
ClosureInv ==
  /\ ClosureTypeOK
  /\ CallsInTime
  /\ DurableIsVisible
  /\ ReportedIsDurable
  /\ LeadAtCommit
=============================================================================
