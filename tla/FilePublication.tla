-------------------------- MODULE FilePublication --------------------------
(***************************************************************************)
(* internal/mpcceremony publishes every transcript file under a fixed name *)
(* that is never replaced: the bytes are written to a temporary file in    *)
(* the same directory and fsynced, the temporary is hard-linked to the     *)
(* destination (link fails if the name is taken), and the directory is     *)
(* fsynced so that the new name survives a power loss.                     *)
(*                                                                         *)
(* Publishers are processes that call one of the three entry points on the *)
(* same destination, concurrently, and call again after a failure or after *)
(* having been killed.  A directory entry is volatile until a directory    *)
(* fsync; a power loss may drop a volatile entry.                          *)
(***************************************************************************)
EXTENDS Naturals

CONSTANTS
  Publishers,   \* processes publishing to this destination
  Contents,     \* the byte strings (with their mode) they may publish
  None,         \* no file
  Entries,      \* which of the entry points below the callers use
  LostAnswers,  \* whether link(2) may fail and take effect (network file systems)
  MaxTries      \* bound: calls made by one publisher

ASSUME EntriesAssumption ==
  Entries \subseteq {"NoReplace", "NoReplaceOrExact", "WriteOrExact"}
ASSUME LostAnswersAssumption == LostAnswers \in BOOLEAN
ASSUME MaxTriesAssumption == MaxTries \in Nat

VARIABLES
  dest,      \* the destination as every process sees it: an inode or None
  durable,   \* the destination as a power loss would leave it at worst
  pc,        \* pc[p]: where p's current call is
  entry,     \* entry[p]: the entry point p called
  bytes,     \* bytes[p]: the content p publishes, None before its first call
  try,       \* try[p]: the number of calls p made; it names p's temporary
  result,    \* result[p]: what p's call returned
  acked,     \* the contents some call reported as published (history)
  synced,    \* ... some call of publication.go's own two entry points did
  unseen     \* publishers whose current call could not look at the destination
             \* after a failed link (history)

history == <<acked, synced>>
vars == <<dest, durable, pc, entry, bytes, try, result, history, unseen>>

-----------------------------------------------------------------------------
Steps == {"idle", "inspect", "link", "cleanup", "sync", "resync", "fallback", "returned"}

\* publicationNotCommitted is split by errors.Is(err, fs.ErrExist).
Results == {"none", "ok", "exists", "notCommitted", "committed", "unread"}

\* A file is known by the call that created its temporary.
Inodes == [by : Publishers, try : 1..MaxTries, bytes : Contents]

ASSUME NoneAssumption == None \notin Contents \cup Inodes

\* os.SameFile(tempInfo, destinationInfo): file is the temporary of p's call.
SameFile(p, file) == file # None /\ file.by = p /\ file.try = try[p]

\* equalPublicationFile(actual, expected)
Exact(p) == dest # None /\ dest.bytes = bytes[p]

\* The call of p ends with r; a success is visible to the operator.
Return(p, r) ==
  /\ pc' = [pc EXCEPT ![p] = "returned"]
  /\ result' = [result EXCEPT ![p] = r]
  /\ acked' = IF r = "ok" THEN acked \cup {bytes[p]} ELSE acked
  /\ synced' = IF r = "ok" /\ entry[p] # "WriteOrExact"
                 THEN synced \cup {bytes[p]} ELSE synced
  /\ UNCHANGED <<entry, bytes, try>>

Goto(p, step) ==
  /\ pc' = [pc EXCEPT ![p] = step]
  /\ UNCHANGED <<entry, bytes, try, result, history>>

Init ==
  /\ dest = None
  /\ durable = None
  /\ pc = [p \in Publishers |-> "idle"]
  /\ entry = [p \in Publishers |-> "none"]
  /\ bytes = [p \in Publishers |-> None]
  /\ try = [p \in Publishers |-> 0]
  /\ result = [p \in Publishers |-> "none"]
  /\ acked = {}
  /\ synced = {}
  /\ unseen = {}

-----------------------------------------------------------------------------
\* writeBytesNoReplace: a fresh temporary is created, written and fsynced.
\* Any failure up to here leaves the directory as it was.
StageTemporary(p, e, c) ==
  /\ pc[p] \in {"idle", "returned"}
  /\ try[p] < MaxTries
  /\ pc' = [pc EXCEPT ![p] = "inspect"]
  /\ entry' = [entry EXCEPT ![p] = e]
  /\ bytes' = [bytes EXCEPT ![p] = c]
  /\ try' = [try EXCEPT ![p] = @ + 1]
  /\ result' = [result EXCEPT ![p] = "none"]
  /\ unseen' = unseen \ {p}
  /\ UNCHANGED <<dest, durable, history>>

\* A call that fails with fs.ErrExist: writeBytesNoReplaceOrExact goes on to
\* compare the existing bytes, the other entry points return the error.
ExistsError(p) ==
  IF entry[p] = "WriteOrExact" THEN Goto(p, "fallback") ELSE Return(p, "exists")

\* publishFileWithOps up to the first Lstat of the destination, which may
\* itself fail; a destination that cannot be read is a conflict.
InspectDestination(p) ==
  /\ pc[p] = "inspect"
  /\ \/ dest = None /\ Goto(p, "link")
     \/ Exact(p) /\ entry[p] = "NoReplaceOrExact" /\ Goto(p, "cleanup")
     \/ dest # None /\ ExistsError(p)
     \/ Return(p, "notCommitted")
  /\ UNCHANGED <<dest, durable, unseen>>

\* Mutant of Link: any error of link(2) is reported as not committed.
LinkTrustingErrors(p) ==
  /\ pc[p] = "link"
  /\ \E linked, failed \in BOOLEAN :
       /\ linked => dest = None
       /\ linked /\ failed => LostAnswers
       /\ ~linked => failed
       /\ dest' = IF linked THEN [by |-> p, try |-> try[p], bytes |-> bytes[p]] ELSE dest
       /\ IF failed THEN Return(p, "notCommitted") ELSE Goto(p, "cleanup")
  /\ UNCHANGED <<durable, unseen>>

\* link(2) takes effect only on a free name.  Its error and its effect are
\* separate: a network file system may lose the answer to a link that
\* happened, and the code then recognises its own file by identity, if the
\* Lstat that looks for it does not fail as well.
Link(p) ==
  /\ pc[p] = "link"
  /\ \E linked, failed, seen \in BOOLEAN :
       LET recognised == seen /\ SameFile(p, dest')
       IN /\ linked => dest = None
          /\ linked /\ failed => LostAnswers
          /\ ~linked => failed
          /\ dest' = IF linked THEN [by |-> p, try |-> try[p], bytes |-> bytes[p]] ELSE dest
          /\ unseen' = IF failed /\ ~seen THEN unseen \cup {p} ELSE unseen
          /\ \/ (~failed \/ recognised) /\ Goto(p, "cleanup")
             \/ failed /\ ~recognised /\ dest' # None /\ ExistsError(p)
             \/ failed /\ ~recognised /\ Return(p, "notCommitted")
  /\ UNCHANGED durable

\* The destination is read back and the temporary link removed.
RemoveTemporary(p) ==
  /\ pc[p] = "cleanup"
  /\ \/ Exact(p) /\ Goto(p, "sync")
     \/ Return(p, "committed")
  /\ UNCHANGED <<dest, durable, unseen>>

\* Mutant of SyncDirectory: a failed fsync is ignored.
SyncDirectoryIgnoringErrors(p) ==
  /\ pc[p] = "sync"
  /\ durable' \in {dest, durable}
  /\ Return(p, "ok")
  /\ UNCHANGED <<dest, unseen>>

\* syncPublicationDirectoryWithRecovery, first fsync.
SyncDirectory(p) ==
  /\ pc[p] = "sync"
  /\ \/ durable' = dest /\ Return(p, "ok")
     \/ durable' = durable /\ Goto(p, "resync")
  /\ UNCHANGED <<dest, unseen>>

\* ... the destination is validated and the fsync tried once more.
ResyncDirectory(p) ==
  /\ pc[p] = "resync"
  /\ \/ Exact(p) /\ durable' = dest /\ Return(p, "ok")
     \/ durable' = durable /\ Return(p, "committed")
  /\ UNCHANGED <<dest, unseen>>

\* requireAbsentOrExact after fs.ErrExist: nothing is fsynced.  An error of
\* its own Lstat or read carries no commit state.
CompareExisting(p) ==
  /\ pc[p] = "fallback"
  /\ \/ IF dest = None \/ Exact(p) THEN Return(p, "ok") ELSE Return(p, "exists")
     \/ Return(p, "unread")
  /\ UNCHANGED <<dest, durable, unseen>>

-----------------------------------------------------------------------------
\* The process is killed; its temporary file stays behind under its own name.
Kill(p) ==
  /\ pc[p] \notin {"idle", "returned"}
  /\ Goto(p, "idle")
  /\ UNCHANGED <<dest, durable, unseen>>

\* The machine stops.  An entry that was not fsynced may or may not be on
\* disk; what is found after the reboot is on disk.
PowerLoss ==
  /\ dest' \in {dest, durable}
  /\ durable' = dest'
  /\ pc' = [p \in Publishers |-> "idle"]
  /\ result' = [p \in Publishers |-> "none"]
  /\ UNCHANGED <<entry, bytes, try, history, unseen>>

Call(p) == \E e \in Entries, c \in Contents : StageTemporary(p, e, c)

Next ==
  \/ \E p \in Publishers :
       \/ Call(p)
       \/ InspectDestination(p)
       \/ Link(p)
       \/ RemoveTemporary(p)
       \/ SyncDirectory(p)
       \/ ResyncDirectory(p)
       \/ CompareExisting(p)
       \/ Kill(p)
  \/ PowerLoss

Spec == Init /\ [][Next]_vars

-----------------------------------------------------------------------------
\* Types: what a call of an entry point carries, and files known by the call
\* that made them.
TypeOK ==
  /\ dest \in Inodes \cup {None}
  /\ durable \in Inodes \cup {None}
  /\ pc \in [Publishers -> Steps]
  /\ entry \in [Publishers -> Entries \cup {"none"}]
  /\ bytes \in [Publishers -> Contents \cup {None}]
  /\ try \in [Publishers -> 0..MaxTries]
  /\ result \in [Publishers -> Results]
  /\ acked \subseteq Contents
  /\ synced \subseteq Contents
  /\ unseen \subseteq Publishers

\* Once a publication was reported as a success, its bytes are on disk under
\* the destination name, whatever follows.
\* The workflow's writeBytesNoReplaceOrExact does not keep this promise.
ReportedIsDurable ==
  \A c \in acked : durable # None /\ durable.bytes = c

\* A success of publishFileNoReplace or publishFileNoReplaceOrExact is durable:
\* the bytes are on disk under the destination name, whatever crashes, fsync
\* failures, retries and other publishers follow, among them callers of
\* writeBytesNoReplaceOrExact.  Two such successes therefore agree.
SyncedIsDurable ==
  \A c \in synced : durable # None /\ durable.bytes = c

\* What the commit state carried by a publicationError is worth: a call that
\* returned committed (or success) left exactly its bytes there, so that a
\* caller must not roll back; a call that returned not-committed or fs.ErrExist
\* did not create the destination, unless its link failed and the Lstat after
\* it failed too: then, and only then, its own file may be there unreported.
CommitStateHonest ==
  \A p \in Publishers :
    /\ result[p] \in {"notCommitted", "exists"} /\ p \notin unseen => ~SameFile(p, dest)
    /\ result[p] \in {"committed", "ok"} => Exact(p)

\* No step replaces a destination: the name only disappears when a power
\* loss drops an entry that was never fsynced (publication.go, "never
\* replaces a different one").
NeverReplaced ==
  [][dest # None => dest' = dest \/ (dest' = None /\ durable = None)]_vars

\* The visible destination is at least as old as the durable one.
DurableIsVisible == durable # None => dest = durable

\* A temporary is linked during the call that made it, never later.
LinkedByItsCall == dest # None => dest.try \in 1..try[dest.by]

\* A call past the link has its bytes at the destination; one before it has
\* not created the destination, and one that compares has done so only unseen.
CallProgress ==
  \A p \in Publishers :
    /\ pc[p] \in {"cleanup", "sync", "resync"} => Exact(p)
    /\ pc[p] \in {"inspect", "link"} => ~SameFile(p, dest)
    /\ pc[p] = "fallback" /\ p \notin unseen => ~SameFile(p, dest)
    /\ pc[p] = "fallback" => dest # None
    /\ result[p] # "none" => pc[p] = "returned"
    /\ pc[p] # "idle" => bytes[p] \in Contents /\ try[p] > 0

\* The inductive invariant behind CommitStateHonest and NeverReplaced, for
\* all three entry points: who owns the destination and how far each call is.
FileInv ==
  /\ TypeOK
  /\ DurableIsVisible
  /\ LinkedByItsCall
  /\ CallProgress
  /\ CommitStateHonest

\* ... and the calls that compare instead of fsyncing are the workflow's own.
RecoveryInv ==
  /\ FileInv
  /\ \A p \in Publishers : pc[p] = "fallback" => entry[p] = "WriteOrExact"
  /\ SyncedIsDurable

\* The durable content is a write-once register and the successes of
\* publication.go's entry points are reads of it.
Abstract == INSTANCE WriteOnce WITH
  Values <- Contents,
  Empty <- None,
  value <- IF durable = None THEN None ELSE durable.bytes,
  reported <- synced

\* Publication implements the write-once register, whichever entry points the
\* callers mix.
ImplementsWriteOnce == Abstract!Spec
=============================================================================
