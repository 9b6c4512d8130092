---------------------- MODULE FilePublication_proofs ----------------------
(***************************************************************************)
(* Proofs about FilePublication for any number of publishers, contents and *)
(* calls through any mix of the three entry points.  FileInv says who owns *)
(* the destination and how far each call is; adding that only the          *)
(* workflow's callers compare instead of fsyncing makes the durability of  *)
(* what publication.go's own entry points report inductive.                *)
(***************************************************************************)
EXTENDS FilePublication, TLAPS

\* The initial state, an empty directory with no call made, satisfies FileInv.
LEMMA InitFileInv == Init => FileInv
  BY NoneAssumption, MaxTriesAssumption
  DEF Init, FileInv, TypeOK, DurableIsVisible, LinkedByItsCall, CallProgress,
      CommitStateHonest, Steps, Results, Exact, SameFile, Inodes, history

\* Every step of publishFileWithOps, of its callers, of a kill and of a power
\* loss preserves FileInv.
LEMMA NextFileInv == FileInv /\ [Next]_vars => FileInv'
<1> SUFFICES ASSUME FileInv, [Next]_vars PROVE FileInv'
  OBVIOUS
<1> USE NoneAssumption, MaxTriesAssumption
    DEF FileInv, TypeOK, DurableIsVisible, LinkedByItsCall, CallProgress,
        CommitStateHonest, Steps, Results, Exact, SameFile, Inodes, history
<1>1. ASSUME NEW p \in Publishers, NEW e \in Entries, NEW c \in Contents,
             StageTemporary(p, e, c)
      PROVE  FileInv'
  BY <1>1 DEF StageTemporary
<1>2. ASSUME NEW p \in Publishers, InspectDestination(p)
      PROVE  FileInv'
  BY <1>2 DEF InspectDestination, ExistsError, Goto, Return
<1>3. ASSUME NEW p \in Publishers, Link(p)
      PROVE  FileInv'
  <2> DEFINE mine == [by |-> p, try |-> try[p], bytes |-> bytes[p]]
  <2>1. PICK linked \in BOOLEAN, failed \in BOOLEAN, seen \in BOOLEAN :
          /\ linked => dest = None
          /\ ~linked => failed
          /\ dest' = IF linked THEN mine ELSE dest
          /\ unseen' = IF failed /\ ~seen THEN unseen \cup {p} ELSE unseen
          /\ \/ (~failed \/ (seen /\ SameFile(p, dest'))) /\ Goto(p, "cleanup")
             \/ /\ failed /\ ~(seen /\ SameFile(p, dest'))
                /\ dest' # None /\ ExistsError(p)
             \/ failed /\ ~(seen /\ SameFile(p, dest')) /\ Return(p, "notCommitted")
    BY <1>3 DEF Link
  <2>2. pc[p] = "link" /\ UNCHANGED durable
    BY <1>3 DEF Link
  <2>3. CASE linked
    <3>1. mine \in Inodes /\ dest' = mine /\ dest = None
      BY <2>1, <2>2, <2>3
    <3>2. SameFile(p, dest')
      BY <3>1
    <3>3. CASE Goto(p, "cleanup")
      BY <2>1, <2>2, <3>1, <3>2, <3>3 DEF Goto
    <3>4. CASE /\ failed /\ ~seen
               /\ ExistsError(p) \/ Return(p, "notCommitted")
      <4>1. p \in unseen'
        BY <2>1, <3>4
      <4> QED
        BY <2>1, <2>2, <3>1, <3>4, <4>1 DEF ExistsError, Goto, Return
    <3> QED
      BY <2>1, <3>2, <3>3, <3>4
  <2>4. CASE ~linked
    <3>1. dest' = dest /\ ~SameFile(p, dest')
      BY <2>1, <2>2, <2>4
    <3>2. CASE dest # None /\ ExistsError(p)
      BY <2>1, <2>2, <3>1, <3>2 DEF ExistsError, Goto, Return
    <3>3. CASE Return(p, "notCommitted")
      BY <2>1, <2>2, <3>1, <3>3 DEF Return
    <3> QED
      BY <2>1, <2>4, <3>1, <3>2, <3>3
  <2> QED
    BY <2>3, <2>4
<1>4. ASSUME NEW p \in Publishers, RemoveTemporary(p)
      PROVE  FileInv'
  BY <1>4 DEF RemoveTemporary, Goto, Return
<1>5. ASSUME NEW p \in Publishers, SyncDirectory(p)
      PROVE  FileInv'
  BY <1>5 DEF SyncDirectory, Goto, Return
<1>6. ASSUME NEW p \in Publishers, ResyncDirectory(p)
      PROVE  FileInv'
  BY <1>6 DEF ResyncDirectory, Return
<1>7. ASSUME NEW p \in Publishers, CompareExisting(p)
      PROVE  FileInv'
  BY <1>7 DEF CompareExisting, Return
<1>8. ASSUME NEW p \in Publishers, Kill(p)
      PROVE  FileInv'
  BY <1>8 DEF Kill, Goto
<1>9. CASE PowerLoss
  BY <1>9 DEF PowerLoss
<1>10. CASE UNCHANGED vars
  BY <1>10 DEF vars
<1> QED
  BY <1>1, <1>2, <1>3, <1>4, <1>5, <1>6, <1>7, <1>8, <1>9, <1>10 DEF Next, Call

\* FileInv holds throughout, whatever entry points the callers mix.
THEOREM FileInvariant == Spec => []FileInv
  BY InitFileInv, NextFileInv, PTL DEF Spec

\* Type correctness of publishFileWithOps and its callers.
THEOREM TypeCorrect == Spec => []TypeOK
<1>1. FileInv => TypeOK
  BY DEF FileInv
<1> QED
  BY <1>1, FileInvariant, PTL

\* What a caller that decides whether to roll back may conclude from the commit
\* state of a returned error: committed is always true, not-committed is true
\* unless the link failed and the Lstat that looks for its effect failed too.
THEOREM HonestCommitState == Spec => []CommitStateHonest
<1>1. FileInv => CommitStateHonest
  BY DEF FileInv
<1> QED
  BY <1>1, FileInvariant, PTL

\* No step of any publisher replaces or removes a published file.
THEOREM NoReplacement == Spec => NeverReplaced
<1> DEFINE Kept == dest # None => dest' = dest \/ (dest' = None /\ durable = None)
<1>1. FileInv /\ [Next]_vars => [Kept]_vars
  <2> SUFFICES ASSUME FileInv, Next, dest # None PROVE Kept
    BY DEF vars
  <2>1. CASE PowerLoss
    BY <2>1 DEF PowerLoss, FileInv, DurableIsVisible
  <2>2. ASSUME NEW p \in Publishers, Link(p) PROVE Kept
    BY <2>2 DEF Link
  <2> QED
    BY <2>1, <2>2
    DEF Next, Call, StageTemporary, InspectDestination, RemoveTemporary,
        SyncDirectory, ResyncDirectory, CompareExisting, Kill
<1> QED
  BY <1>1, FileInvariant, PTL DEF Spec, NeverReplaced

-----------------------------------------------------------------------------
\* RecoveryInv is inductive for every mix of callers.
LEMMA NextRecoveryInv == RecoveryInv /\ [Next]_vars => RecoveryInv'
<1> SUFFICES ASSUME RecoveryInv, [Next]_vars
             PROVE  RecoveryInv'
  OBVIOUS
<1> USE DEF RecoveryInv, SyncedIsDurable, history
<1>1. FileInv'
  BY NextFileInv
<1>2. /\ \A p \in Publishers : pc[p] = "fallback" => entry[p] = "WriteOrExact"
      /\ pc \in [Publishers -> Steps]
      /\ entry \in [Publishers -> Entries \cup {"none"}]
  BY DEF FileInv, TypeOK
<1>3. durable # None => dest = durable
  BY DEF FileInv, DurableIsVisible
<1>4. ASSUME NEW p \in Publishers, SyncDirectory(p) \/ ResyncDirectory(p)
      PROVE  RecoveryInv'
  <2>1. Exact(p)
    BY <1>4 DEF SyncDirectory, ResyncDirectory, FileInv, CallProgress
  <2>2. CASE Return(p, "ok") /\ durable' = dest
    BY <1>1, <1>2, <1>3, <2>1, <2>2 DEF Return, Exact
  <2>3. CASE durable' = durable /\ (Goto(p, "resync") \/ Return(p, "committed"))
    BY <1>1, <1>2, <2>3 DEF Goto, Return
  <2> QED
    BY <1>4, <2>2, <2>3 DEF SyncDirectory, ResyncDirectory
<1>5. ASSUME NEW p \in Publishers, Link(p)
      PROVE  RecoveryInv'
  BY <1>1, <1>2, <1>5 DEF Link, ExistsError, Goto, Return
<1>6. CASE PowerLoss
  BY <1>1, <1>3, <1>6 DEF PowerLoss
<1>7. ASSUME NEW p \in Publishers,
             Call(p) \/ InspectDestination(p) \/ RemoveTemporary(p)
               \/ CompareExisting(p) \/ Kill(p)
      PROVE  RecoveryInv'
  BY <1>1, <1>2, <1>7
  DEF Call, StageTemporary, InspectDestination, RemoveTemporary,
      CompareExisting, Kill, ExistsError, Goto, Return
<1>8. CASE UNCHANGED vars
  BY <1>1, <1>8 DEF vars
<1> QED
  BY <1>4, <1>5, <1>6, <1>7, <1>8 DEF Next

\* RecoveryInv holds throughout.
LEMMA RecoveryInvariant == Spec => []RecoveryInv
<1>1. Init => RecoveryInv
  BY InitFileInv DEF Init, RecoveryInv, SyncedIsDurable
<1> QED
  BY <1>1, NextRecoveryInv, PTL DEF Spec

\* A success reported by publishFileNoReplace or publishFileNoReplaceOrExact
\* survives every later crash, fsync failure, retry and competing publisher,
\* the workflow's comparing callers included.
THEOREM SyncedDurable == Spec => []SyncedIsDurable
<1>1. RecoveryInv => SyncedIsDurable
  BY DEF RecoveryInv
<1> QED
  BY <1>1, RecoveryInvariant, PTL

\* Publication is a write-once register of which those successes are reads.
THEOREM WriteOnceRefinement == Spec => ImplementsWriteOnce
<1> SUFFICES Spec => Abstract!Spec
  BY DEF ImplementsWriteOnce
<1>1. Init => Abstract!Init
  BY DEF Init, Abstract!Init
<1>2. RecoveryInv /\ RecoveryInv' /\ [Next]_vars => [Abstract!Next]_(Abstract!vars)
  <2> SUFFICES ASSUME RecoveryInv, RecoveryInv', [Next]_vars
               PROVE  [Abstract!Next]_(Abstract!vars)
    OBVIOUS
  <2> USE DEF Abstract!Next, Abstract!vars, history
  <2>1. /\ durable \in Inodes \cup {None} /\ durable' \in Inodes \cup {None}
        /\ synced \subseteq Contents
        /\ \A i \in Inodes : i.bytes \in Contents /\ i # None /\ i.bytes # None
        /\ durable # None => dest = durable
        /\ \A p \in Publishers : pc[p] = "fallback" => entry[p] = "WriteOrExact"
    BY NoneAssumption DEF RecoveryInv, FileInv, TypeOK, Inodes, DurableIsVisible
  <2>2. ASSUME NEW p \in Publishers, SyncDirectory(p) \/ ResyncDirectory(p)
        PROVE  [Abstract!Next]_(Abstract!vars)
    <3>1. Exact(p)
      BY <2>2 DEF SyncDirectory, ResyncDirectory, RecoveryInv, FileInv, CallProgress
    <3>2. CASE Return(p, "ok") /\ durable' = dest /\ durable = None
      <4>1. synced' \in {synced, synced \cup {bytes[p]}} /\ bytes[p] \in Contents
            /\ durable' # None /\ durable'.bytes = bytes[p]
        BY <2>1, <3>1, <3>2 DEF Return, Exact
      <4>2. Abstract!Publish(bytes[p])
        BY <3>2, <4>1 DEF Abstract!Publish
      <4> QED
        BY <4>1, <4>2
    <3>3. CASE Return(p, "ok") /\ durable' = dest /\ durable # None
      <4>1. synced' \in {synced, synced \cup {durable.bytes}} /\ durable' = durable
        BY <2>1, <3>1, <3>3 DEF Return, Exact
      <4>2. CASE synced' = synced
        BY <4>1, <4>2
      <4>3. CASE synced' = synced \cup {durable.bytes}
        BY <2>1, <3>3, <4>1, <4>3 DEF Abstract!Report
      <4> QED
        BY <4>1, <4>2, <4>3
    <3>4. CASE durable' = durable /\ (Goto(p, "resync") \/ Return(p, "committed"))
      BY <3>4 DEF Goto, Return
    <3> QED
      BY <2>2, <3>2, <3>3, <3>4 DEF SyncDirectory, ResyncDirectory
  <2>3. CASE PowerLoss
    <3>1. synced' = synced /\ durable' \in {dest, durable}
      BY <2>3 DEF PowerLoss
    <3>2. CASE durable' = durable
      BY <3>1, <3>2
    <3>3. CASE durable' # durable
      <4>1. durable = None /\ durable' # None
        BY <2>1, <3>1, <3>3
      <4>2. Abstract!Publish(durable'.bytes)
        BY <2>1, <3>1, <4>1 DEF Abstract!Publish
      <4> QED
        BY <2>1, <4>1, <4>2
    <3> QED
      BY <3>2, <3>3
  <2>4. ASSUME NEW p \in Publishers,
               Call(p) \/ InspectDestination(p) \/ Link(p) \/ RemoveTemporary(p)
                 \/ CompareExisting(p) \/ Kill(p)
        PROVE  UNCHANGED <<durable, synced>>
    BY <2>1, <2>4
    DEF Call, StageTemporary, InspectDestination, Link, RemoveTemporary,
        CompareExisting, Kill, ExistsError, Goto, Return
  <2>5. UNCHANGED <<durable, synced>> => UNCHANGED Abstract!vars
    OBVIOUS
  <2>6. CASE UNCHANGED vars
    BY <2>5, <2>6 DEF vars
  <2> QED
    BY <2>2, <2>3, <2>4, <2>5, <2>6 DEF Next
<1>3. Spec => []RecoveryInv
  BY RecoveryInvariant
<1> QED
  BY <1>1, <1>2, <1>3, PTL DEF Spec, Abstract!Spec
=============================================================================
