------------------------ MODULE BrowserProver_proofs ------------------------
(***************************************************************************)
(* Proofs about BrowserProver, for any number of calls, releases, shards,  *)
(* sections and FFT workers.                                               *)
(*                                                                         *)
(* ProverInv says that the holder of preparedMu is the only call with an   *)
(* engine, that this engine is its own or the session's together with the  *)
(* session's files, that an engine nobody uses has neither workers nor a   *)
(* pool to get them from, and what a call has gathered at each step.       *)
(* FilesInv says which files a call and the session have, all of them      *)
(* checked against those before.  ExactInv follows a section and its       *)
(* workers shard by shard, and the vectors of computeH phase by phase.     *)
(***************************************************************************)
EXTENDS BrowserProver, FiniteSetTheorems, SequenceTheorems, WellFoundedInduction, TLAPS

----------------------------------------------------------------------------
\* Records of the calls.

Fields == {"pc", "bundle", "ccs", "engine", "own", "path", "step", "exact", "ranged", "cause"}

HasFields(r) == r = [f \in Fields |-> r[f]]

\* call is a function on Calls whose values have these fields.
CallShaped ==
  /\ call = [c \in Calls |-> call[c]]
  /\ \A c \in Calls : /\ HasFields(call[c])
                      /\ call[c].own \in BOOLEAN /\ call[c].step \in Nat

\* Call c alone becomes what the arguments say.
Turns(c, pc, bundle, ccs, engine, own, path, step) ==
  /\ CallShaped'
  /\ \A d \in Calls : d # c => call'[d] = call[d]
  /\ call'[c].pc = pc /\ call'[c].bundle = bundle /\ call'[c].ccs = ccs
  /\ call'[c].engine = engine /\ call'[c].own = own /\ call'[c].path = path
  /\ call'[c].step = step

\* One call changes and keeps its fields: the calls keep their shape.
LEMMA OneCallShaped ==
  ASSUME CallShaped, NEW c \in Calls,
         call' = [d \in Calls |-> call'[d]],
         \A d \in Calls : d # c => call'[d] = call[d],
         HasFields(call'[c]), call'[c].own \in BOOLEAN, call'[c].step \in Nat
  PROVE  CallShaped'
  BY DEF CallShaped, HasFields

\* A call that only goes on.
LEMMA TurnsGoto ==
  ASSUME CallShaped, NEW c \in Calls, NEW pc, Goto(c, pc)
  PROVE  Turns(c, pc, call[c].bundle, call[c].ccs, call[c].engine, call[c].own, call[c].path,
               call[c].step)
<1>1. /\ call' = [d \in Calls |-> call'[d]]
      /\ \A d \in Calls : d # c => call'[d] = call[d]
      /\ call'[c] = [call[c] EXCEPT !.pc = pc]
  BY DEF CallShaped, Goto
<1> QED
  BY <1>1 DEF CallShaped, Turns, HasFields, Fields

\* A call that ends.
LEMMA TurnsEnd ==
  ASSUME CallShaped, NEW c \in Calls, NEW outcome, Ends(c, outcome)
  PROVE  Turns(c, outcome, <<>>, None, None, FALSE, None, 1)
<1>1. /\ call' = [d \in Calls |-> call'[d]]
      /\ \A d \in Calls : d # c => call'[d] = call[d]
      /\ call'[c] = [NewCall EXCEPT !.pc = outcome]
  BY DEF CallShaped, Ends
<1>2. call'[c] = [pc |-> outcome, bundle |-> <<>>, ccs |-> None, engine |-> None, own |-> FALSE,
                  path |-> None, step |-> 1, exact |-> TRUE, ranged |-> FALSE, cause |-> "none"]
  BY <1>1 DEF NewCall
<1>3. HasFields(call'[c])
  BY <1>2 DEF HasFields, Fields
<1>4. /\ call'[c].pc = outcome /\ call'[c].bundle = <<>> /\ call'[c].ccs = None
      /\ call'[c].engine = None /\ call'[c].own = FALSE /\ call'[c].path = None
      /\ call'[c].step = 1
  BY <1>2
<1>5. CallShaped'
  <2>1. call'[c].own \in BOOLEAN /\ call'[c].step \in Nat
    BY <1>2
  <2> QED
    BY <1>1, <1>3, <2>1, OneCallShaped
<1> QED
  BY <1>1, <1>4, <1>5 DEF Turns

\* prove takes the session's files and engine.
LEMMA TurnsShare ==
  ASSUME CallShaped, NEW c \in Calls, NEW b, NEW e,
         call' = [call EXCEPT ![c].pc = "ccs", ![c].bundle = b, ![c].engine = e]
  PROVE  Turns(c, "ccs", b, call[c].ccs, e, call[c].own, call[c].path, call[c].step)
<1>1. /\ call' = [d \in Calls |-> call'[d]]
      /\ \A d \in Calls : d # c => call'[d] = call[d]
      /\ call'[c] = [call[c] EXCEPT !.pc = "ccs", !.bundle = b, !.engine = e]
  BY DEF CallShaped
<1> QED
  BY <1>1 DEF CallShaped, Turns, HasFields, Fields

\* prove opens files of its own.
LEMMA TurnsOwn ==
  ASSUME CallShaped, NEW c \in Calls,
         call' = [call EXCEPT ![c].pc = "fetch", ![c].own = TRUE]
  PROVE  Turns(c, "fetch", call[c].bundle, call[c].ccs, call[c].engine, TRUE, call[c].path,
               call[c].step)
<1>1. /\ call' = [d \in Calls |-> call'[d]]
      /\ \A d \in Calls : d # c => call'[d] = call[d]
      /\ call'[c] = [call[c] EXCEPT !.pc = "fetch", !.own = TRUE]
  BY DEF CallShaped
<1> QED
  BY ZenonT(30), <1>1 DEF CallShaped, Turns, HasFields, Fields

\* A file arrives.
LEMMA TurnsFile ==
  ASSUME CallShaped, NEW c \in Calls, NEW pc, NEW b,
         call' = [call EXCEPT ![c].pc = pc, ![c].bundle = b]
  PROVE  Turns(c, pc, b, call[c].ccs, call[c].engine, call[c].own, call[c].path, call[c].step)
<1>1. /\ call' = [d \in Calls |-> call'[d]]
      /\ \A d \in Calls : d # c => call'[d] = call[d]
      /\ call'[c] = [call[c] EXCEPT !.pc = pc, !.bundle = b]
  BY DEF CallShaped
<1> QED
  BY ZenonT(30), <1>1 DEF CallShaped, Turns, HasFields, Fields

\* A constraint system is opened.
LEMMA TurnsCCS ==
  ASSUME CallShaped, NEW c \in Calls, NEW x,
         call' = [call EXCEPT ![c].pc = "path", ![c].ccs = x]
  PROVE  Turns(c, "path", call[c].bundle, x, call[c].engine, call[c].own, call[c].path,
               call[c].step)
<1>1. /\ call' = [d \in Calls |-> call'[d]]
      /\ \A d \in Calls : d # c => call'[d] = call[d]
      /\ call'[c] = [call[c] EXCEPT !.pc = "path", !.ccs = x]
  BY DEF CallShaped
<1> QED
  BY ZenonT(30), <1>1 DEF CallShaped, Turns, HasFields, Fields

\* A path is found.
LEMMA TurnsPath ==
  ASSUME CallShaped, NEW c \in Calls, NEW x,
         call' = [call EXCEPT ![c].pc = "select", ![c].path = x]
  PROVE  Turns(c, "select", call[c].bundle, call[c].ccs, call[c].engine, call[c].own, x,
               call[c].step)
<1>1. /\ call' = [d \in Calls |-> call'[d]]
      /\ \A d \in Calls : d # c => call'[d] = call[d]
      /\ call'[c] = [call[c] EXCEPT !.pc = "select", !.path = x]
  BY DEF CallShaped
<1> QED
  BY ZenonT(30), <1>1 DEF CallShaped, Turns, HasFields, Fields

\* An engine is selected.
LEMMA TurnsEngine ==
  ASSUME CallShaped, NEW c \in Calls, NEW pc, NEW e,
         call' = [call EXCEPT ![c].engine = e, ![c].pc = pc]
  PROVE  Turns(c, pc, call[c].bundle, call[c].ccs, e, call[c].own, call[c].path, call[c].step)
<1>1. /\ call' = [d \in Calls |-> call'[d]]
      /\ \A d \in Calls : d # c => call'[d] = call[d]
      /\ call'[c] = [call[c] EXCEPT !.engine = e, !.pc = pc]
  BY DEF CallShaped
<1> QED
  BY <1>1 DEF CallShaped, Turns, HasFields, Fields

\* A section fails.
LEMMA TurnsDemoted ==
  ASSUME CallShaped, NEW c \in Calls, NEW x,
         call' = [call EXCEPT ![c].cause = x, ![c].pc = "demote"]
  PROVE  Turns(c, "demote", call[c].bundle, call[c].ccs, call[c].engine, call[c].own,
               call[c].path, call[c].step)
<1>1. /\ call' = [d \in Calls |-> call'[d]]
      /\ \A d \in Calls : d # c => call'[d] = call[d]
      /\ call'[c] = [call[c] EXCEPT !.cause = x, !.pc = "demote"]
  BY DEF CallShaped
<1> QED
  BY ZenonT(30), <1>1 DEF CallShaped, Turns, HasFields, Fields

\* A section is added up.
LEMMA TurnsSection ==
  ASSUME CallShaped, NEW c \in Calls, NEW y, NEW z, NEW x,
         call' = [call EXCEPT ![c].pc = "multiply", ![c].step = @ + 1, ![c].exact = y,
                              ![c].ranged = z, ![c].ccs = x]
  PROVE  Turns(c, "multiply", call[c].bundle, x, call[c].engine, call[c].own, call[c].path,
               call[c].step + 1)
<1>1. /\ call' = [d \in Calls |-> call'[d]]
      /\ \A d \in Calls : d # c => call'[d] = call[d]
      /\ call'[c] = [call[c] EXCEPT !.pc = "multiply", !.step = @ + 1, !.exact = y,
                                    !.ranged = z, !.ccs = x]
  BY DEF CallShaped
<1>2. HasFields(call[c]) /\ call[c].own \in BOOLEAN /\ call[c].step \in Nat
  BY DEF CallShaped
<1>3. HasFields(call'[c])
  BY ZenonT(30), <1>1, <1>2 DEF HasFields, Fields
<1>4. /\ call'[c].pc = "multiply" /\ call'[c].bundle = call[c].bundle /\ call'[c].ccs = x
      /\ call'[c].engine = call[c].engine /\ call'[c].own = call[c].own
      /\ call'[c].path = call[c].path /\ call'[c].step = call[c].step + 1
  BY <1>1, <1>2 DEF HasFields, Fields
<1>5. CallShaped'
  <2>1. call'[c].own \in BOOLEAN /\ call'[c].step \in Nat
    BY <1>2, <1>4
  <2> QED
    BY <1>1, <1>3, <2>1, OneCallShaped
<1> QED
  BY <1>1, <1>4, <1>5 DEF Turns

\* The attempt on the CPU, with the constraint system there is or another.
LEMMA TurnsCPU ==
  ASSUME CallShaped, NEW c \in Calls,
         call' = [call EXCEPT ![c].pc = "cpu", ![c].step = 1]
  PROVE  Turns(c, "cpu", call[c].bundle, call[c].ccs, call[c].engine, call[c].own, call[c].path, 1)
<1>1. /\ call' = [d \in Calls |-> call'[d]]
      /\ \A d \in Calls : d # c => call'[d] = call[d]
      /\ call'[c] = [call[c] EXCEPT !.pc = "cpu", !.step = 1]
  BY DEF CallShaped
<1> QED
  BY ZenonT(30), <1>1 DEF CallShaped, Turns, HasFields, Fields

\* Taking up a proof on the CPU after a failure changes these fields of a call.
LEMMA TurnsReload ==
  ASSUME CallShaped, NEW c \in Calls, NEW x,
         call' = [call EXCEPT ![c].pc = "cpu", ![c].step = 1, ![c].ccs = x]
  PROVE  Turns(c, "cpu", call[c].bundle, x, call[c].engine, call[c].own, call[c].path, 1)
<1>1. /\ call' = [d \in Calls |-> call'[d]]
      /\ \A d \in Calls : d # c => call'[d] = call[d]
      /\ call'[c] = [call[c] EXCEPT !.pc = "cpu", !.step = 1, !.ccs = x]
  BY DEF CallShaped
<1> QED
  BY <1>1 DEF CallShaped, Turns, HasFields, Fields

\* A proof on the CPU changes these fields of a call.
LEMMA TurnsOnCPU ==
  ASSUME CallShaped, NEW c \in Calls, NEW y, NEW x,
         call' = [call EXCEPT ![c].pc = "verify", ![c].ranged = TRUE, ![c].exact = y, ![c].ccs = x]
  PROVE  Turns(c, "verify", call[c].bundle, x, call[c].engine, call[c].own, call[c].path,
               call[c].step)
<1>1. /\ call' = [d \in Calls |-> call'[d]]
      /\ \A d \in Calls : d # c => call'[d] = call[d]
      /\ call'[c] = [call[c] EXCEPT !.pc = "verify", !.ranged = TRUE, !.exact = y, !.ccs = x]
  BY DEF CallShaped
<1> QED
  BY <1>1 DEF CallShaped, Turns, HasFields, Fields

----------------------------------------------------------------------------
\* The other variables.

SessionFields == {"key", "bundle", "ccs", "engine"}
SectionFields == {"engine", "name", "planned", "bundle", "ranges", "firstErr", "task"}
PoolFields == {"exists", "prespawn", "spawned", "spawnErr", "open", "free", "live", "nextID",
               "running", "inbox", "reply"}

SessionShaped == session = [f \in SessionFields |-> session[f]]
SectionShaped == section # None => section = [f \in SectionFields |-> section[f]]
PoolShaped(p) == p = [f \in PoolFields |-> p[f]]

EnginesShaped ==
  /\ workers = [e \in Calls |-> workers[e]]
  /\ fft = [e \in Calls |-> fft[e]]
  /\ \A e \in Calls : PoolShaped(fft[e]) /\ fft[e].running \subseteq FFTWorkers

\* The inductive invariant.
ProverInv ==
  /\ CallShaped /\ SessionShaped /\ SectionShaped /\ EnginesShaped
  /\ \A c \in Calls : CallHolds(c) /\ InputsRight(c)
  /\ SectionOwned /\ ClosedEngines /\ CacheRight /\ SessionFresh

\* A call that is not the one that moves: either nothing it looks at changes, or it
\* does not hold the lock and has neither files nor an engine.
LEMMA OtherCall ==
  ASSUME NEW c \in Calls, NEW d \in Calls, d # c, options' = options, call'[d] = call[d],
         CallHolds(d), InputsRight(d),
         (session' = session /\ mutex' = mutex) \/ mutex \in {None, c}
  PROVE  CallHolds(d)' /\ InputsRight(d)'
<1>1. CASE session' = session /\ mutex' = mutex
  <2>1. CallHolds(d)'
    BY <1>1 DEF CallHolds, Asked, Prepared, Key
  <2>2. InputsRight(d)'
    BY <1>1 DEF InputsRight, Asked, Key, Fresh
  <2> QED BY <2>1, <2>2
<1>2. CASE mutex \in {None, c}
  <2>1. call[d].pc \notin Locked /\ call[d].engine = None
    BY <1>2, ProverAssumption DEF CallHolds, Asked, Key
  <2>2. CallHolds(d)'
    BY <2>1 DEF CallHolds, Locked, Asked, Key
  <2>3. InputsRight(d)'
    BY <2>1 DEF InputsRight, Locked
  <2> QED BY <2>2, <2>3
<1> QED BY <1>1, <1>2

\* A step of call c, by what it leaves to be shown.
LEMMA OneCallMoves ==
  ASSUME ProverInv, NEW c \in Calls, options' = options,
         CallShaped', \A d \in Calls : d # c => call'[d] = call[d],
         SessionShaped', SectionShaped', EnginesShaped',
         (session' = session /\ mutex' = mutex) \/ mutex \in {None, c},
         CallHolds(c)', InputsRight(c)',
         SectionOwned', ClosedEngines', CacheRight', SessionFresh'
  PROVE  ProverInv'
<1>1. \A d \in Calls : CallHolds(d)' /\ InputsRight(d)'
  <2> TAKE d \in Calls
  <2>1. CASE d = c
    BY <2>1
  <2>2. CASE d # c
    <3>1. CallHolds(d) /\ InputsRight(d) /\ call'[d] = call[d]
      BY <2>2 DEF ProverInv
    <3> QED BY <2>2, <3>1, OtherCall
  <2> QED BY <2>1, <2>2
<1> QED BY <1>1 DEF ProverInv

\* The section stays that of a call that does not move.
LEMMA SectionStays ==
  ASSUME SectionOwned, SectionShaped, NEW c \in Calls, section' = section,
         call[c].pc # "section", \A d \in Calls : d # c => call'[d] = call[d]
  PROVE  SectionOwned' /\ SectionShaped'
<1>1. SectionShaped'
  BY DEF SectionShaped
<1>2. SectionOwned'
  BY DEF SectionOwned
<1> QED BY <1>1, <1>2

\* Nobody's engine is touched and nobody lets go of one.
LEMMA EnginesStay ==
  ASSUME EnginesShaped, ClosedEngines, workers' = workers, fft' = fft,
         \A e \in Calls : e \in InUse => e \in InUse'
  PROVE  EnginesShaped' /\ ClosedEngines'
<1>1. EnginesShaped'
  BY DEF EnginesShaped, PoolShaped
<1>2. ClosedEngines'
  BY DEF ClosedEngines, Drained
<1> QED BY <1>1, <1>2

----------------------------------------------------------------------------
\* Pools.

\* q is what an operation of a pool may make of p: it neither creates a pool nor
\* forgets that one is closed, and only a pool that is not closed gets workers.
Follows(p, q) ==
  /\ PoolShaped(q)
  /\ q.exists = p.exists
  /\ p.spawnErr => q.spawnErr
  /\ q.running \subseteq p.running \/ (p.exists /\ ~p.spawnErr)
  /\ p.running \subseteq FFTWorkers => q.running \subseteq FFTWorkers

\* A pool that does not change follows itself.
LEMMA FollowsItself ==
  ASSUME NEW p, PoolShaped(p)
  PROVE  Follows(p, p)
  BY DEF Follows

\* What follows a follower of a pool follows the pool.
LEMMA FollowsTwice ==
  ASSUME NEW p, NEW q, NEW r, Follows(p, q), Follows(q, r)
  PROVE  Follows(p, r)
  BY DEF Follows

\* What follows a drained pool is drained.
LEMMA FollowsDrained ==
  ASSUME NEW p, NEW q, Follows(p, q)
  PROVE  /\ (~p.exists => p.running = {}) => (~q.exists => q.running = {})
         /\ Drained(p) => Drained(q)
  BY DEF Follows, Drained

\* ensureSpawned gives no worker to a pool that has recorded an error of spawning.
LEMMA SpawnFollows ==
  ASSUME NEW p, PoolShaped(p), p.exists
  PROVE  Follows(p, ensureSpawned(p))
<1>1. CASE p.spawnErr \/ p.spawned
  BY <1>1, FollowsItself DEF ensureSpawned
<1>2. CASE ~(p.spawnErr \/ p.spawned)
  <2> DEFINE q == [p EXCEPT !.spawned = TRUE, !.open = TRUE, !.free = FFTWorkers,
                            !.running = FFTWorkers, !.live = Cardinality(FFTWorkers)]
  <2>1. PoolShaped(q)
    BY DEF PoolShaped, PoolFields
  <2>2. q.exists = p.exists
    BY DEF PoolShaped, PoolFields
  <2>3. q.running = FFTWorkers
    BY DEF PoolShaped, PoolFields
  <2>4. ensureSpawned(p) = q
    BY <1>2 DEF ensureSpawned
  <2> QED
    BY <1>2, <2>1, <2>2, <2>3, <2>4 DEF Follows
<1> QED BY <1>1, <1>2

\* The fields that an invariant speaks of, whatever becomes of the others.
LEMMA TerminatedFollows ==
  ASSUME NEW p, PoolShaped(p), NEW ws
  PROVE  /\ Follows(p, Terminated(p, ws))
         /\ Terminated(p, ws).running = p.running \ ws
         /\ Terminated(p, ws).exists = p.exists /\ Terminated(p, ws).spawnErr = p.spawnErr
<1> DEFINE q == Terminated(p, ws)
<1>1. PoolShaped(q)
  BY DEF PoolShaped, PoolFields, Terminated
<1>2. q.running = p.running \ ws
  BY DEF PoolShaped, PoolFields, Terminated
<1>3. q.exists = p.exists /\ q.spawnErr = p.spawnErr
  BY DEF PoolShaped, PoolFields, Terminated
<1>4. q.running \subseteq p.running
  BY <1>2
<1>5. Follows(p, q)
  BY <1>1, <1>3, <1>4 DEF Follows
<1> QED BY <1>2, <1>3, <1>5

\* retire gives no worker to any pool.
LEMMA RetireFollows ==
  ASSUME NEW p, PoolShaped(p), NEW w
  PROVE  Follows(p, retire(p, w))
<1> DEFINE live == IF p.live > 0 THEN p.live - 1 ELSE 0
           t == Terminated(p, {w})
           q == [t EXCEPT !.live = live, !.spawnErr = @ \/ live = 0]
<1>1. Follows(p, t)
  BY TerminatedFollows
<1>2. PoolShaped(t)
  BY <1>1 DEF Follows
<1> HIDE DEF t, live
<1>3. PoolShaped(q)
  BY <1>2 DEF PoolShaped, PoolFields
<1>4. q.exists = t.exists /\ q.running = t.running
  BY <1>2 DEF PoolShaped, PoolFields
<1>5. q.spawnErr = (t.spawnErr \/ live = 0)
  BY <1>2 DEF PoolShaped, PoolFields
<1>6. Follows(t, q)
  BY <1>3, <1>4, <1>5 DEF Follows
<1>7. retire(p, w) = q
  BY DEF retire, t, live
<1> QED BY <1>1, <1>6, <1>7, FollowsTwice

\* close leaves a pool that can get no worker any more.
LEMMA CloseDrains ==
  ASSUME NEW p, PoolShaped(p), p.running \subseteq FFTWorkers
  PROVE  PoolShaped(close(p)) /\ Drained(close(p)) /\ close(p).exists = p.exists
<1> DEFINE t == Terminated(p, FFTWorkers)
           q == [t EXCEPT !.open = FALSE, !.free = {}, !.spawnErr = TRUE]
<1>1. PoolShaped(t) /\ t.running = {} /\ t.exists = p.exists
  BY TerminatedFollows DEF Follows
<1> HIDE DEF t
<1>2. PoolShaped(q)
  BY <1>1 DEF PoolShaped, PoolFields
<1>3. q.exists = t.exists /\ q.running = t.running /\ q.spawnErr
  BY <1>1 DEF PoolShaped, PoolFields
<1>4. close(p) = q
  BY DEF close, t
<1> QED BY <1>1, <1>2, <1>3, <1>4 DEF Drained

\* The pools that there are before anything is spawned.
LEMMA NewPools ==
  /\ PoolShaped(NoPool) /\ NoPool.running = {} /\ ~NoPool.exists
  /\ PoolShaped(newHFFTPool) /\ newHFFTPool.running = {} /\ newHFFTPool.exists
<1>1. PoolShaped(NoPool) /\ NoPool.running = {} /\ ~NoPool.exists
  BY DEF PoolShaped, PoolFields, NoPool
<1> DEFINE q == [NoPool EXCEPT !.exists = TRUE, !.prespawn = TRUE]
<1>2. PoolShaped(q) /\ q.running = NoPool.running /\ q.exists
  BY <1>1 DEF PoolShaped, PoolFields
<1>3. newHFFTPool = q
  BY DEF newHFFTPool
<1> QED BY <1>1, <1>2, <1>3

\* Engines are closed when nobody else lets go of one.
LEMMA EnginesClose ==
  ASSUME EnginesShaped, ClosedEngines, NEW es, Closed(es),
         \A e \in Calls : e \in InUse => e \in InUse' \/ e \in es
  PROVE  EnginesShaped' /\ ClosedEngines'
<1>1. \A e \in Calls : /\ workers'[e] = IF e \in es THEN None ELSE workers[e]
                       /\ fft'[e] = IF e \in es /\ fft[e].exists THEN close(fft[e]) ELSE fft[e]
  BY DEF Closed
<1>2. /\ workers' = [e \in Calls |-> workers'[e]]
      /\ fft' = [e \in Calls |-> fft'[e]]
  BY DEF Closed
<1>3. ASSUME NEW e \in Calls
      PROVE  /\ PoolShaped(fft'[e]) /\ fft'[e].running \subseteq FFTWorkers
             /\ ~fft'[e].exists => fft'[e].running = {}
             /\ e \in es => workers'[e] = None /\ Drained(fft'[e])
             /\ e \notin es => workers'[e] = workers[e] /\ fft'[e] = fft[e]
  <2>1. PoolShaped(fft[e]) /\ fft[e].running \subseteq FFTWorkers
    BY DEF EnginesShaped
  <2>2. ~fft[e].exists => fft[e].running = {}
    BY DEF ClosedEngines
  <2>3. PoolShaped(close(fft[e])) /\ Drained(close(fft[e])) /\ close(fft[e]).exists = fft[e].exists
    BY <2>1, CloseDrains
  <2> QED BY <1>1, <2>1, <2>2, <2>3 DEF Drained
<1>4. EnginesShaped'
  BY <1>2, <1>3 DEF EnginesShaped, PoolShaped
<1>5. ClosedEngines'
  BY <1>3 DEF ClosedEngines, Drained
<1> QED BY <1>4, <1>5

\* An engine is opened for a call that will close it.
LEMMA EnginesOpen ==
  ASSUME EnginesShaped, ClosedEngines, NEW c \in Calls, NEW key, Opened(c, key), c \in InUse',
         \A e \in Calls : e \in InUse => e \in InUse'
  PROVE  EnginesShaped' /\ ClosedEngines'
<1>1. /\ workers' = [e \in Calls |-> workers'[e]]
      /\ fft' = [e \in Calls |-> fft'[e]]
  BY DEF Opened, EnginesShaped
<1>2. \A e \in Calls : e # c => workers'[e] = workers[e] /\ fft'[e] = fft[e]
  BY DEF Opened, EnginesShaped
<1>3. fft'[c] \in {fft[c], newHFFTPool}
  BY DEF Opened, EnginesShaped
<1>4. EnginesShaped'
  <2>1. ASSUME NEW e \in Calls PROVE PoolShaped(fft'[e]) /\ fft'[e].running \subseteq FFTWorkers
    BY <1>2, <1>3, NewPools DEF EnginesShaped
  <2> QED BY <1>1, <2>1 DEF EnginesShaped, PoolShaped
<1>5. ClosedEngines'
  BY <1>2, <1>3, NewPools DEF ClosedEngines, Drained
<1> QED BY <1>4, <1>5

\* One pool is operated on.
LEMMA EnginesFollow ==
  ASSUME EnginesShaped, ClosedEngines, workers' = workers, InUse' = InUse,
         fft' = [e \in Calls |-> fft'[e]],
         \A e \in Calls : Follows(fft[e], fft'[e])
  PROVE  EnginesShaped' /\ ClosedEngines'
<1>1. EnginesShaped'
  BY DEF EnginesShaped, Follows, PoolShaped
<1>2. ClosedEngines'
  BY FollowsDrained DEF ClosedEngines, Drained
<1> QED BY <1>1, <1>2

----------------------------------------------------------------------------
\* The steps of a call.

\* A call that keeps its engine.
LEMMA UsersStay ==
  ASSUME NEW c \in Calls, \A d \in Calls : d # c => call'[d] = call[d],
         session'.engine = session.engine, call'[c].engine = call[c].engine,
         call[c].pc # "probed"
  PROVE  \A e \in Calls : e \in InUse => e \in InUse'
<1> SUFFICES ASSUME NEW e \in Calls, e \in InUse PROVE e \in InUse'
  OBVIOUS
<1>1. CASE e \in SessionEngine
  BY <1>1 DEF InUse, SessionEngine
<1>2. CASE \E d \in Calls : e = call[d].engine
  <2>1. \E d \in Calls : e = call'[d].engine
    BY <1>2
  <2> QED BY <2>1 DEF InUse
<1>3. CASE call[e].pc = "probed"
  BY <1>3 DEF InUse
<1> QED BY <1>1, <1>2, <1>3 DEF InUse

\* A step that concerns the call alone.
LEMMA QuietStep ==
  ASSUME ProverInv, NEW c \in Calls, options' = options,
         workers' = workers, section' = section, fft' = fft, session' = session, mutex' = mutex,
         CallShaped', \A d \in Calls : d # c => call'[d] = call[d],
         call'[c].engine = call[c].engine, call[c].pc \notin {"section", "probed"},
         CallHolds(c)', InputsRight(c)', CacheRight'
  PROVE  ProverInv'
<1>1. SessionShaped' /\ SessionFresh'
  BY DEF ProverInv, SessionShaped, SessionFresh, Fresh
<1>2. SectionOwned' /\ SectionShaped'
  BY SectionStays DEF ProverInv
<1>3. EnginesShaped' /\ ClosedEngines'
  BY UsersStay, EnginesStay DEF ProverInv
<1> QED BY <1>1, <1>2, <1>3, OneCallMoves

\* openStreamingArtifacts.
LEMMA FetchKeeps ==
  ASSUME ProverInv, NEW c \in Calls, options' = options, Fetch(c)
  PROVE  ProverInv'
<1>1. CallShaped /\ CallHolds(c) /\ InputsRight(c) /\ CacheRight
  BY DEF ProverInv
<1>2. /\ call[c].pc = "fetch" /\ workers' = workers /\ section' = section /\ fft' = fft
      /\ session' = session /\ mutex' = mutex /\ cache' = cache
  BY Zenon DEF Fetch, engineVars, fftVars
<1>3. CacheRight'
  BY <1>1, <1>2 DEF CacheRight
<1>4. ASSUME NEW pc \in {"ccs", "fetch", "failing"}, NEW b,
             Turns(c, pc, b, call[c].ccs, call[c].engine, call[c].own, call[c].path, call[c].step)
      PROVE  ProverInv'
  <2> DEFINE k == call'[c]
  <2>1. /\ call[c].engine = None /\ mutex = c
        /\ Asked(c).kind # "prove" => ~Prepared
    BY <1>1, <1>2 DEF CallHolds, Locked, Asked, Key
  <2>2. k.engine = None /\ k.pc = pc
    BY <1>4, <2>1 DEF Turns
  <2>3. CallHolds(c)'
    BY <1>2, <2>1, <2>2 DEF CallHolds, Asked, Prepared, Locked, Key
  <2>4. InputsRight(c)'
    BY <1>4 DEF InputsRight, Turns
  <2> QED BY <1>2, <1>3, <1>4, <2>3, <2>4, QuietStep DEF Turns
<1>5. CASE Goto(c, "failing")
  BY <1>1, <1>4, <1>5, TurnsGoto
<1>6. ASSUME NEW pc \in {"ccs", "fetch"}, NEW b,
             call' = [call EXCEPT ![c].pc = pc, ![c].bundle = b]
      PROVE  ProverInv'
  BY <1>1, <1>4, <1>6, TurnsFile
<1> QED BY <1>5, <1>6, Zenon DEF Fetch

\* discoverCredentialPaths.
LEMMA SearchKeeps ==
  ASSUME ProverInv, NEW c \in Calls, options' = options, Search(c)
  PROVE  ProverInv'
<1>1. CallShaped /\ CallHolds(c) /\ InputsRight(c) /\ CacheRight
  BY DEF ProverInv
<1>2. /\ call[c].pc = "search" /\ workers' = workers /\ section' = section /\ fft' = fft
      /\ session' = session /\ mutex' = mutex /\ cache' = cache
  BY DEF Search, engineVars, fftVars
<1>3. CacheRight'
  BY <1>1, <1>2 DEF CacheRight
<1>4. PICK pc \in {"cache", "failing"} :
        Turns(c, pc, call[c].bundle, call[c].ccs, call[c].engine, call[c].own, call[c].path,
              call[c].step)
  BY <1>1, TurnsGoto DEF Search
<1>5. call[c].engine = None /\ ~call[c].own
  BY <1>1, <1>2 DEF CallHolds, Locked, Asked, Key
<1>6. CallHolds(c)'
  BY <1>4, <1>5 DEF CallHolds, Turns, Locked, Asked, Key
<1>7. InputsRight(c)'
  BY <1>4 DEF InputsRight, Turns
<1> QED BY <1>2, <1>3, <1>4, <1>6, <1>7, QuietStep DEF Turns

\* What the cache holds after cacheDiscoveryPaths.
LEMMA DiscoveredRight ==
  ASSUME NEW c, cacheDiscoveryPaths(c)
  PROVE  CacheRight'
<1> DEFINE m == Asked(c).master
           ps == [t \in {Asked(c).target} \cap DOMAIN Owned[m] |-> Owned[m][t]]
<1>1. cache'.master = m /\ cache'.paths = ps
  BY DEF cacheDiscoveryPaths, Discovered
<1> QED BY <1>1 DEF CacheRight

\* Looking into the cache of owned paths, or clearing it for another master key, keeps
\* the invariant: what is found is a path of the master key asked for.
LEMMA CacheKeeps ==
  ASSUME ProverInv, NEW c \in Calls, options' = options, Cache(c)
  PROVE  ProverInv'
<1>1. CallShaped /\ CallHolds(c)
  BY DEF ProverInv
<1>2. /\ call[c].pc = "cache" /\ workers' = workers /\ section' = section /\ fft' = fft
      /\ session' = session /\ mutex' = mutex
  BY DEF Cache, engineVars, fftVars
<1>3. CacheRight'
  BY DiscoveredRight DEF Cache
<1>4. Turns(c, "ok", <<>>, None, None, FALSE, None, 1)
  BY <1>1, TurnsEnd DEF Cache
<1>5. call[c].engine = None
  BY <1>1, <1>2 DEF CallHolds, Locked, Asked, Key
<1>6. CallHolds(c)'
  BY <1>4 DEF CallHolds, Turns, Locked, Asked, Key
<1>7. InputsRight(c)'
  BY <1>4 DEF InputsRight, Turns
<1> QED BY <1>2, <1>3, <1>4, <1>5, <1>6, <1>7, QuietStep DEF Turns

\* A call that holds the lock and keeps its files, its constraint system and its
\* engine goes on without one being selected.
LEMMA LockedGoesOn ==
  ASSUME ProverInv, NEW c \in Calls, options' = options,
         workers' = workers, section' = section, fft' = fft, session' = session, mutex' = mutex,
         call[c].pc \in Locked \ {"fetch", "section"},
         NEW pc \in {"failing", "find", "select", "cpu", "verify", "path"}, NEW ccs, NEW path, NEW step,
         Turns(c, pc, call[c].bundle, ccs, call[c].engine, call[c].own, path, step),
         pc \in {"path", "find", "select"} => call[c].pc \in {"ccs", "path", "find"},
         pc \in {"select", "cpu"} => /\ Asked(c).target \in DOMAIN Owned[Asked(c).master]
                                     /\ path = Owned[Asked(c).master][Asked(c).target],
         pc \in {"path", "find", "select", "cpu"} => Fresh(ccs, Key(c), call[c].bundle),
         CacheRight'
  PROVE  ProverInv'
<1>1. CallShaped /\ CallHolds(c)
  BY DEF ProverInv
<1>2. mutex = c
  BY <1>1 DEF CallHolds, Asked, Key
<1>3. CallHolds(c)'
  BY <1>1, <1>2 DEF CallHolds, Turns, Locked, Asked, Prepared, Key
<1>4. InputsRight(c)'
  BY DEF InputsRight, Turns, Asked, Key, Fresh
<1>5. call[c].pc \notin {"section", "probed"}
  BY DEF Locked
<1> QED BY <1>3, <1>4, <1>5, QuietStep DEF Turns

\* Only the expected constraint system or a compiled one is opened.
LEMMA OpensFresh ==
  ASSUME NEW c \in Calls, NEW x \in openConstraintSystem(c)
  PROVE  Fresh(System(x), Key(c), call[c].bundle)
<1>1. /\ Key(c).planned => Key(c).ccsURL
      /\ x = IF Key(c).ccsURL THEN expectedHash(Key(c), call[c].bundle) ELSE "compiled"
  BY DEF openConstraintSystem
<1>2. x \in {"compiled"} \cup Served("ccs") \cup Served("ccs zst")
  BY DEF openConstraintSystem, fetchCCS
<1>3. System(x) # None
  BY <1>2, SystemAssumption
<1>4. ~System(x).released /\ System(x).content = x
  BY DEF System
<1> QED BY <1>1, <1>3, <1>4 DEF Fresh

\* prove, find-path.
LEMMA FindPathKeeps ==
  ASSUME ProverInv, NEW c \in Calls, options' = options, FindPath(c)
  PROVE  ProverInv'
<1>1. CallShaped /\ CacheRight
  BY DEF ProverInv
<1>2. /\ call[c].pc = "path" /\ workers' = workers /\ section' = section /\ fft' = fft
      /\ session' = session /\ mutex' = mutex
  BY DEF FindPath, engineVars, fftVars
<1>3. call[c].pc \in Locked \ {"fetch", "section"} /\ Fresh(call[c].ccs, Key(c), call[c].bundle)
  BY <1>2 DEF ProverInv, InputsRight, Locked
<1> DEFINE own == Owned[Asked(c).master]
<1>4. CASE ExplicitPath(c)
  <2>1. CacheRight'
    BY <1>1, <1>4 DEF ExplicitPath, CacheRight
  <2>2. PICK path \in Asked(c).explicit :
          IF path \in {own[t] : t \in {Asked(c).target} \cap DOMAIN own}
          THEN call' = [call EXCEPT ![c].pc = "select", ![c].path = path]
          ELSE Goto(c, "failing")
    BY <1>4 DEF ExplicitPath
  <2>3. CASE path \in {own[t] : t \in {Asked(c).target} \cap DOMAIN own}
    <3>1. Asked(c).target \in DOMAIN own /\ path = own[Asked(c).target]
      BY <2>3
    <3>2. Turns(c, "select", call[c].bundle, call[c].ccs, call[c].engine, call[c].own, path,
                call[c].step)
      BY <1>1, <2>2, <2>3, TurnsPath
    <3> QED BY <1>2, <1>3, <2>1, <3>1, <3>2, LockedGoesOn
  <2>4. CASE path \notin {own[t] : t \in {Asked(c).target} \cap DOMAIN own}
    <3>1. Turns(c, "failing", call[c].bundle, call[c].ccs, call[c].engine, call[c].own,
                call[c].path, call[c].step)
      BY <1>1, <2>2, <2>4, TurnsGoto
    <3> QED BY <1>2, <1>3, <2>1, <3>1, LockedGoesOn
  <2> QED BY <2>3, <2>4
<1>5. CASE cachedDiscoveryPath(c)
  <2>1. CacheRight'
    BY <1>1, <1>5 DEF cachedDiscoveryPath, CacheRight
  <2>2. /\ Asked(c).target \in DOMAIN own
        /\ cache.paths[Asked(c).target] = own[Asked(c).target]
    BY <1>1, <1>5 DEF cachedDiscoveryPath, CacheRight
  <2>3. Turns(c, "select", call[c].bundle, call[c].ccs, call[c].engine, call[c].own,
              cache.paths[Asked(c).target], call[c].step)
    BY <1>1, <1>5, TurnsPath DEF cachedDiscoveryPath
  <2> QED BY <1>2, <1>3, <2>1, <2>2, <2>3, LockedGoesOn
<1>6. CASE SearchPath(c)
  <2>1. CacheRight'
    <3>1. cache' = cache \/ cache' = EmptyCache
      BY <1>6 DEF SearchPath
    <3>2. DOMAIN EmptyCache.paths = {}
      BY DEF EmptyCache
    <3> QED BY <1>1, <3>1, <3>2 DEF CacheRight
  <2>2. Turns(c, "find", call[c].bundle, call[c].ccs, call[c].engine, call[c].own, call[c].path,
              call[c].step)
    BY <1>1, <1>6, TurnsGoto DEF SearchPath
  <2> QED BY <1>2, <1>3, <2>1, <2>2, LockedGoesOn
<1> QED BY <1>4, <1>5, <1>6 DEF FindPath

\* A search of the paths of a master key keeps the invariant.
LEMMA FindKeeps ==
  ASSUME ProverInv, NEW c \in Calls, options' = options, Find(c)
  PROVE  ProverInv'
<1>1. CallShaped /\ CacheRight
  BY DEF ProverInv
<1>2. /\ call[c].pc = "find" /\ workers' = workers /\ section' = section /\ fft' = fft
      /\ session' = session /\ mutex' = mutex
  BY DEF Find, engineVars, fftVars
<1>3. call[c].pc \in Locked \ {"fetch", "section"} /\ Fresh(call[c].ccs, Key(c), call[c].bundle)
  BY <1>2 DEF ProverInv, InputsRight, Locked
<1> DEFINE own == Owned[Asked(c).master]
<1>4. CASE Asked(c).target \in DOMAIN own
  <2>1. CacheRight'
    BY <1>4, DiscoveredRight DEF Find
  <2>2. Turns(c, "select", call[c].bundle, call[c].ccs, call[c].engine, call[c].own,
              own[Asked(c).target], call[c].step)
    BY <1>1, <1>4, TurnsPath DEF Find
  <2> QED BY <1>2, <1>3, <1>4, <2>1, <2>2, LockedGoesOn
<1>5. CASE Asked(c).target \notin DOMAIN own
  <2>1. CacheRight'
    BY <1>1, <1>5 DEF Find, CacheRight
  <2>2. Turns(c, "failing", call[c].bundle, call[c].ccs, call[c].engine, call[c].own,
              call[c].path, call[c].step)
    BY <1>1, <1>5, TurnsGoto DEF Find
  <2> QED BY <1>2, <1>3, <2>1, <2>2, LockedGoesOn
<1> QED BY <1>4, <1>5

\* A proof that falls back to the CPU compiles or loads a constraint system that nothing
\* has released.
LEMMA WithFallbackReloadKeeps ==
  ASSUME ProverInv, NEW c \in Calls, options' = options, WithFallbackReload(c)
  PROVE  ProverInv'
<1>1. CallShaped /\ CacheRight /\ InputsRight(c)
  BY DEF ProverInv
<1>2. /\ call[c].pc = "demote" /\ workers' = workers /\ section' = section /\ fft' = fft
      /\ session' = session /\ mutex' = mutex /\ cache' = cache
  BY DEF WithFallbackReload, engineVars, fftVars
<1>3. /\ call[c].pc \in Locked \ {"fetch", "section"}
      /\ Asked(c).target \in DOMAIN Owned[Asked(c).master]
      /\ call[c].path = Owned[Asked(c).master][Asked(c).target]
      /\ ~Key(c).w3 => Fresh(call[c].ccs, Key(c), call[c].bundle)
  BY <1>1, <1>2 DEF InputsRight, Locked
<1>4. CacheRight'
  BY <1>1, <1>2 DEF CacheRight
<1>5. CASE Goto(c, "failing")
  <2>1. Turns(c, "failing", call[c].bundle, call[c].ccs, call[c].engine, call[c].own, call[c].path,
              call[c].step)
    BY <1>1, <1>5, TurnsGoto
  <2> QED BY <1>2, <1>3, <1>4, <2>1, LockedGoesOn
<1>6. CASE ~Key(c).w3 /\ call' = [call EXCEPT ![c].pc = "cpu", ![c].step = 1]
  <2>1. Turns(c, "cpu", call[c].bundle, call[c].ccs, call[c].engine, call[c].own, call[c].path, 1)
    BY <1>1, <1>6, TurnsCPU
  <2> QED BY <1>2, <1>3, <1>4, <1>6, <2>1, LockedGoesOn
<1>7. ASSUME NEW x \in openConstraintSystem(c),
             call' = [call EXCEPT ![c].pc = "cpu", ![c].step = 1, ![c].ccs = System(x)]
      PROVE  ProverInv'
  <2>1. Turns(c, "cpu", call[c].bundle, System(x), call[c].engine, call[c].own, call[c].path, 1)
    BY <1>1, <1>7, TurnsReload
  <2>2. Fresh(System(x), Key(c), call[c].bundle)
    BY <1>7, OpensFresh
  <2> QED BY <1>2, <1>3, <1>4, <2>1, <2>2, LockedGoesOn
<1> QED BY <1>5, <1>6, <1>7 DEF WithFallbackReload

\* A proof on the CPU keeps the invariant.
LEMMA ProveOnCPUKeeps ==
  ASSUME ProverInv, NEW c \in Calls, options' = options, ProveOnCPU(c)
  PROVE  ProverInv'
<1>1. CallShaped /\ CacheRight
  BY DEF ProverInv
<1>2. /\ call[c].pc = "cpu" /\ workers' = workers /\ section' = section /\ fft' = fft
      /\ session' = session /\ mutex' = mutex /\ cache' = cache
  BY DEF ProveOnCPU, engineVars, fftVars
<1>3. call[c].pc \in Locked \ {"fetch", "section"}
  BY <1>2 DEF Locked
<1>4. CacheRight'
  BY <1>1, <1>2 DEF CacheRight
<1>5. CASE Goto(c, "failing")
  <2>1. Turns(c, "failing", call[c].bundle, call[c].ccs, call[c].engine, call[c].own, call[c].path,
              call[c].step)
    BY <1>1, <1>5, TurnsGoto
  <2> QED BY <1>2, <1>3, <1>4, <2>1, LockedGoesOn
<1>6. ASSUME NEW y, NEW x,
             call' = [call EXCEPT ![c].pc = "verify", ![c].ranged = TRUE, ![c].exact = y,
                                  ![c].ccs = x]
      PROVE  ProverInv'
  <2>1. Turns(c, "verify", call[c].bundle, x, call[c].engine, call[c].own, call[c].path,
              call[c].step)
    BY <1>1, <1>6, TurnsOnCPU
  <2> QED BY <1>2, <1>3, <1>4, <2>1, LockedGoesOn
<1> QED BY <1>5, <1>6 DEF ProveOnCPU

\* The end of the last section keeps the invariant.
LEMMA ProvedKeeps ==
  ASSUME ProverInv, NEW c \in Calls, options' = options, Proved(c)
  PROVE  ProverInv'
<1>1. CallShaped /\ CacheRight
  BY DEF ProverInv
<1>2. /\ call[c].pc = "multiply" /\ workers' = workers /\ section' = section /\ fft' = fft
      /\ session' = session /\ mutex' = mutex /\ cache' = cache
  BY DEF Proved, engineVars, fftVars
<1>3. call[c].pc \in Locked \ {"fetch", "section"}
  BY <1>2 DEF Locked
<1>4. CacheRight'
  BY <1>1, <1>2 DEF CacheRight
<1>5. Turns(c, "verify", call[c].bundle, call[c].ccs, call[c].engine, call[c].own, call[c].path,
            call[c].step)
  BY <1>1, TurnsGoto DEF Proved
<1> QED BY <1>2, <1>3, <1>4, <1>5, LockedGoesOn

\* prove, open-ccs, and the end of preflight.
LEMMA OpenCCSKeeps ==
  ASSUME ProverInv, NEW c \in Calls, options' = options, OpenCCS(c)
  PROVE  ProverInv'
<1>1. CallShaped /\ CacheRight /\ SessionFresh /\ CallHolds(c)
  BY DEF ProverInv
<1>2. call[c].pc = "ccs" /\ cache' = cache
  BY DEF OpenCCS
<1>3. call[c].pc \in Locked \ {"fetch", "section"} /\ mutex = c
  BY <1>1, <1>2 DEF Locked, CallHolds, Asked, Key
<1>4. CacheRight'
  BY <1>1, <1>2 DEF CacheRight
<1> DEFINE Alone == /\ workers' = workers /\ section' = section /\ fft' = fft
                    /\ session' = session /\ mutex' = mutex
<1>5. CASE /\ call[c].engine # None /\ session.ccs # None /\ Alone
           /\ call' = [call EXCEPT ![c].pc = "path", ![c].ccs = session.ccs]
  <2>1. Fresh(session.ccs, Key(c), call[c].bundle)
    BY <1>1, <1>2, <1>5 DEF CallHolds, SessionFresh, CallShaped, Asked, Key
  <2>2. Turns(c, "path", call[c].bundle, session.ccs, call[c].engine, call[c].own, call[c].path,
              call[c].step)
    BY <1>1, <1>5, TurnsCCS
  <2> QED BY <1>2, <1>3, <1>4, <1>5, <2>1, <2>2, LockedGoesOn
<1>6. CASE Goto(c, "failing") /\ Alone
  <2>1. Turns(c, "failing", call[c].bundle, call[c].ccs, call[c].engine, call[c].own, call[c].path,
              call[c].step)
    BY <1>1, <1>6, TurnsGoto
  <2> QED BY <1>2, <1>3, <1>4, <1>6, <2>1, LockedGoesOn
<1>7. ASSUME NEW x \in openConstraintSystem(c), Asked(c).kind = "prove", Alone,
             call' = [call EXCEPT ![c].pc = "path", ![c].ccs = System(x)]
      PROVE  ProverInv'
  <2>1. Turns(c, "path", call[c].bundle, System(x), call[c].engine, call[c].own, call[c].path,
              call[c].step)
    BY <1>1, <1>7, TurnsCCS
  <2>2. Fresh(System(x), Key(c), call[c].bundle)
    BY <1>7, OpensFresh
  <2> QED BY <1>2, <1>3, <1>4, <1>7, <2>1, <2>2, LockedGoesOn
<1>8. ASSUME NEW x \in openConstraintSystem(c), Asked(c).kind # "prove",
             session' = [key |-> Key(c), bundle |-> call[c].bundle, ccs |-> System(x),
                         engine |-> c],
             Opened(c, Key(c)), Ends(c, "ok"), mutex' = None, section' = section
      PROVE  ProverInv'
  <2>1. Turns(c, "ok", <<>>, None, None, FALSE, None, 1)
    BY <1>1, <1>8, TurnsEnd
  <2>2. Fresh(System(x), Key(c), call[c].bundle)
    BY <1>8, OpensFresh
  <2>3. SessionShaped'
    BY <1>8 DEF SessionShaped, SessionFields
  <2>4. SessionFresh'
    BY <1>8, <2>2 DEF SessionFresh, Fresh
  <2>5. CallHolds(c)'
    BY <2>1 DEF CallHolds, Turns, Locked, Asked, Key
  <2>6. InputsRight(c)'
    BY <2>1 DEF InputsRight, Turns
  <2>7. SectionOwned' /\ SectionShaped'
    BY <1>2, <1>8, <2>1, SectionStays DEF Turns, ProverInv
  <2>8. c \in InUse' /\ \A e \in Calls : e \in InUse => e \in InUse'
    <3>1. session'.engine = c
      BY <1>8
    <3>2. c \in InUse'
      BY <3>1, ProverAssumption DEF InUse, SessionEngine
    <3>3. call[c].engine = None /\ session.engine = None
      BY <1>1, <1>2, <1>8 DEF CallHolds, Prepared, Asked, Key
    <3>4. ASSUME NEW e \in Calls, e \in InUse PROVE e \in InUse'
      <4>1. CASE \E d \in Calls : e = call[d].engine
        <5>1. \E d \in Calls : e = call'[d].engine
          BY <2>1, <3>3, <4>1, ProverAssumption DEF Turns
        <5> QED BY <5>1 DEF InUse
      <4>2. CASE call[e].pc = "probed"
        BY <1>2, <2>1, <4>2 DEF InUse, Turns
      <4> QED BY <3>3, <3>4, <4>1, <4>2 DEF InUse, SessionEngine
    <3> QED BY <3>2, <3>4
  <2>9. EnginesShaped' /\ ClosedEngines'
    BY <1>8, <2>8, EnginesOpen DEF ProverInv
  <2> QED BY <1>3, <1>4, <2>1, <2>3, <2>4, <2>5, <2>6, <2>7, <2>9, OneCallMoves DEF Turns
<1> QED BY <1>5, <1>6, <1>7, <1>8, Zenon DEF OpenCCS, engineVars, fftVars

\* prove, probe to prove.
LEMMA SelectKeeps ==
  ASSUME ProverInv, NEW c \in Calls, options' = options, Select(c)
  PROVE  ProverInv'
<1> DEFINE pc == IF IsSharded(Key(c)) THEN "multiply" ELSE "cpu"
           engine == IF call[c].own THEN c ELSE call[c].engine
<1>1. /\ CallShaped /\ CacheRight /\ SessionFresh /\ SessionShaped /\ CallHolds(c)
      /\ InputsRight(c) /\ call[c].own \in BOOLEAN
  BY DEF ProverInv, CallShaped
<1>2. call[c].pc = "select" /\ cache' = cache /\ section' = section /\ mutex' = mutex
  BY DEF Select
<1>3. mutex = c /\ Fresh(call[c].ccs, Key(c), call[c].bundle) /\ (call[c].own => call[c].engine = None)
  BY <1>1, <1>2 DEF CallHolds, InputsRight, Locked, Asked, Key
<1>4. CacheRight'
  BY <1>1, <1>2 DEF CacheRight
<1>5. Turns(c, pc, call[c].bundle, call[c].ccs, engine, call[c].own, call[c].path, call[c].step)
  BY <1>1, TurnsEngine DEF Select
<1>6. pc \in {"multiply", "cpu"}
  OBVIOUS
<1> HIDE DEF pc
<1>7. /\ session'.engine = session.engine /\ session'.bundle = session.bundle
      /\ session'.key = session.key
      /\ session'.ccs = (IF ~call[c].own /\ Key(c).w3 THEN None ELSE session.ccs)
      /\ SessionShaped'
  BY <1>1 DEF Select, SessionShaped, SessionFields
<1>8. SessionFresh'
  BY <1>1, <1>7 DEF SessionFresh, Fresh
<1>9. CallHolds(c)'
  BY <1>1, <1>2, <1>3, <1>5, <1>6, <1>7 DEF CallHolds, Turns, Locked, Asked, Key
<1>10. InputsRight(c)'
  BY <1>1, <1>2, <1>3, <1>5, <1>6, <1>7 DEF InputsRight, Turns, Asked, Key, Fresh
<1>11. SectionOwned' /\ SectionShaped'
  BY <1>2, <1>5, SectionStays DEF Turns, ProverInv
<1>12. EnginesShaped' /\ ClosedEngines'
  <2>1. CASE ~call[c].own
    <3>1. workers' = workers /\ fft' = fft
      BY <2>1 DEF Select
    <3>2. \A e \in Calls : e \in InUse => e \in InUse'
      BY <1>2, <1>5, <1>7, <2>1, UsersStay DEF Turns
    <3> QED BY <3>1, <3>2, EnginesStay DEF ProverInv
  <2>2. CASE call[c].own
    <3>1. Opened(c, Key(c))
      BY <2>2 DEF Select
    <3>2. call[c].engine = None /\ call'[c].engine = c
      BY <1>3, <1>5, <2>2 DEF Turns
    <3>3. c \in InUse'
      BY <3>2 DEF InUse
    <3>4. ASSUME NEW e \in Calls, e \in InUse PROVE e \in InUse'
      <4>1. CASE \E d \in Calls : e = call[d].engine
        <5>1. \E d \in Calls : e = call'[d].engine
          BY <1>5, <3>2, <4>1, ProverAssumption DEF Turns
        <5> QED BY <5>1 DEF InUse
      <4>2. CASE call[e].pc = "probed"
        BY <1>2, <1>5, <4>2 DEF InUse, Turns
      <4>3. CASE e \in SessionEngine
        BY <1>7, <4>3 DEF InUse, SessionEngine
      <4> QED BY <3>4, <4>1, <4>2, <4>3 DEF InUse
    <3> QED BY <3>1, <3>3, <3>4, EnginesOpen DEF ProverInv
  <2> QED BY <1>1, <2>1, <2>2
<1> QED BY <1>2, <1>3, <1>4, <1>5, <1>7, <1>8, <1>9, <1>10, <1>11, <1>12, OneCallMoves DEF Turns

\* A section begins.
LEMMA BeginSectionKeeps ==
  ASSUME ProverInv, NEW c \in Calls, options' = options, BeginSection(c)
  PROVE  ProverInv'
<1>1. /\ CallShaped /\ CacheRight /\ SessionFresh /\ SessionShaped /\ CallHolds(c)
      /\ InputsRight(c)
  BY DEF ProverInv
<1>2. /\ call[c].pc = "multiply" /\ workers' = workers /\ fft' = fft /\ session' = session
      /\ cache' = cache /\ mutex' = mutex
  BY DEF BeginSection, fftVars
<1>3. CacheRight' /\ SessionShaped' /\ SessionFresh'
  BY <1>1, <1>2 DEF CacheRight, SessionShaped, SessionFresh, Fresh
<1>4. Turns(c, "section", call[c].bundle, call[c].ccs, call[c].engine, call[c].own, call[c].path,
            call[c].step)
  BY <1>1, TurnsGoto DEF BeginSection
<1>5. CallHolds(c)'
  BY <1>1, <1>2, <1>4 DEF CallHolds, Turns, Locked, Asked, Key
<1>6. InputsRight(c)'
  BY <1>1, <1>2, <1>4 DEF InputsRight, Turns, Asked, Key, Fresh
<1>7. section'.engine = call[c].engine /\ SectionShaped'
  BY DEF BeginSection, MSMSection, SectionShaped, SectionFields
<1>8. SectionOwned'
  BY <1>4, <1>7 DEF SectionOwned, Turns
<1>9. EnginesShaped' /\ ClosedEngines'
  BY <1>2, <1>4, UsersStay, EnginesStay DEF Turns, ProverInv
<1> QED BY <1>2, <1>3, <1>4, <1>5, <1>6, <1>7, <1>8, <1>9, OneCallMoves DEF Turns

\* A section returns.  Nothing is released that the session still has: with OptW3
\* it gave the constraint system up before, and without nothing is released.
LEMMA EndSectionKeeps ==
  ASSUME ProverInv, NEW c \in Calls, options' = options, EndSection(c)
  PROVE  ProverInv'
<1>1. /\ CallShaped /\ CacheRight /\ SessionFresh /\ SessionShaped /\ CallHolds(c)
      /\ InputsRight(c) /\ call[c].own \in BOOLEAN /\ call[c].step \in Nat
  BY DEF ProverInv, CallShaped
<1>2. /\ call[c].pc = "section" /\ workers' = workers /\ fft' = fft /\ section' = None
      /\ cache' = cache /\ mutex' = mutex
  BY DEF EndSection
<1>3. CacheRight' /\ SectionOwned' /\ SectionShaped'
  BY <1>1, <1>2 DEF CacheRight, SectionOwned, SectionShaped
<1>4. session' = session
  <2>1. CASE session' = session
    BY <2>1
  <2>2. CASE ~call[c].own /\ session' = [session EXCEPT !.ccs = Release(Key(c), @)]
    <3>1. Release(Key(c), session.ccs) = session.ccs
      BY <1>1, <1>2, <2>2 DEF InputsRight, Release
    <3> QED BY <1>1, <2>2, <3>1 DEF SessionShaped
  <2> QED BY <2>1, <2>2, Zenon DEF EndSection
<1>5. SessionShaped' /\ SessionFresh'
  BY <1>1, <1>4 DEF SessionShaped, SessionFresh, Fresh
<1>6. ASSUME NEW pc \in {"demote", "multiply"}, NEW ccs, NEW step,
             Turns(c, pc, call[c].bundle, ccs, call[c].engine, call[c].own, call[c].path, step),
             pc = "multiply" => step = call[c].step + 1,
             ccs # call[c].ccs => pc = "multiply" /\ Key(c).w3 /\ call[c].step = FirstHSection
      PROVE  ProverInv'
  <2>1. CallHolds(c)'
    BY <1>1, <1>2, <1>4, <1>6 DEF CallHolds, Turns, Locked, Asked, Key
  <2>2. InputsRight(c)'
    <3>1. /\ Asked(c).target \in DOMAIN Owned[Asked(c).master]
          /\ call[c].path = Owned[Asked(c).master][Asked(c).target]
          /\ call[c].step <= FirstHSection \/ ~Key(c).w3 => Fresh(call[c].ccs, Key(c), call[c].bundle)
          /\ ~call[c].own /\ Key(c).w3 => session.ccs = None
      BY <1>1, <1>2 DEF InputsRight
    <3>2. (pc = "multiply" /\ step <= FirstHSection) \/ ~Key(c).w3 => Fresh(ccs, Key(c), call[c].bundle)
      <4>1. CASE ~Key(c).w3
        BY <1>6, <3>1, <4>1
      <4>2. CASE pc = "multiply" /\ step <= FirstHSection
        <5>1. call[c].step < FirstHSection
          BY <1>1, <1>6, <4>2, ProverAssumption
        <5> QED BY <1>1, <1>6, <3>1, <5>1, ProverAssumption
      <4> QED BY <4>1, <4>2
    <3> QED BY <1>4, <1>6, <3>1, <3>2 DEF InputsRight, Turns, Asked, Key, Fresh
  <2>3. EnginesShaped' /\ ClosedEngines'
    BY <1>2, <1>4, <1>6, UsersStay, EnginesStay DEF Turns, ProverInv
  <2> QED BY <1>2, <1>3, <1>4, <1>5, <1>6, <2>1, <2>2, <2>3, OneCallMoves DEF Turns
<1>7. CASE call' = [call EXCEPT ![c].cause = section.firstErr, ![c].pc = "demote"]
  <2>1. Turns(c, "demote", call[c].bundle, call[c].ccs, call[c].engine, call[c].own,
              call[c].path, call[c].step)
    BY <1>1, <1>7, TurnsDemoted
  <2> QED BY <1>6, <2>1
<1> DEFINE ccs == IF call[c].step = FirstHSection THEN Release(Key(c), call[c].ccs) ELSE call[c].ccs
<1>8. ASSUME NEW y, NEW z,
             call' = [call EXCEPT ![c].pc = "multiply", ![c].step = @ + 1, ![c].exact = y,
                                  ![c].ranged = z, ![c].ccs = ccs]
      PROVE  ProverInv'
  <2>1. Turns(c, "multiply", call[c].bundle, ccs, call[c].engine, call[c].own, call[c].path,
              call[c].step + 1)
    BY <1>1, <1>8, TurnsSection
  <2>2. ccs # call[c].ccs => Key(c).w3 /\ call[c].step = FirstHSection
    BY DEF Release
  <2> QED BY <1>6, <2>1, <2>2
<1> QED BY <1>7, <1>8 DEF EndSection

----------------------------------------------------------------------------
\* The end of a call.

\* A call ends that holds no engine any more, or one that is closed, or the
\* session's.
LEMMA EndKeeps ==
  ASSUME ProverInv, NEW c \in Calls, options' = options, NEW outcome \in {"ok", "failed"},
         Ends(c, outcome), NEW es, Closed(es),
         call[c].engine \in Calls => call[c].engine \in es \cup SessionEngine,
         call[c].pc = "probed" => c \in es, call[c].pc # "section",
         section' = section, session' = session, cache' = cache,
         mutex' = mutex \/ mutex \in {None, c}
  PROVE  ProverInv'
<1>1. CallShaped /\ CacheRight /\ SessionFresh /\ SessionShaped
  BY DEF ProverInv
<1>2. Turns(c, outcome, <<>>, None, None, FALSE, None, 1)
  BY <1>1, TurnsEnd
<1>3. CacheRight' /\ SessionShaped' /\ SessionFresh'
  BY <1>1 DEF CacheRight, SessionShaped, SessionFresh, Fresh
<1>4. CallHolds(c)'
  BY <1>2 DEF CallHolds, Turns, Locked, Asked, Key
<1>5. InputsRight(c)'
  BY <1>2 DEF InputsRight, Turns
<1>6. SectionOwned' /\ SectionShaped'
  BY <1>2, SectionStays DEF Turns, ProverInv
<1>7. ASSUME NEW e \in Calls, e \in InUse PROVE e \in InUse' \/ e \in es
  <2>1. CASE e \in SessionEngine
    BY <2>1 DEF InUse, SessionEngine
  <2>2. CASE \E d \in Calls : e = call[d].engine
    <3>1. PICK d \in Calls : e = call[d].engine
      BY <2>2
    <3>2. CASE d = c
      BY <2>1, <3>1, <3>2
    <3>3. CASE d # c
      BY <1>2, <3>1, <3>3 DEF InUse, Turns
    <3> QED BY <3>2, <3>3
  <2>3. CASE call[e].pc = "probed"
    BY <1>2, <2>3 DEF InUse, Turns
  <2> QED BY <1>7, <2>1, <2>2, <2>3 DEF InUse
<1>8. EnginesShaped' /\ ClosedEngines'
  BY <1>7, EnginesClose DEF ProverInv
<1> QED BY <1>2, <1>3, <1>4, <1>5, <1>6, <1>8, OneCallMoves DEF Turns

\* A call that verifies its proof returns, and closes the engine it made for itself only.
LEMMA VerifyKeeps ==
  ASSUME ProverInv, NEW c \in Calls, options' = options, Verify(c)
  PROVE  ProverInv'
<1> DEFINE es == IF call[c].own THEN {c} ELSE {}
<1>1. CallHolds(c) /\ call[c].own \in BOOLEAN
  BY DEF ProverInv, CallShaped
<1>2. /\ call[c].pc = "verify" /\ Closed(es) /\ (Ends(c, "ok") \/ Ends(c, "failed"))
      /\ section' = section /\ session' = session /\ cache' = cache
  BY DEF Verify
<1>3. mutex = c
  BY <1>1, <1>2 DEF CallHolds, Locked, Asked, Key
<1>4. call[c].engine \in Calls => call[c].engine \in es \cup SessionEngine
  BY <1>1, ProverAssumption DEF CallHolds, SessionEngine, Asked, Key
<1> QED BY <1>2, <1>3, <1>4, EndKeeps

\* A call that fails returns, and closes the engine it made for itself only.
LEMMA FailKeeps ==
  ASSUME ProverInv, NEW c \in Calls, options' = options, Fail(c)
  PROVE  ProverInv'
<1> DEFINE es == IF call[c].own /\ call[c].engine # None THEN {c} ELSE {}
<1>1. CallHolds(c) /\ call[c].own \in BOOLEAN
  BY DEF ProverInv, CallShaped
<1>2. /\ call[c].pc = "failing" /\ Closed(es) /\ Ends(c, "failed")
      /\ section' = section /\ session' = session /\ cache' = cache
      /\ mutex' = mutex \/ mutex = c
  BY DEF Fail
<1>3. call[c].engine \in Calls => call[c].engine \in es \cup SessionEngine
  BY <1>1, ProverAssumption DEF CallHolds, SessionEngine, Asked, Key
<1> QED BY <1>2, <1>3, EndKeeps

\* A probe closes the engine it started.
LEMMA EndProbeKeeps ==
  ASSUME ProverInv, NEW c \in Calls, options' = options, EndProbe(c)
  PROVE  ProverInv'
<1>1. CallHolds(c)
  BY DEF ProverInv
<1>2. /\ call[c].pc = "probed" /\ Closed({c}) /\ Ends(c, "ok")
      /\ section' = section /\ session' = session /\ cache' = cache /\ mutex' = mutex
  BY DEF EndProbe
<1>3. call[c].engine = None
  BY <1>1, <1>2 DEF CallHolds, Locked, Asked, Key
<1> QED BY <1>2, <1>3, ProverAssumption, EndKeeps

----------------------------------------------------------------------------
\* The beginning of a call.

\* The session there is, if any, is closed.
LEMMA NewSession ==
  ASSUME ProverInv, NEW c \in Calls, options' = options, call[c].pc = "idle", mutex = None,
         Closed(SessionEngine), session' = NoSession, section' = section, cache' = cache,
         mutex' = c, NEW own \in BOOLEAN,
         Turns(c, "fetch", call[c].bundle, call[c].ccs, call[c].engine, own, call[c].path,
               call[c].step)
  PROVE  ProverInv'
<1>1. CacheRight /\ CallHolds(c)
  BY DEF ProverInv
<1>2. call[c].engine = None
  BY <1>1 DEF CallHolds, Locked, Asked, Key
<1>3. SessionShaped' /\ session'.engine = None /\ session'.ccs = None
  BY DEF SessionShaped, SessionFields, NoSession
<1>4. CacheRight' /\ SessionFresh'
  BY <1>1, <1>3 DEF CacheRight, SessionFresh
<1>5. CallHolds(c)'
  BY <1>2, <1>3 DEF CallHolds, Turns, Locked, Prepared, Asked, Key
<1>6. InputsRight(c)'
  BY DEF InputsRight, Turns
<1>7. SectionOwned' /\ SectionShaped'
  BY SectionStays DEF Turns, ProverInv
<1>8. ASSUME NEW e \in Calls, e \in InUse PROVE e \in InUse' \/ e \in SessionEngine
  <2>1. CASE \E d \in Calls : e = call[d].engine
    <3>1. \E d \in Calls : e = call'[d].engine
      BY <2>1 DEF Turns
    <3> QED BY <3>1 DEF InUse
  <2>2. CASE call[e].pc = "probed"
    BY <2>2 DEF InUse, Turns
  <2> QED BY <1>8, <2>1, <2>2 DEF InUse
<1>9. EnginesShaped' /\ ClosedEngines'
  BY <1>8, EnginesClose DEF ProverInv
<1> QED BY <1>3, <1>4, <1>5, <1>6, <1>7, <1>9, OneCallMoves DEF Turns

\* A preflight closes the engine of the session it replaces.
LEMMA BeginPreflightKeeps ==
  ASSUME ProverInv, NEW c \in Calls, options' = options, call[c].pc = "idle", mutex = None,
         BeginPreflight(c)
  PROVE  ProverInv'
<1>1. CallShaped /\ call[c].own \in BOOLEAN
  BY DEF ProverInv, CallShaped
<1>2. /\ Closed(SessionEngine) /\ session' = NoSession /\ section' = section /\ cache' = cache
      /\ mutex' = c
  BY DEF BeginPreflight
<1>3. Turns(c, "fetch", call[c].bundle, call[c].ccs, call[c].engine, call[c].own, call[c].path,
            call[c].step)
  BY <1>1, TurnsGoto DEF BeginPreflight
<1> QED BY <1>1, <1>2, <1>3, NewSession

\* A proof takes the session with its engine and files when the keys agree, and closes the
\* session's engine otherwise.
LEMMA BeginProveKeeps ==
  ASSUME ProverInv, NEW c \in Calls, options' = options, call[c].pc = "idle", mutex = None,
         BeginProve(c)
  PROVE  ProverInv'
<1>1. /\ CallShaped /\ CacheRight /\ SessionFresh /\ SessionShaped /\ CallHolds(c)
      /\ call[c].own \in BOOLEAN
  BY DEF ProverInv, CallShaped
<1>2. section' = section /\ cache' = cache /\ mutex' = c /\ Asked(c).kind = "prove"
  BY DEF BeginProve
<1>3. call[c].engine = None /\ ~call[c].own
  BY <1>1 DEF CallHolds, Locked, Asked, Key
<1>4. ASSUME NEW pc \in {"failing", "ccs"}, NEW b, NEW e,
             Turns(c, pc, b, call[c].ccs, e, call[c].own, call[c].path, call[c].step),
             workers' = workers, fft' = fft, session' = session,
             \/ e = None
             \/ /\ b = session.bundle /\ e = session.engine /\ ~call[c].own
                /\ session.key = Key(c)
      PROVE  ProverInv'
  <2>1. CacheRight' /\ SessionShaped' /\ SessionFresh'
    BY <1>1, <1>2, <1>4 DEF CacheRight, SessionShaped, SessionFresh, Fresh
  <2>2. CallHolds(c)'
    BY <1>2, <1>4 DEF CallHolds, Turns, Locked, Asked, Key
  <2>3. InputsRight(c)'
    BY <1>4 DEF InputsRight, Turns
  <2>4. SectionOwned' /\ SectionShaped'
    BY <1>2, <1>4, SectionStays DEF Turns, ProverInv
  <2>5. ASSUME NEW x \in Calls, x \in InUse PROVE x \in InUse'
    <3>1. CASE \E d \in Calls : x = call[d].engine
      <4>1. \E d \in Calls : x = call'[d].engine
        BY <1>3, <1>4, <3>1, ProverAssumption DEF Turns
      <4> QED BY <4>1 DEF InUse
    <3>2. CASE call[x].pc = "probed"
      BY <1>4, <3>2 DEF InUse, Turns
    <3>3. CASE x \in SessionEngine
      BY <1>4, <3>3 DEF InUse, SessionEngine
    <3> QED BY <2>5, <3>1, <3>2, <3>3 DEF InUse
  <2>6. EnginesShaped' /\ ClosedEngines'
    BY <1>4, <2>5, EnginesStay DEF ProverInv
  <2> QED BY <1>4, <2>1, <2>2, <2>3, <2>4, <2>6, OneCallMoves DEF Turns
<1>5. CASE Goto(c, "failing") /\ workers' = workers /\ fft' = fft /\ session' = session
  <2>1. Turns(c, "failing", call[c].bundle, call[c].ccs, call[c].engine, call[c].own, call[c].path,
              call[c].step)
    BY <1>1, <1>5, TurnsGoto
  <2> QED BY <1>3, <1>4, <1>5, <2>1
<1>6. CASE /\ call' = [call EXCEPT ![c].pc = "ccs", ![c].bundle = session.bundle,
                                   ![c].engine = session.engine]
           /\ workers' = workers /\ fft' = fft /\ session' = session
           /\ session.key = Key(c)
  <2>1. Turns(c, "ccs", session.bundle, call[c].ccs, session.engine, call[c].own, call[c].path,
              call[c].step)
    BY <1>1, <1>6, TurnsShare
  <2> QED BY <1>3, <1>4, <1>6, <2>1
<1>7. CASE /\ Closed(SessionEngine) /\ session' = NoSession
           /\ call' = [call EXCEPT ![c].pc = "fetch", ![c].own = TRUE]
  <2>1. Turns(c, "fetch", call[c].bundle, call[c].ccs, call[c].engine, TRUE, call[c].path,
              call[c].step)
    BY <1>1, <1>7, TurnsOwn
  <2> QED BY <1>2, <1>7, <2>1, NewSession
<1> QED BY <1>5, <1>6, <1>7, Zenon DEF BeginProve

\* Searches and probes begin without the lock and leave the session alone.
LEMMA BeginOtherKeeps ==
  ASSUME ProverInv, NEW c \in Calls, options' = options, call[c].pc = "idle", BeginOther(c)
  PROVE  ProverInv'
<1>1. /\ CallShaped /\ CacheRight /\ SessionFresh /\ SessionShaped /\ CallHolds(c)
  BY DEF ProverInv, CallShaped
<1>2. section' = section /\ cache' = cache /\ mutex' = mutex /\ session' = session
  BY DEF BeginOther
<1>3. CacheRight' /\ SessionShaped' /\ SessionFresh'
  BY <1>1, <1>2 DEF CacheRight, SessionShaped, SessionFresh, Fresh
<1>4. call[c].engine = None /\ ~call[c].own
  BY <1>1 DEF CallHolds, Locked, Asked, Key
<1>5. PICK pc \in {"search", "probed"} :
        /\ Goto(c, pc)
        /\ pc = "search" => workers' = workers /\ fft' = fft
        /\ pc = "probed" => Opened(c, Key(c))
  BY DEF BeginOther
<1>6. Turns(c, pc, call[c].bundle, call[c].ccs, call[c].engine, call[c].own, call[c].path,
            call[c].step)
  BY <1>1, <1>5, TurnsGoto
<1>7. CallHolds(c)'
  BY <1>4, <1>6 DEF CallHolds, Turns, Locked, Asked, Key
<1>8. InputsRight(c)'
  BY <1>6 DEF InputsRight, Turns
<1>9. SectionOwned' /\ SectionShaped'
  BY <1>2, <1>6, SectionStays DEF Turns, ProverInv
<1>10. \A e \in Calls : e \in InUse => e \in InUse'
  BY <1>2, <1>6, UsersStay DEF Turns
<1>11. EnginesShaped' /\ ClosedEngines'
  <2>1. CASE pc = "search"
    BY <1>5, <1>10, <2>1, EnginesStay DEF ProverInv
  <2>2. CASE pc = "probed"
    <3>1. c \in InUse'
      BY <1>6, <2>2 DEF InUse, Turns
    <3> QED BY <1>5, <1>10, <2>2, <3>1, EnginesOpen DEF ProverInv
  <2> QED BY <2>1, <2>2
<1> QED BY <1>2, <1>3, <1>6, <1>7, <1>8, <1>9, <1>11, OneCallMoves DEF Turns

\* Every step of a call.
LEMMA CallKeeps ==
  ASSUME ProverInv, NEW c \in Calls, CallStep(c)
  PROVE  ProverInv'
<1>1. options' = options
  BY DEF CallStep
<1>2. CASE Begin(c)
  BY <1>1, <1>2, BeginPreflightKeeps, BeginProveKeeps, BeginOtherKeeps DEF Begin
<1>3. CASE Fetch(c) \/ OpenCCS(c) \/ Search(c) \/ Cache(c)
  BY <1>1, <1>3, FetchKeeps, OpenCCSKeeps, SearchKeeps, CacheKeeps
<1>4. CASE FindPath(c) \/ Find(c) \/ Select(c) \/ BeginSection(c)
  BY <1>1, <1>4, FindPathKeeps, FindKeeps, SelectKeeps, BeginSectionKeeps
<1>5. CASE EndSection(c) \/ WithFallbackReload(c) \/ ProveOnCPU(c) \/ Proved(c)
  BY <1>1, <1>5, EndSectionKeeps, WithFallbackReloadKeeps, ProveOnCPUKeeps, ProvedKeeps
<1>6. CASE Verify(c) \/ Fail(c) \/ EndProbe(c)
  BY <1>1, <1>6, VerifyKeeps, FailKeeps, EndProbeKeeps
<1> QED BY <1>2, <1>3, <1>4, <1>5, <1>6 DEF CallStep

----------------------------------------------------------------------------
\* The steps of sections, transforms and workers.

\* Nothing changes but the engines.
LEMMA EnginesMove ==
  ASSUME ProverInv, UNCHANGED <<options, callVars>>, SectionShaped', SectionOwned',
         EnginesShaped', ClosedEngines'
  PROVE  ProverInv'
<1> USE DEF callVars
<1>1. CallShaped' /\ SessionShaped'
  BY DEF ProverInv, CallShaped, SessionShaped, HasFields
<1>2. CacheRight' /\ SessionFresh'
  BY DEF ProverInv, CacheRight, SessionFresh, Fresh
<1>3. ASSUME NEW c \in Calls PROVE CallHolds(c)' /\ InputsRight(c)'
  <2>1. CallHolds(c) /\ InputsRight(c)
    BY DEF ProverInv
  <2>2. CallHolds(c)'
    BY <2>1 DEF CallHolds, Asked, Prepared, Key
  <2>3. InputsRight(c)'
    BY <2>1 DEF InputsRight, Asked, Key, Fresh
  <2> QED BY <2>2, <2>3
<1> QED BY <1>1, <1>2, <1>3 DEF ProverInv

\* Workers change on engines that somebody holds.
LEMMA WorkersMove ==
  ASSUME ProverInv, UNCHANGED <<options, fftVars, callVars>>, SectionShaped', SectionOwned',
         workers' = [e \in Calls |-> workers'[e]],
         \A e \in Calls : e \notin InUse => workers'[e] = workers[e]
  PROVE  ProverInv'
<1>1. InUse' = InUse
  BY DEF callVars, InUse, SessionEngine
<1>2. EnginesShaped'
  BY DEF ProverInv, EnginesShaped, PoolShaped, fftVars
<1>3. ClosedEngines'
  BY <1>1 DEF ProverInv, ClosedEngines, Drained, fftVars
<1> QED BY <1>2, <1>3, EnginesMove

\* The goroutines of a section change the workers of its engine only, and it stays
\* the section of that engine.
SameEngine ==
  /\ section' = [f \in SectionFields |-> section'[f]]
  /\ section'.engine = section.engine
  /\ workers' = [e \in Calls |-> workers'[e]]
  /\ \A e \in Calls : e # section.engine => workers'[e] = workers[e]

\* A step of a section changes the workers of no engine but the section's.
LEMMA SectionMoves ==
  ASSUME SectionShaped, EnginesShaped, section # None, NEW i,
         PostSection(i) \/ PostRange(i) \/ TakeReply(i) \/ Expire(i) \/ Receive(i)
  PROVE  SameEngine
<1>1. section = [f \in SectionFields |-> section[f]] /\ workers = [e \in Calls |-> workers[e]]
  BY DEF SectionShaped, EnginesShaped
<1>2. ASSUME NEW request, Posted(i, request) PROVE SameEngine
  BY <1>1, <1>2 DEF Posted, SectionFields, SameEngine
<1>3. ASSUME NEW worker, NEW task, WaitEnds(i, worker, task) PROVE SameEngine
  BY <1>1, <1>3 DEF WaitEnds, SectionFields, SameEngine
<1>4. ASSUME NEW worker, NEW cause, Retry(i, worker, cause) PROVE SameEngine
  BY <1>3, <1>4 DEF Retry
<1>5. ASSUME NEW x, NEW y, UNCHANGED workers,
             section' = [section EXCEPT !.firstErr = x, !.task = y]
      PROVE  SameEngine
  BY <1>1, <1>5 DEF SectionFields, SameEngine
<1>6. ASSUME UNCHANGED workers,
             section' = [section EXCEPT !.task[i].stage = "done", !.task[i].err = "open"]
      PROVE  SameEngine
  BY ZenonT(30), <1>1, <1>6 DEF SectionFields, SameEngine
<1>7. CASE PostSection(i)
  BY <1>2, <1>7 DEF PostSection
<1>8. CASE PostRange(i)
  BY <1>2, <1>6, <1>8, Zenon DEF PostRange
<1>9. CASE TakeReply(i)
  BY <1>3, <1>4, <1>9, Zenon DEF TakeReply
<1>10. CASE Expire(i)
  BY <1>4, <1>10 DEF Expire
<1>11. CASE Receive(i)
  <2>1. PICK x, y : section' = [section EXCEPT !.firstErr = x, !.task = y]
    BY <1>11, Zenon DEF Receive
  <2> QED BY <1>5, <1>11, <2>1 DEF Receive
<1> QED BY <1>7, <1>8, <1>9, <1>10, <1>11

\* The steps of a section keep the invariant.
LEMMA SectionKeeps ==
  ASSUME ProverInv, SectionStep
  PROVE  ProverInv'
<1>1. /\ section # None /\ SectionShaped /\ EnginesShaped /\ SectionOwned
      /\ UNCHANGED <<options, fftVars, callVars>>
  BY DEF ProverInv, SectionStep
<1>2. PICK i \in Shards :
        PostSection(i) \/ PostRange(i) \/ TakeReply(i) \/ Expire(i) \/ Receive(i)
  BY DEF SectionStep
<1>3. /\ section' = [f \in SectionFields |-> section'[f]]
      /\ section'.engine = section.engine
      /\ workers' = [e \in Calls |-> workers'[e]]
      /\ \A e \in Calls : e # section.engine => workers'[e] = workers[e]
  BY <1>1, <1>2, SectionMoves DEF SameEngine
<1>4. section.engine \in InUse
  BY <1>1 DEF SectionOwned, InUse
<1>5. SectionShaped' /\ SectionOwned'
  BY <1>1, <1>3 DEF SectionShaped, SectionOwned, callVars
<1> QED BY <1>1, <1>3, <1>4, <1>5, WorkersMove

\* One pool, if there is one at e, becomes q.
LEMMA PoolMoves ==
  ASSUME ProverInv, UNCHANGED <<options, engineVars, callVars>>, NEW e, NEW q,
         fft' = [fft EXCEPT ![e] = q], e \in Calls => Follows(fft[e], q)
  PROVE  ProverInv'
<1>1. SectionShaped /\ SectionOwned /\ EnginesShaped /\ ClosedEngines
  BY DEF ProverInv
<1>2. workers' = workers /\ section' = section
  BY DEF engineVars
<1>3. InUse' = InUse
  BY DEF callVars, InUse, SessionEngine
<1>4. fft' = [d \in Calls |-> fft'[d]]
  BY <1>1 DEF EnginesShaped
<1>5. ASSUME NEW d \in Calls PROVE Follows(fft[d], fft'[d])
  <2>1. CASE d = e
    <3>1. fft'[d] = q
      BY <1>1, <2>1 DEF EnginesShaped
    <3> QED BY <2>1, <3>1
  <2>2. CASE d # e
    <3>1. fft'[d] = fft[d] /\ PoolShaped(fft[d])
      BY <1>1, <2>2 DEF EnginesShaped
    <3> QED BY <3>1, FollowsItself
  <2> QED BY <2>1, <2>2
<1>6. EnginesShaped' /\ ClosedEngines'
  BY <1>1, <1>2, <1>3, <1>4, <1>5, EnginesFollow
<1>7. SectionShaped' /\ SectionOwned'
  BY <1>1, <1>2 DEF SectionShaped, SectionOwned, callVars
<1> QED BY <1>6, <1>7, EnginesMove

\* Operations that leave what matters of a pool alone.
LEMMA QueuesFollow ==
  ASSUME NEW p, PoolShaped(p)
  PROVE  /\ \A x : Follows(p, [p EXCEPT !.free = x])
         /\ \A x : Follows(p, [p EXCEPT !.prespawn = x])
         /\ \A w, x : Follows(p, [p EXCEPT !.reply[w] = x])
         /\ \A w, x : Follows(p, [p EXCEPT !.inbox[w] = x])
         /\ \A w, x, y, z : Follows(p, [p EXCEPT !.free = x, !.nextID = y, !.inbox[w] = z])
<1>1. ASSUME NEW x PROVE Follows(p, [p EXCEPT !.free = x])
  BY DEF Follows, PoolShaped, PoolFields
<1>2. ASSUME NEW x PROVE Follows(p, [p EXCEPT !.prespawn = x])
  BY DEF Follows, PoolShaped, PoolFields
<1>3. ASSUME NEW w, NEW x PROVE Follows(p, [p EXCEPT !.reply[w] = x])
  BY DEF Follows, PoolShaped, PoolFields
<1>4. ASSUME NEW w, NEW x PROVE Follows(p, [p EXCEPT !.inbox[w] = x])
  BY DEF Follows, PoolShaped, PoolFields
<1>5. ASSUME NEW w, NEW x, NEW y, NEW z
      PROVE  Follows(p, [p EXCEPT !.free = x, !.nextID = y, !.inbox[w] = z])
  BY DEF Follows, PoolShaped, PoolFields
<1> QED BY <1>1, <1>2, <1>3, <1>4, <1>5

\* A Web Worker or an FFT worker.
LEMMA WorkerKeeps ==
  ASSUME ProverInv, WorkerStep
  PROVE  ProverInv'
<1>1. SectionShaped /\ SectionOwned /\ EnginesShaped /\ ClosedEngines
  BY DEF ProverInv
<1>2. ASSUME NEW e \in Calls, NEW w \in Slots, WorkerAnswers(e, w) \/ WorkerDies(e, w),
             UNCHANGED <<options, fftVars, callVars>>
      PROVE  ProverInv'
  <2>1. workers[e] # None /\ section' = section
    BY <1>2, Zenon DEF WorkerAnswers, WorkerDies
  <2>2. PICK x : workers' = [workers EXCEPT ![e][w] = x]
    BY <1>2, Zenon DEF WorkerAnswers, WorkerDies
  <2>3. /\ workers' = [d \in Calls |-> workers'[d]]
        /\ \A d \in Calls : d # e => workers'[d] = workers[d]
    BY <1>1, <2>2 DEF EnginesShaped
  <2>4. e \in InUse
    BY <1>1, <2>1 DEF ClosedEngines
  <2>5. SectionShaped' /\ SectionOwned'
    BY <1>1, <1>2, <2>1 DEF SectionShaped, SectionOwned, callVars
  <2> QED BY <1>2, <2>3, <2>4, <2>5, WorkersMove
<1>3. ASSUME NEW e \in Calls, NEW w \in FFTWorkers, FFTAnswers(e, w),
             UNCHANGED <<options, engineVars, callVars>>
      PROVE  ProverInv'
  <2> DEFINE p == fft[e]
             Says(q, id, err) ==
               [q EXCEPT !.reply[w] = IF @ = Nothing THEN [id |-> id, err |-> err] ELSE @]
             r == [p EXCEPT !.inbox[w] = Tail(@)]
  <2>1. PoolShaped(p)
    BY <1>1 DEF EnginesShaped
  <2>2. Follows(p, r)
    BY <2>1, QueuesFollow
  <2>3. ASSUME NEW q, PoolShaped(q), NEW id, NEW err PROVE Follows(q, Says(q, id, err))
    BY <2>3, QueuesFollow
  <2>4. \/ \E err \in BOOLEAN : fft' = [fft EXCEPT ![e] = Says(r, Head(p.inbox[w]), err)]
        \/ fft' = [fft EXCEPT ![e] = Says(p, 0, TRUE)]
    BY <1>3, Zenon DEF FFTAnswers
  <2> HIDE DEF Says, r
  <2>5. ASSUME NEW err, fft' = [fft EXCEPT ![e] = Says(r, Head(p.inbox[w]), err)]
        PROVE  ProverInv'
    <3>1. Follows(p, Says(r, Head(p.inbox[w]), err))
      <4>1. PoolShaped(r)
        BY <2>2 DEF Follows
      <4>2. Follows(r, Says(r, Head(p.inbox[w]), err))
        BY <2>3, <4>1
      <4> QED BY <2>2, <4>2, FollowsTwice
    <3> QED BY <1>3, <2>5, <3>1, PoolMoves
  <2>6. CASE fft' = [fft EXCEPT ![e] = Says(p, 0, TRUE)]
    <3>1. Follows(p, Says(p, 0, TRUE))
      BY <2>1, <2>3
    <3> QED BY <1>3, <2>6, <3>1, PoolMoves
  <2> QED BY <2>4, <2>5, <2>6
<1> QED BY <1>2, <1>3 DEF WorkerStep

\* computeH and the goroutine that spawns its workers.
LEMMA TransformKeeps ==
  ASSUME ProverInv, NEW c \in Calls, TransformStep(c)
  PROVE  ProverInv'
<1>1. EnginesShaped /\ UNCHANGED <<options, engineVars, callVars>>
  BY DEF ProverInv, TransformStep
<1>2. CASE Prespawn(c)
  <2> DEFINE p == fft[c]
             q == [ensureSpawned(p) EXCEPT !.prespawn = FALSE]
  <2>1. PoolShaped(p) /\ p.exists
    BY <1>1, <1>2 DEF EnginesShaped, Prespawn
  <2>2. Follows(p, ensureSpawned(p))
    BY <2>1, SpawnFollows
  <2>3. Follows(ensureSpawned(p), q)
    <3>1. PoolShaped(ensureSpawned(p))
      BY <2>2 DEF Follows
    <3> QED BY <3>1, QueuesFollow
  <2>4. Follows(p, q)
    BY <2>2, <2>3, FollowsTwice
  <2>5. fft' = [fft EXCEPT ![c] = q]
    BY <1>2 DEF Prespawn
  <2> HIDE DEF p, q
  <2> QED BY <1>1, <2>4, <2>5, PoolMoves DEF p
<1>3. CASE HStep(c)
  <2> DEFINE e == h[c].engine
  <2>1. e \in Calls => PoolShaped(Pool(c))
    BY <1>1 DEF EnginesShaped, Pool
  <2>2. ASSUME NEW q, fft' = [fft EXCEPT ![e] = q], e \in Calls => Follows(Pool(c), q)
        PROVE  ProverInv'
    BY <1>1, <2>2, PoolMoves DEF Pool
  <2>3. ASSUME NEW v, NEW vector, NEW q, Becomes(c, v, vector, q),
               e \in Calls => Follows(Pool(c), q)
        PROVE  ProverInv'
    BY <2>2, <2>3 DEF Becomes
  <2>4. CASE StartPhase(c)
    <3> DEFINE q == IF Pool(c).exists THEN ensureSpawned(Pool(c)) ELSE Pool(c)
    <3>1. fft' = [fft EXCEPT ![e] = q]
      BY <2>4, Zenon DEF StartPhase
    <3>2. e \in Calls => Follows(Pool(c), q)
      BY <2>1, SpawnFollows, FollowsItself
    <3> QED BY <2>2, <3>1, <3>2
  <2>5. CASE EndPhase(c)
    <3>1. fft' = fft
      BY <2>5 DEF EndPhase
    <3>2. fft' = [fft EXCEPT ![e] = Pool(c)]
      BY <1>1, <3>1 DEF EnginesShaped, Pool
    <3> QED BY <2>1, <2>2, <3>2, FollowsItself
  <2>6. ASSUME NEW v \in Vectors, Take(c, v) PROVE ProverInv'
    <3> DEFINE p == Pool(c)
    <3>1. CASE Becomes(c, v, Locally(c, v), p)
      BY <2>1, <2>3, <3>1, FollowsItself
    <3>2. ASSUME NEW w, NEW vector,
                 Becomes(c, v, vector,
                         [p EXCEPT !.free = @ \ {w}, !.nextID = p.nextID + 1,
                                   !.inbox[w] = IF w \in p.running THEN Append(@, p.nextID + 1) ELSE @])
          PROVE  ProverInv'
      <4> DEFINE x == p.free \ {w}
                 z == IF w \in p.running THEN Append(p.inbox[w], p.nextID + 1) ELSE p.inbox[w]
                 q == [p EXCEPT !.free = x, !.nextID = p.nextID + 1, !.inbox[w] = z]
      <4>1. Becomes(c, v, vector, q)
        BY <3>2
      <4>2. ASSUME PoolShaped(p) PROVE Follows(p, q)
        <5> HIDE DEF p, x, z
        <5> QED BY <4>2, QueuesFollow
      <4> HIDE DEF q
      <4> QED BY <2>1, <2>3, <4>1, <4>2
    <3> QED BY <2>6, <3>1, <3>2, Zenon DEF Take
  <2>7. ASSUME NEW v \in Vectors, TransformReply(c, v) PROVE ProverInv'
    <3> DEFINE w == Vec(c, v).worker
               p == [Pool(c) EXCEPT !.reply[w] = Nothing]
    <3>1. ASSUME e \in Calls PROVE Follows(Pool(c), p)
      <4>1. PoolShaped(Pool(c))
        BY <2>1, <3>1
      <4> HIDE DEF w
      <4> QED BY <4>1, QueuesFollow
    <3>2. ASSUME e \in Calls PROVE PoolShaped(p)
      <4> HIDE DEF p
      <4> QED BY <3>1, <3>2 DEF Follows
    <3>3. ASSUME NEW vector, NEW q, Becomes(c, v, vector, q), e \in Calls => Follows(p, q)
          PROVE  ProverInv'
      <4> HIDE DEF p
      <4> QED BY <2>3, <3>1, <3>3, FollowsTwice
    <3>4. ASSUME NEW vector, GivesBack(c, v, vector, p) PROVE ProverInv'
      <4> DEFINE q == [p EXCEPT !.free = @ \cup {w}]
      <4>1. ASSUME e \in Calls PROVE Follows(p, q)
        <5>1. PoolShaped(p)
          BY <3>2, <4>1
        <5> HIDE DEF p, w
        <5> QED BY <5>1, QueuesFollow
      <4>2. CASE Becomes(c, v, vector, q)
        <5> HIDE DEF p, w, q
        <5> QED BY <3>3, <4>1, <4>2
      <4>3. CASE Becomes(c, v, [vector EXCEPT !.stage = "blocked"], p)
        <5> HIDE DEF p
        <5> QED BY <3>2, <3>3, <4>3, FollowsItself
      <4> QED BY <3>4, <4>2, <4>3, Zenon DEF GivesBack
    <3>5. CASE Becomes(c, v, Locally(c, v), retire(p, w))
      <4> HIDE DEF p
      <4> QED BY <3>2, <3>3, <3>5, RetireFollows
    <3> QED BY <2>7, <3>4, <3>5, Zenon DEF TransformReply
  <2>8. ASSUME NEW v \in Vectors, TransformExpires(c, v) PROVE ProverInv'
    BY <2>1, <2>3, <2>8, RetireFollows DEF TransformExpires
  <2>9. ASSUME NEW v \in Vectors, TransformLocally(c, v) PROVE ProverInv'
    BY <2>1, <2>3, <2>9, FollowsItself DEF TransformLocally
  <2> QED BY <1>3, <2>4, <2>5, <2>6, <2>7, <2>8, <2>9 DEF HStep
<1> QED BY <1>2, <1>3 DEF TransformStep

----------------------------------------------------------------------------
\* A fresh instance, at the beginning and after the page has ended one.
Blank ==
  /\ workers = [e \in Calls |-> None] /\ section = None
  /\ fft = [e \in Calls |-> NoPool]
  /\ call = [c \in Calls |-> NewCall]
  /\ session = NoSession /\ cache = EmptyCache /\ mutex = None

\* A fresh instance satisfies the invariant.
LEMMA BlankRight == Blank => ProverInv
<1> SUFFICES ASSUME Blank PROVE ProverInv
  OBVIOUS
<1>1. CallShaped
  BY DEF Blank, CallShaped, HasFields, Fields, NewCall
<1>2. SessionShaped /\ session.engine = None /\ session.ccs = None
  BY DEF Blank, SessionShaped, SessionFields, NoSession
<1>3. SectionShaped /\ SectionOwned
  BY DEF Blank, SectionShaped, SectionOwned
<1>4. \A e \in Calls : workers[e] = None /\ fft[e] = NoPool
  BY DEF Blank
<1>5. EnginesShaped
  BY <1>4, NewPools DEF Blank, EnginesShaped
<1>6. ClosedEngines
  BY <1>4, NewPools DEF ClosedEngines, Drained
<1>7. ASSUME NEW c \in Calls PROVE CallHolds(c) /\ InputsRight(c)
  <2>1. call[c].pc = "idle" /\ call[c].engine = None /\ ~call[c].own
    BY DEF Blank, NewCall
  <2> QED BY <2>1 DEF CallHolds, InputsRight, Locked, Asked, Key
<1>8. DOMAIN cache.paths = {}
  BY DEF Blank, EmptyCache
<1>9. CacheRight /\ SessionFresh
  BY <1>2, <1>8 DEF CacheRight, SessionFresh
<1> QED BY <1>1, <1>2, <1>3, <1>5, <1>6, <1>7, <1>9 DEF ProverInv

\* The page that ends an instance starts a fresh one.
LEMMA TerminateKeeps ==
  ASSUME Terminate
  PROVE  ProverInv'
<1>1. Blank'
  BY DEF Terminate, Blank
<1> QED BY <1>1, BlankRight, PTL

\* The invariant is inductive.
LEMMA NextKeeps ==
  ASSUME ProverInv, [Next]_vars
  PROVE  ProverInv'
<1>1. CASE UNCHANGED vars
  <2>1. SectionShaped' /\ SectionOwned' /\ EnginesShaped' /\ ClosedEngines'
    BY <1>1 DEF ProverInv, vars, engineVars, fftVars, callVars, SectionShaped, SectionOwned,
                EnginesShaped, PoolShaped, ClosedEngines, Drained, InUse, SessionEngine
  <2> QED BY <1>1, <2>1, EnginesMove DEF vars
<1>2. CASE Next
  BY <1>2, CallKeeps, TransformKeeps, SectionKeeps, WorkerKeeps, TerminateKeeps DEF Next
<1> QED BY <1>1, <1>2

\* The calls of a page agree on the lock, the session, its engine and the workers, and each
\* of them has gathered a path and a constraint system that belong together (main.go).
THEOREM ProverIsConsistent == Spec => []ProverInv
<1>1. Init => ProverInv
  BY BlankRight DEF Init, Blank
<1> QED BY <1>1, NextKeeps, PTL DEF Spec

\* An engine that no call and no session uses has no workers, and no pool that a late
\* callback could fill again.
THEOREM WorkersNeverLeak == Spec => []NoWorkerLeaks
<1>1. ProverInv => NoWorkerLeaks
  BY DEF ProverInv, ClosedEngines, Drained, NoWorkerLeaks
<1> QED BY <1>1, ProverIsConsistent, PTL

----------------------------------------------------------------------------
\* The chunk table and the index of a release (ProofAssets).

\* Every set of numbers has a least member.
LEMMA LeastMember ==
  ASSUME NEW T \in SUBSET Nat, T # {}
  PROVE  \E x \in T : \A y \in T : x <= y
<1>1. PICK x \in T : \A y \in T : ~ (<<y, x>> \in OpToRel(<, Nat))
  BY NatLessThanWellFounded, WFMin, Zenon
<1>2. \A y \in T : ~ (y < x)
  BY <1>1 DEF OpToRel
<1> QED
  BY <1>2

\* f counts the first n pieces.
Counts(f, start, sizes, n) ==
  /\ f \in [0 .. n -> Int] /\ f[0] = start
  /\ \A i \in 1 .. n : f[i] = f[i - 1] + sizes[i]

\* Totals adds up the sizes.
LEMMA TotalsAdd ==
  ASSUME NEW start \in Int, NEW sizes, Len(sizes) \in Nat,
         \A i \in 1 .. Len(sizes) : sizes[i] \in Int
  PROVE  Counts(Totals(start, sizes), start, sizes, Len(sizes))
<1> DEFINE N == Len(sizes)
           T == {n \in 0 .. N : ~\E f : Counts(f, start, sizes, n)}
<1>1. T = {}
  <2> SUFFICES ASSUME T # {} PROVE FALSE
    OBVIOUS
  <2>0. T \in SUBSET Nat
    OBVIOUS
  <2>1. PICK n \in T : \A m \in T : n <= m
    <3> HIDE DEF T
    <3> QED BY <2>0, LeastMember
  <2>2. Counts([i \in 0 .. 0 |-> start], start, sizes, 0)
    BY DEF Counts
  <2>3. n \in 1 .. N /\ n - 1 \in 0 .. N /\ n - 1 \notin T
    BY <2>1, <2>2
  <2>4. PICK f : Counts(f, start, sizes, n - 1)
    BY <2>3
  <2> DEFINE g == [i \in 0 .. n |-> IF i = n THEN f[n - 1] + sizes[n] ELSE f[i]]
  <2>5. f[n - 1] \in Int /\ sizes[n] \in Int
    BY <2>3, <2>4 DEF Counts
  <2>6. g \in [0 .. n -> Int] /\ g[0] = start
    BY <2>3, <2>4, <2>5 DEF Counts
  <2>7. ASSUME NEW i \in 1 .. n PROVE g[i] = g[i - 1] + sizes[i]
    <3>1. CASE i = n
      BY <2>3, <3>1
    <3>2. CASE i # n
      <4>1. i \in 1 .. n - 1 /\ i - 1 \in 0 .. n /\ i - 1 # n /\ i \in 0 .. n
        BY <2>3, <3>2
      <4> QED BY <2>4, <3>2, <4>1 DEF Counts
    <3> QED BY <3>1, <3>2
  <2>8. Counts(g, start, sizes, n)
    BY <2>6, <2>7 DEF Counts
  <2> QED BY <2>1, <2>8
<1>2. PICK f : Counts(f, start, sizes, N)
  BY <1>1
<1> DEFINE Sums(s) == s = [i \in 0 .. N |-> IF i = 0 THEN start ELSE s[i - 1] + sizes[i]]
<1>3. Sums(f)
  <2>1. f = [i \in 0 .. N |-> f[i]]
    BY <1>2 DEF Counts
  <2>2. \A i \in 0 .. N : f[i] = IF i = 0 THEN start ELSE f[i - 1] + sizes[i]
    BY <1>2 DEF Counts
  <2> QED BY <2>1, <2>2
<1> DEFINE s == Totals(start, sizes)
<1>4. s = CHOOSE t : Sums(t)
  BY DEF Totals
<1>5. Sums(s)
  BY <1>3, <1>4
<1> HIDE DEF s
<1>6. s[0] = start /\ DOMAIN s = 0 .. N /\ \A i \in 1 .. N : s[i] = s[i - 1] + sizes[i]
  BY <1>5
<1> DEFINE B == {n \in 0 .. N : s[n] \notin Int}
<1>7. B = {}
  <2> SUFFICES ASSUME B # {} PROVE FALSE
    OBVIOUS
  <2>0. B \in SUBSET Nat
    OBVIOUS
  <2>1. PICK n \in B : \A m \in B : n <= m
    <3> HIDE DEF B
    <3> QED BY <2>0, LeastMember
  <2>2. n \in 1 .. N /\ n - 1 \in 0 .. N /\ n - 1 \notin B
    BY <1>6, <2>1
  <2>3. s[n] = s[n - 1] + sizes[n] /\ s[n - 1] \in Int
    BY <1>6, <2>2
  <2> QED BY <2>1, <2>2, <2>3
<1>8. s \in [0 .. N -> Int]
  BY <1>5, <1>7
<1> QED BY <1>6, <1>8 DEF Counts, s

\* A chunk table m.chunks that follows the bytes without a gap up to size.
Covers(chunks, size) ==
  /\ Len(chunks) \in Nat /\ DOMAIN chunks = 1 .. Len(chunks)
  /\ \A i \in DOMAIN chunks : chunks[i].offset \in Nat /\ chunks[i].size \in Nat
  /\ \A p \in Nat : p < size =>
       \E i \in DOMAIN chunks :
         /\ chunks[i].offset <= p /\ p < chunks[i].offset + chunks[i].size
         /\ \A k \in DOMAIN chunks :
              chunks[k].offset <= p /\ p < chunks[k].offset + chunks[k].size => k = i

\* The chunks of a table that validateChunks accepts.
LEMMA ValidChunksCover ==
  ASSUME NEW m, validateChunks(m), Len(m.chunks) \in Nat, DOMAIN m.chunks = 1 .. Len(m.chunks),
         \A i \in DOMAIN m.chunks : m.chunks[i].size \in Nat, m.chunkSize \in Nat
  PROVE  /\ Covers(m.chunks, m.coherence.provingKeySize)
         /\ \A i \in DOMAIN m.chunks : m.chunks[i].offset = (i - 1) * m.chunkSize
<1> DEFINE N == Len(m.chunks)
           sizes == [i \in DOMAIN m.chunks |-> m.chunks[i].size]
           next == Totals(0, sizes)
<1>1. Len(sizes) = N /\ \A i \in 1 .. N : sizes[i] = m.chunks[i].size /\ sizes[i] \in Int
  OBVIOUS
<1>2. /\ \A i \in 1 .. N :
            m.chunks[i].offset = next[i - 1] /\ (i < N => m.chunks[i].size = m.chunkSize)
      /\ next[N] = m.coherence.provingKeySize
  BY DEF validateChunks
<1> HIDE DEF sizes
<1>3. /\ next \in [0 .. N -> Int] /\ next[0] = 0
      /\ \A i \in 1 .. N : next[i] = next[i - 1] + m.chunks[i].size
  BY <1>1, TotalsAdd DEF Counts
<1> HIDE DEF next
<1>4. \A i \in 0 .. N : next[i] \in Int
  BY <1>3
<1>5. \A i \in 1 .. N : i \in 0 .. N /\ i - 1 \in 0 .. N /\ m.chunks[i].size \in Int
  OBVIOUS
<1>6. \A i \in 0 .. N - 1 : next[i] = i * m.chunkSize
  <2> DEFINE T == {i \in 0 .. N - 1 : next[i] # i * m.chunkSize}
  <2> SUFFICES ASSUME T # {} PROVE FALSE
    OBVIOUS
  <2>1. T \in SUBSET Nat
    OBVIOUS
  <2>2. PICK i \in T : \A k \in T : i <= k
    <3> HIDE DEF T
    <3> QED BY <2>1, LeastMember
  <2>3. i \in 1 .. N - 1 /\ i - 1 \in 0 .. N - 1 /\ i - 1 \notin T
    BY <1>3, <2>2
  <2>4. next[i] = (i - 1) * m.chunkSize + m.chunkSize
    <3>1. next[i] = next[i - 1] + m.chunks[i].size /\ m.chunks[i].size = m.chunkSize
      BY <1>2, <1>3, <2>3
    <3>2. next[i - 1] = (i - 1) * m.chunkSize
      BY <2>3
    <3> QED BY <3>1, <3>2
  <2>5. (i - 1) * m.chunkSize + m.chunkSize = i * m.chunkSize
    BY <2>3
  <2> QED BY <2>2, <2>3, <2>4, <2>5
<1>7. \A i \in 1 .. N : m.chunks[i].offset = (i - 1) * m.chunkSize
  <2> TAKE i \in 1 .. N
  <2>1. i - 1 \in 0 .. N - 1
    OBVIOUS
  <2>2. m.chunks[i].offset = next[i - 1] /\ next[i - 1] = (i - 1) * m.chunkSize
    BY <1>2, <1>6, <2>1
  <2> QED BY <2>2
<1>8. \A i \in 1 .. N : m.chunks[i].offset \in Nat
  BY <1>7
<1>9. ASSUME NEW k \in 1 .. N, NEW i \in 1 .. N, k < i PROVE next[k] <= next[i - 1]
  <2>1. k \in 0 .. N - 1 /\ i - 1 \in 0 .. N - 1 /\ k <= i - 1
    BY <1>9
  <2>2. next[k] = k * m.chunkSize /\ next[i - 1] = (i - 1) * m.chunkSize
    BY <1>6, <2>1
  <2>3. (i - 1 - k) * m.chunkSize \in Nat
    BY <2>1
  <2>4. (i - 1) * m.chunkSize = k * m.chunkSize + (i - 1 - k) * m.chunkSize
    OBVIOUS
  <2> QED BY <1>3, <2>1, <2>2, <2>3, <2>4
<1>10. \A i \in 1 .. N : m.chunks[i].offset + m.chunks[i].size = next[i]
  <2> TAKE i \in 1 .. N
  <2>1. m.chunks[i].offset = next[i - 1] /\ next[i] = next[i - 1] + m.chunks[i].size
    BY <1>2, <1>3
  <2> QED BY <2>1
<1>11. ASSUME NEW p \in Nat, p < m.coherence.provingKeySize
      PROVE  \E i \in 1 .. N :
               /\ m.chunks[i].offset <= p /\ p < m.chunks[i].offset + m.chunks[i].size
               /\ \A k \in 1 .. N :
                    m.chunks[k].offset <= p /\ p < m.chunks[k].offset + m.chunks[k].size => k = i
  <2> DEFINE T == {i \in 0 .. N : p < next[i]}
  <2>1. T \in SUBSET Nat /\ N \in T
    BY <1>2, <1>11
  <2>2. PICK i \in T : \A k \in T : i <= k
    <3> HIDE DEF T
    <3> QED BY <2>1, LeastMember
  <2>3. i \in 1 .. N /\ i - 1 \in 0 .. N /\ i - 1 \notin T
    BY <1>3, <2>2
  <2>4. next[i - 1] <= p /\ p < next[i]
    BY <1>3, <2>2, <2>3
  <2>5. ASSUME NEW k \in 1 .. N, next[k - 1] <= p, p < next[k], k # i PROVE FALSE
    <3>1. next[k] \in Int /\ next[i] \in Int /\ next[k - 1] \in Int /\ next[i - 1] \in Int
      BY <1>4, <1>5, <2>3
    <3>2. CASE k < i
      BY <1>9, <2>3, <2>4, <2>5, <3>1, <3>2
    <3>3. CASE i < k
      BY <1>9, <2>3, <2>4, <2>5, <3>1, <3>3
    <3> QED BY <2>3, <2>5, <3>2, <3>3
  <2>6. ASSUME NEW k \in 1 .. N
        PROVE  /\ m.chunks[k].offset <= p <=> next[k - 1] <= p
               /\ p < m.chunks[k].offset + m.chunks[k].size <=> p < next[k]
    <3>1. m.chunks[k].offset = next[k - 1] /\ m.chunks[k].offset + m.chunks[k].size = next[k]
      BY <1>2, <1>10
    <3> QED BY <3>1
  <2> QED BY <2>3, <2>4, <2>5, <2>6
<1> QED BY <1>7, <1>8, <1>11 DEF Covers

\* What was fetched for the chunks of a range are pieces of the key at their places.
Pieces(raw, key, chunks, start, end) ==
  \A i \in Overlapping(chunks, start, end) : raw[i].key = key /\ raw[i].from = chunks[i].offset

\* Bytes start .. end - 1 are those of the key.
ReadsAs(bytes, key, start, end) == \A p \in start .. end - 1 : bytes[p] = <<key, p>>

\* Points read from a table whose chunks are pieces of the key at their places.
LEMMA BytesOfChunks ==
  ASSUME NEW chunks, NEW size \in Int, Covers(chunks, size), NEW key, NEW raw,
         NEW start \in Nat, NEW end \in Int, end <= size, Pieces(raw, key, chunks, start, end)
  PROVE  ReadsAs(fetchSectionPointBytes(chunks, raw, start, end), key, start, end)
<1> SUFFICES ASSUME NEW p \in start .. end - 1
             PROVE  fetchSectionPointBytes(chunks, raw, start, end)[p] = <<key, p>>
  BY DEF ReadsAs
<1> DEFINE Holds(i, q) == chunks[i].offset <= q /\ q < chunks[i].offset + chunks[i].size
           Last(q) == {i \in DOMAIN chunks : Holds(i, q) /\ \A k \in i + 1 .. Len(chunks) : ~Holds(k, q)}
           Read(q) == IF Last(q) = {} THEN <<"zero", 0>>
                      ELSE LET i == CHOOSE i \in Last(q) : TRUE
                           IN Byte(raw[i], q - chunks[i].offset)
<1>1. fetchSectionPointBytes(chunks, raw, start, end) = [q \in start .. end - 1 |-> Read(q)]
  BY DEF fetchSectionPointBytes
<1>2. PICK i \in DOMAIN chunks :
        Holds(i, p) /\ \A k \in DOMAIN chunks : Holds(k, p) => k = i
  <2>1. p \in Nat /\ p < size
    OBVIOUS
  <2> QED BY <2>1 DEF Covers
<1>3. Last(p) = {i}
  <2>1. \A k \in i + 1 .. Len(chunks) : k \in DOMAIN chunks /\ k # i
    BY DEF Covers
  <2> HIDE DEF Holds
  <2> QED BY <1>2, <2>1
<1>4. (CHOOSE k \in Last(p) : TRUE) = i
  BY <1>3
<1>5. Read(p) = Byte(raw[i], p - chunks[i].offset)
  BY <1>3, <1>4, Zenon
<1>6. chunks[i].offset \in Nat /\ chunks[i].size \in Nat
  BY DEF Covers
<1>7. i \in Overlapping(chunks, start, end)
  BY <1>2, <1>6 DEF Overlapping
<1>8. Byte(raw[i], p - chunks[i].offset) = <<key, p>>
  BY <1>6, <1>7 DEF Byte, Pieces
<1> HIDE DEF Read
<1> QED BY <1>1, <1>5, <1>8

\* The points of the positions lo .. hi of a section, when the bytes from the
\* first to the last of them are those of the key.
LEMMA PointsOfBytes ==
  ASSUME NEW bytes, NEW key, NEW sec, sec.offset \in Nat, sec.elem \in Nat,
         NEW lo \in Nat, NEW hi \in Nat,
         ReadsAs(bytes, key, sec.offset + lo * sec.elem, sec.offset + (hi + 1) * sec.elem)
  PROVE  RightPoints(bytes, sec, lo .. hi, key) = lo .. hi
<1> DEFINE offset == sec.offset
           elem == sec.elem
<1>0. offset \in Nat /\ elem \in Nat
  OBVIOUS
<1> SUFFICES ASSUME NEW q \in lo .. hi,
                    NEW p \in offset + q * elem .. offset + (q + 1) * elem - 1
             PROVE  bytes[p] = <<key, p>>
  BY DEF RightPoints
<1> HIDE DEF offset, elem
<1>1. (q - lo) * elem \in Nat /\ q * elem = lo * elem + (q - lo) * elem
  BY <1>0
<1>2. (hi - q) * elem \in Nat /\ (hi + 1) * elem = (q + 1) * elem + (hi - q) * elem
  BY <1>0
<1>3. q * elem \in Nat /\ lo * elem \in Nat /\ (hi + 1) * elem \in Nat /\ (q + 1) * elem \in Nat
  BY <1>0
<1>4. p \in offset + lo * elem .. offset + (hi + 1) * elem - 1
  BY <1>0, <1>1, <1>2, <1>3
<1> QED BY <1>4 DEF ReadsAs, offset, elem

\* The index of a release is made of numbers.
LEMMA IndexTyped ==
  ASSUME NEW r \in Releases
  PROVE  LET x == BuildPKIndex(r) IN
         /\ x.fileSize \in Int
         /\ Len(x.sections) \in Nat /\ DOMAIN x.sections = 1 .. Len(x.sections)
         /\ \A i \in DOMAIN x.sections :
              /\ x.sections[i].offset \in Int /\ x.sections[i].len \in Int
              /\ x.sections[i].elem \in Nat \ {0}
<1> DEFINE N == Len(r.sections)
           Size(i) == r.sections[i].count * r.sections[i].elem
           sizes == [i \in DOMAIN r.sections |-> 1 + Size(i)]
           end == Totals(Header, sizes)
           sections == [i \in DOMAIN r.sections |->
                          [offset |-> end[i - 1] + 1, elem |-> r.sections[i].elem, len |-> Size(i)]]
<1>1. /\ N \in Nat /\ DOMAIN r.sections = 1 .. N
      /\ \A i \in 1 .. N : r.sections[i] \in [count : Nat, elem : ElemSizes]
  BY AssetAssumption, LenProperties, ElementOfSeq
<1>2. \A i \in 1 .. N : Size(i) \in Nat /\ r.sections[i].elem \in Nat \ {0}
  <2> TAKE i \in 1 .. N
  <2>1. r.sections[i].count \in Nat /\ r.sections[i].elem \in Nat \ {0}
    BY <1>1, AssetAssumption
  <2> QED BY <2>1
<1>3. Len(sizes) = N /\ \A i \in 1 .. N : sizes[i] \in Int
  <2> HIDE DEF Size
  <2> QED BY <1>1, <1>2
<1> HIDE DEF sizes, Size
<1>4. end \in [0 .. N -> Int]
  BY <1>1, <1>3, TotalsAdd, AssetAssumption DEF Counts
<1> HIDE DEF end
<1>5. \A i \in 1 .. N : end[i - 1] \in Int
  BY <1>1, <1>4
<1>6. BuildPKIndex(r) = [fileSize |-> end[N], sections |-> sections]
  BY DEF BuildPKIndex, end, sizes, Size
<1>7. end[N] \in Int
  BY <1>1, <1>4
<1>8. Len(sections) = N /\ DOMAIN sections = 1 .. N
  BY <1>1
<1>9. ASSUME NEW i \in 1 .. N
      PROVE  /\ sections[i].offset \in Int /\ sections[i].len \in Int
             /\ sections[i].elem \in Nat \ {0}
  <2>1. sections[i] = [offset |-> end[i - 1] + 1, elem |-> r.sections[i].elem, len |-> Size(i)]
    BY <1>1
  <2> HIDE DEF sections
  <2> QED BY <1>2, <1>5, <2>1
<1> HIDE DEF sections
<1>10. BuildPKIndex(r).fileSize = end[N] /\ BuildPKIndex(r).sections = sections
  BY <1>6
<1> QED BY <1>1, <1>7, <1>8, <1>9, <1>10

\* The chunks of a release that pass validateChunks are pieces of its key.
LEMMA ChunksAreRight ==
  ASSUME NEW r \in Releases, validateChunks(GenerateChunkManifest(r))
  PROVE  LET chunks == GenerateChunkManifest(r).chunks IN
         /\ Covers(chunks, FileSize(r))
         /\ \A i \in DOMAIN chunks :
              chunks[i].digest.key = r.key /\ chunks[i].digest.from = chunks[i].offset
<1> DEFINE m == GenerateChunkManifest(r)
           chunks == m.chunks
           count == (FileSize(r) + r.chunkSize - 1) \div r.chunkSize
           From(i) == (i - 1) * r.chunkSize
           Size(i) == Least(r.chunkSize, FileSize(r) - From(i))
           pins == [i \in 1 .. count |->
                      [index |-> i - 1, offset |-> From(i), size |-> Size(i),
                       digest |-> Bytes(r, From(i), Size(i))]]
<1>1. /\ m.chunkSize = r.chunkSize /\ chunks = (IF r.table = <<>> THEN BuildChunkPins(r) ELSE r.table)
      /\ m.coherence.provingKeySize = FileSize(r)
  BY DEF GenerateChunkManifest
<1>2. r.chunkSize \in Nat /\ FileSize(r) \in Int
  BY IndexTyped, AssetAssumption DEF FileSize
<1>3. m.chunkSize > 0 /\ \A i \in DOMAIN chunks : chunks[i].size > 0
  BY DEF validateChunks
<1>4. /\ Len(chunks) \in Nat /\ DOMAIN chunks = 1 .. Len(chunks)
      /\ \A i \in DOMAIN chunks :
           chunks[i].size \in Int /\ chunks[i].digest.key = r.key /\ chunks[i].digest.from = From(i)
  <2>1. CASE r.table = <<>>
    <3>1. chunks = pins
      BY <1>1, <2>1 DEF BuildChunkPins
    <3>2. count \in Int /\ chunks # <<>>
      BY <1>1, <1>2, <1>3 DEF validateChunks
    <3> HIDE DEF count, m
    <3>3. DOMAIN chunks = 1 .. count /\ count \in Nat
      BY <3>1, <3>2
    <3>4. Len(chunks) = count
      BY <3>1, <3>3
    <3>5. ASSUME NEW i \in DOMAIN chunks
          PROVE  chunks[i].size \in Int /\ chunks[i].digest.key = r.key /\ chunks[i].digest.from = From(i)
      <4>1. From(i) \in Int /\ Size(i) \in Int
        BY <1>2, <3>3 DEF Least
      <4>2. chunks[i] = [index |-> i - 1, offset |-> From(i), size |-> Size(i),
                         digest |-> Bytes(r, From(i), Size(i))]
        BY <3>1, <3>3
      <4> HIDE DEF From, Size
      <4> QED BY <4>1, <4>2 DEF Bytes
    <3> QED BY <3>3, <3>4, <3>5
  <2>2. CASE r.table # <<>>
    <3>1. chunks = r.table
      BY <1>1, <2>2
    <3> HIDE DEF m
    <3> QED BY <1>2, <3>1, TableAssumption
  <2> QED BY <2>1, <2>2
<1>5. \A i \in DOMAIN chunks : chunks[i].size \in Nat
  BY <1>3, <1>4
<1> HIDE DEF m, From
<1>6. Covers(chunks, FileSize(r)) /\ \A i \in DOMAIN chunks : chunks[i].offset = (i - 1) * r.chunkSize
  BY <1>1, <1>2, <1>4, <1>5, ValidChunksCover DEF m
<1> QED BY <1>4, <1>6 DEF m, From

\* Positions before n \div elem end within n.
LEMMA PositionEnds ==
  ASSUME NEW n \in Nat, NEW elem \in Nat \ {0}, NEW hi \in Int, hi < n \div elem
  PROVE  (hi + 1) * elem <= n
<1> DEFINE q == n \div elem
<1>1. q \in Int /\ q * elem <= n /\ hi < q
  OBVIOUS
<1> HIDE DEF q
<1> SUFFICES ASSUME NEW x \in Int, x = q, hi < x, x * elem <= n PROVE (hi + 1) * elem <= n
  BY <1>1
<1>2. x - (hi + 1) \in Nat
  OBVIOUS
<1>3. (x - (hi + 1)) * elem \in Nat
  BY <1>2
<1>4. (hi + 1) * elem + (x - (hi + 1)) * elem = x * elem
  OBVIOUS
<1> QED BY <1>3, <1>4

\* The sections of an index that passes its checks lie within the key.
LEMMA SectionTyped ==
  ASSUME NEW r \in Releases, ValidatePKIndex(BuildPKIndex(r)),
         NEW i \in DOMAIN BuildPKIndex(r).sections
  PROVE  LET sec == BuildPKIndex(r).sections[i] IN
         /\ sec.offset \in Nat /\ sec.len \in Nat /\ sec.elem \in Nat \ {0}
         /\ sec.offset + sec.len <= FileSize(r) /\ FileSize(r) \in Int
<1> DEFINE sec == BuildPKIndex(r).sections[i]
<1>1. sec.offset \in Int /\ sec.len \in Int /\ sec.elem \in Nat \ {0} /\ FileSize(r) \in Int
  BY IndexTyped DEF FileSize
<1>2. sec.offset >= 0 /\ sec.len >= 0 /\ sec.offset + sec.len <= FileSize(r)
  BY DEF ValidatePKIndex, FileSize
<1> HIDE DEF sec
<1>3. /\ sec.offset \in Nat /\ sec.len \in Nat /\ sec.elem \in Nat \ {0}
      /\ sec.offset + sec.len <= FileSize(r) /\ FileSize(r) \in Int
  BY <1>1, <1>2
<1> QED BY <1>3 DEF sec

\* What passes fetchVerifiedChunk is a piece of the key.
LEMMA PinnedPieces ==
  ASSUME NEW r \in Releases, validateChunks(GenerateChunkManifest(r)), NEW raw, NEW start, NEW end,
         \A k \in Overlapping(GenerateChunkManifest(r).chunks, start, end) :
           raw[k] = GenerateChunkManifest(r).chunks[k].digest
  PROVE  Pieces(raw, r.key, GenerateChunkManifest(r).chunks, start, end)
<1> DEFINE chunks == GenerateChunkManifest(r).chunks
<1>1. \A k \in DOMAIN chunks : chunks[k].digest.key = r.key /\ chunks[k].digest.from = chunks[k].offset
  BY ChunksAreRight
<1> QED BY <1>1 DEF Overlapping, Pieces

\* Bytes read from the pinned chunks are those of the key.
LEMMA PinnedBytes ==
  ASSUME NEW r \in Releases, validateChunks(GenerateChunkManifest(r)), FileSize(r) \in Int,
         NEW start \in Nat, NEW end \in Int, end <= FileSize(r),
         NEW raw, Pieces(raw, r.key, GenerateChunkManifest(r).chunks, start, end)
  PROVE  ReadsAs(fetchSectionPointBytes(GenerateChunkManifest(r).chunks, raw, start, end),
                 r.key, start, end)
<1> DEFINE chunks == GenerateChunkManifest(r).chunks
<1>1. Covers(chunks, FileSize(r)) /\ Pieces(raw, r.key, chunks, start, end)
  BY ChunksAreRight
<1> HIDE DEF chunks
<1>2. ReadsAs(fetchSectionPointBytes(chunks, raw, start, end), r.key, start, end)
  BY <1>1, BytesOfChunks
<1> QED BY <1>2 DEF chunks

\* All points of a section, read from the pinned chunks.
LEMMA PinnedSection ==
  ASSUME NEW r \in Releases, validateChunks(GenerateChunkManifest(r)), FileSize(r) \in Int,
         NEW sec, sec.offset \in Nat, sec.len \in Nat, sec.elem \in Nat \ {0},
         sec.offset + sec.len <= FileSize(r), NEW raw,
         Pieces(raw, r.key, GenerateChunkManifest(r).chunks, sec.offset, sec.offset + sec.len)
  PROVE  LET all == 0 .. (sec.len \div sec.elem) - 1 IN
         RightPoints(fetchSectionPointBytes(GenerateChunkManifest(r).chunks, raw, sec.offset,
                                            sec.offset + sec.len), sec, all, r.key) = all
<1> DEFINE end == sec.offset + sec.len
           hi == (sec.len \div sec.elem) - 1
           bytes == fetchSectionPointBytes(GenerateChunkManifest(r).chunks, raw, sec.offset, end)
<1>1. hi \in Int /\ end \in Int /\ hi < sec.len \div sec.elem
  OBVIOUS
<1>2. CASE hi \in Nat
  <2> HIDE DEF hi
  <2>1. (hi + 1) * sec.elem <= sec.len
    BY <1>1, PositionEnds
  <2>2. (hi + 1) * sec.elem \in Nat /\ 0 * sec.elem = 0
    BY <1>2
  <2>3. sec.offset <= sec.offset + 0 * sec.elem /\ sec.offset + (hi + 1) * sec.elem <= end
    BY <2>1, <2>2
  <2>4. ReadsAs(bytes, r.key, sec.offset, end)
    BY <1>1, PinnedBytes
  <2> HIDE DEF bytes, end
  <2>5. ReadsAs(bytes, r.key, sec.offset + 0 * sec.elem, sec.offset + (hi + 1) * sec.elem)
    BY <1>1, <2>2, <2>3, <2>4 DEF ReadsAs
  <2>6. RightPoints(bytes, sec, 0 .. hi, r.key) = 0 .. hi
    BY <1>2, <2>5, PointsOfBytes
  <2> QED BY <2>6 DEF hi, bytes, end
<1>3. CASE hi \notin Nat
  <2>1. 0 .. hi = {}
    BY <1>1, <1>3
  <2>2. RightPoints(bytes, sec, {}, r.key) = {}
    BY DEF RightPoints
  <2> HIDE DEF hi, bytes
  <2>3. RightPoints(bytes, sec, 0 .. hi, r.key) = 0 .. hi
    BY <2>1, <2>2
  <2> QED BY <2>3 DEF hi, bytes
<1> QED BY <1>2, <1>3

\* A release whose chunk table and index pass their checks is complete.
LEMMA ValidReleaseCovers ==
  ASSUME NEW r \in Releases, validateChunks(GenerateChunkManifest(r)), ValidatePKIndex(BuildPKIndex(r)),
         Content[r]["chunk manifest"] = GenerateChunkManifest(r), Content[r]["pk index"] = BuildPKIndex(r)
  PROVE  ChunksCover[r]
<1> DEFINE pins == GenerateChunkManifest(r).chunks
           raw == [k \in DOMAIN pins |-> pins[k].digest]
           sections == BuildPKIndex(r).sections
           Right(sec) == LET all == 0 .. (sec.len \div sec.elem) - 1
                         IN RightPoints(fetchSectionPointBytes(pins, raw, sec.offset, sec.offset + sec.len),
                                        sec, all, r.key) = all
<1>1. ChunksCover[r] <=> \A i \in DOMAIN sections : Right(sections[i])
  BY DEF ChunksCover
<1>2. ASSUME NEW i \in DOMAIN sections PROVE Right(sections[i])
  <2> DEFINE sec == sections[i]
  <2>1. /\ sec.offset \in Nat /\ sec.len \in Nat /\ sec.elem \in Nat \ {0}
        /\ sec.offset + sec.len <= FileSize(r) /\ FileSize(r) \in Int
    BY SectionTyped
  <2>2. Pieces(raw, r.key, pins, sec.offset, sec.offset + sec.len)
    <3>1. \A k \in DOMAIN pins : raw[k] = pins[k].digest
      OBVIOUS
    <3>2. \A k \in Overlapping(pins, sec.offset, sec.offset + sec.len) : raw[k] = pins[k].digest
      BY <3>1 DEF Overlapping
    <3> QED BY <3>2, PinnedPieces
  <2> HIDE DEF raw, sec
  <2> QED BY <2>1, <2>2, PinnedSection DEF sec
<1> HIDE DEF Right, pins, raw, sections
<1> QED BY <1>1, <1>2, Zenon

----------------------------------------------------------------------------
\* The files of a call and of the session.

\* The files of a release, one by one.
LEMMA FilesOfRelease ==
  ASSUME NEW r \in Releases
  PROVE  /\ Content[r]["manifest"] = keyManifest(r) /\ Content[r]["manifest sig"] = keyManifest(r)
         /\ Content[r]["vk"] = r.key /\ Content[r]["pk index"] = BuildPKIndex(r)
         /\ Content[r]["chunk manifest"] = GenerateChunkManifest(r)
         /\ Content[r]["chunk manifest sig"] = GenerateChunkManifest(r)
         /\ Content[r]["deployment"] = deploymentManifest(r)
         /\ \A f \in Software : Content[r][f] = r.software
  BY DEF Content, Files, Software

\* The i-th file that is fetched with a chunk manifest.
File(i) == Fetches(TRUE)[i]

\* A complete list of what is fetched.
LEMMA FileNames ==
  /\ Len(Fetches(TRUE)) = 10
  /\ File(1) = "manifest" /\ File(2) = "manifest sig" /\ File(3) = "vk" /\ File(4) = "pk index"
  /\ File(5) = "chunk manifest" /\ File(6) = "chunk manifest sig" /\ File(7) = "deployment"
  /\ File(8) = "proof wasm" /\ File(9) = "worker js" /\ File(10) = "msm wasm"
  BY DEF File, Fetches

\* No file is fetched twice.
LEMMA FilesDiffer ==
  ASSUME NEW i \in 1 .. 10, NEW j \in 1 .. 10, File(i) = File(j)
  PROVE  i = j
<1> DEFINE Place(f) ==
      CASE f = "manifest" -> 1 [] f = "manifest sig" -> 2 [] f = "vk" -> 3 [] f = "pk index" -> 4
        [] f = "chunk manifest" -> 5 [] f = "chunk manifest sig" -> 6 [] f = "deployment" -> 7
        [] f = "proof wasm" -> 8 [] f = "worker js" -> 9 [] f = "msm wasm" -> 10
<1>1. \A k \in {1, 2, 3, 4, 5, 6, 7, 8, 9, 10} : Place(File(k)) = k
  BY FileNames
<1>2. i \in {1, 2, 3, 4, 5, 6, 7, 8, 9, 10} /\ j \in {1, 2, 3, 4, 5, 6, 7, 8, 9, 10}
  OBVIOUS
<1> HIDE DEF Place
<1> QED BY <1>1, <1>2

\* What is checked of each file.
LEMMA ChecksOfFiles ==
  ASSUME NEW b, NEW raw
  PROVE  /\ Checked(b, "manifest", raw) /\ Checked(b, "chunk manifest", raw)
         /\ Checked(b, "manifest sig", raw) <=> raw = b["manifest"]
         /\ Checked(b, "vk", raw) <=> raw = b["manifest"].vk
         /\ Checked(b, "pk index", raw) <=>
              ValidatePKIndex(raw) /\ raw.fileSize = b["manifest"].provingKeySize
         /\ Checked(b, "chunk manifest sig", raw) <=> raw = b["chunk manifest"]
         /\ Checked(b, "deployment", raw) <=>
              /\ ValidateReclaimDeployment(raw, b["manifest"])
              /\ ValidateChunkManifest(b["chunk manifest"], b["manifest"], raw)
              /\ validatePinnedVKAsset(b["chunk manifest"], b["vk"])
              /\ validatePinnedPKIndex(b["chunk manifest"], b["pk index"])
         /\ \A f \in Software :
              Checked(b, f, raw) <=> raw = b["chunk manifest"].assets.software
<1>1. Checked(b, "manifest", raw) /\ Checked(b, "chunk manifest", raw)
  BY DEF Checked, Software
<1>2. Checked(b, "manifest sig", raw) <=> raw = b["manifest"]
  BY DEF Checked, Software, VerifyDetachedSignature
<1>3. Checked(b, "vk", raw) <=> raw = b["manifest"].vk
  BY DEF Checked, Software
<1>4. Checked(b, "pk index", raw) <=>
        ValidatePKIndex(raw) /\ raw.fileSize = b["manifest"].provingKeySize
  BY DEF Checked, Software
<1>5. Checked(b, "chunk manifest sig", raw) <=> raw = b["chunk manifest"]
  BY DEF Checked, Software, VerifyDetachedSignature
<1>6. Checked(b, "deployment", raw) <=>
        /\ ValidateReclaimDeployment(raw, b["manifest"])
        /\ ValidateChunkManifest(b["chunk manifest"], b["manifest"], raw)
        /\ validatePinnedVKAsset(b["chunk manifest"], b["vk"])
        /\ validatePinnedPKIndex(b["chunk manifest"], b["pk index"])
  BY DEF Checked, Software
<1>7. ASSUME NEW f \in Software
      PROVE  Checked(b, f, raw) <=> raw = b["chunk manifest"].assets.software
  BY DEF Checked, Software, validatePinnedAssetURL
<1> QED BY <1>1, <1>2, <1>3, <1>4, <1>5, <1>6, <1>7

\* b holds the first n files, each of some release and each checked.
Arrived(b, n) ==
  /\ DOMAIN b = {File(i) : i \in 1 .. n}
  /\ IsFiniteSet(DOMAIN b) /\ Cardinality(DOMAIN b) = n
  /\ \A i \in 1 .. n : b[File(i)] \in Served(File(i)) /\ Checked(b, File(i), b[File(i)])

\* What is checked of a file depends on the files before it only.
LEMMA CheckedEarlier ==
  ASSUME NEW i \in 1 .. 10, NEW b, NEW x, \A j \in 1 .. i - 1 : b[File(j)] = x[File(j)], NEW raw
  PROVE  Checked(b, File(i), raw) <=> Checked(x, File(i), raw)
<1>1. /\ i # 1 => b[File(1)] = x[File(1)]
      /\ i \in {6, 7, 8, 9, 10} => b[File(5)] = x[File(5)]
  OBVIOUS
<1> DEFINE Same(f) == Checked(b, f, raw) <=> Checked(x, f, raw)
<1>2. i # 1 => b["manifest"] = x["manifest"]
  BY <1>1, FileNames
<1>3. i \in {6, 7, 8, 9, 10} => b["chunk manifest"] = x["chunk manifest"]
  BY <1>1, FileNames
<1>4. Same("manifest") /\ Same("chunk manifest")
  BY ChecksOfFiles
<1>5. ASSUME i # 1 PROVE Same("manifest sig") /\ Same("vk") /\ Same("pk index")
  <2>1. b["manifest"] = x["manifest"]
    BY <1>2, <1>5
  <2>2. \A y : Checked(y, "manifest sig", raw) <=> raw = y["manifest"]
    BY ChecksOfFiles, Zenon
  <2>3. \A y : Checked(y, "vk", raw) <=> raw = y["manifest"].vk
    BY ChecksOfFiles, Zenon
  <2>4. \A y : Checked(y, "pk index", raw) <=>
                 ValidatePKIndex(raw) /\ raw.fileSize = y["manifest"].provingKeySize
    BY ChecksOfFiles, Zenon
  <2> QED BY <2>1, <2>2, <2>3, <2>4
<1>6. ASSUME i \in {6, 7, 8, 9, 10} PROVE Same("chunk manifest sig") /\ \A f \in Software : Same(f)
  <2>1. b["chunk manifest"] = x["chunk manifest"]
    BY <1>3, <1>6
  <2>2. \A y : Checked(y, "chunk manifest sig", raw) <=> raw = y["chunk manifest"]
    BY ChecksOfFiles, Zenon
  <2>3. \A f \in Software : \A y :
          Checked(y, f, raw) <=> raw = y["chunk manifest"].assets.software
    BY ChecksOfFiles, Zenon
  <2> QED BY <2>1, <2>2, <2>3
<1>7. ASSUME i = 7 PROVE Same("deployment")
  <2>1. b["manifest"] = x["manifest"] /\ b["chunk manifest"] = x["chunk manifest"]
    <3>1. i # 1 /\ i \in {6, 7, 8, 9, 10}
      BY <1>7
    <3> QED BY <1>2, <1>3, <3>1, Zenon
  <2>2. b["vk"] = x["vk"] /\ b["pk index"] = x["pk index"]
    <3>1. b[File(3)] = x[File(3)] /\ b[File(4)] = x[File(4)]
      BY <1>7
    <3> QED BY <3>1, FileNames
  <2>3. \A y : Checked(y, "deployment", raw) <=>
                 /\ ValidateReclaimDeployment(raw, y["manifest"])
                 /\ ValidateChunkManifest(y["chunk manifest"], y["manifest"], raw)
                 /\ validatePinnedVKAsset(y["chunk manifest"], y["vk"])
                 /\ validatePinnedPKIndex(y["chunk manifest"], y["pk index"])
    BY ChecksOfFiles, Zenon
  <2> QED BY <2>1, <2>2, <2>3, Zenon
<1> HIDE DEF Same
<1>8. Same(File(i))
  <2>1. i = 1 \/ i = 5 \/ i \in {2, 3, 4} \/ i = 6 \/ i = 7 \/ i \in {8, 9, 10}
    OBVIOUS
  <2>2. i = 1 \/ i = 5 => Same(File(i))
    BY <1>4, FileNames
  <2>3. i \in {2, 3, 4} => Same(File(i))
    BY <1>5, FileNames
  <2>4. i = 6 => Same(File(i))
    BY <1>6, FileNames
  <2>5. i = 7 => Same(File(i))
    BY <1>7, FileNames
  <2>6. i \in {8, 9, 10} => Same(File(i))
    BY <1>6, FileNames DEF Software
  <2> QED BY <2>1, <2>2, <2>3, <2>4, <2>5, <2>6
<1> QED BY <1>8 DEF Same

\* The next file arrives.
LEMMA NextArrives ==
  ASSUME NEW n \in 0 .. 9, NEW b, Arrived(b, n), NEW raw \in Served(File(n + 1)),
         Checked(b, File(n + 1), raw)
  PROVE  Arrived([f \in DOMAIN b \cup {File(n + 1)} |-> IF f = File(n + 1) THEN raw ELSE b[f]], n + 1)
<1> DEFINE file == File(n + 1)
           x == [f \in DOMAIN b \cup {file} |-> IF f = file THEN raw ELSE b[f]]
<1>1. \A i \in 1 .. n : File(i) # file
  BY FilesDiffer
<1>2. 1 .. n + 1 = (1 .. n) \cup {n + 1}
  OBVIOUS
<1>3. DOMAIN x = {File(i) : i \in 1 .. n + 1}
  BY <1>2 DEF Arrived
<1>4. file \notin DOMAIN b
  BY <1>1 DEF Arrived
<1>5. IsFiniteSet(DOMAIN x) /\ Cardinality(DOMAIN x) = n + 1
  BY <1>4, FS_AddElement DEF Arrived
<1>6. x[file] = raw /\ \A i \in 1 .. n : x[File(i)] = b[File(i)]
  BY <1>1 DEF Arrived
<1> HIDE DEF x
<1>7. ASSUME NEW i \in 1 .. n + 1
      PROVE  x[File(i)] \in Served(File(i)) /\ Checked(x, File(i), x[File(i)])
  <2>1. \A j \in 1 .. i - 1 : b[File(j)] = x[File(j)]
    BY <1>6
  <2>2. i \in 1 .. 10
    OBVIOUS
  <2>3. \A y : Checked(b, File(i), y) <=> Checked(x, File(i), y)
    BY <2>1, <2>2, CheckedEarlier
  <2>4. CASE i = n + 1
    BY <1>6, <2>3, <2>4
  <2>5. CASE i # n + 1
    BY <1>6, <2>3, <2>5 DEF Arrived
  <2> QED BY <2>4, <2>5
<1> QED BY <1>3, <1>5, <1>7 DEF Arrived, x

\* All files that have arrived and passed the checks are those of one release: the
\* one of the signed chunk manifest.
LEMMA ArrivedCoheres ==
  ASSUME NEW b, Arrived(b, 10)
  PROVE  \E r \in Releases :
           /\ \A f \in DOMAIN b : b[f] = Content[r][f]
           /\ validateChunks(GenerateChunkManifest(r)) /\ ValidatePKIndex(BuildPKIndex(r))
           /\ ChunksCover[r]
<1> DEFINE m == b["chunk manifest"]
           d == b["deployment"]
           Good(i) == b[File(i)] \in Served(File(i)) /\ Checked(b, File(i), b[File(i)])
<1>1. \A i \in 1 .. 10 : Good(i)
  BY DEF Arrived
<1>2. /\ Good(2) /\ Good(3) /\ Good(5) /\ Good(6) /\ Good(7) /\ Good(8) /\ Good(9) /\ Good(10)
  <2> HIDE DEF Good
  <2> QED BY <1>1
<1>3. /\ m \in Served("chunk manifest") /\ d \in Served("deployment")
      /\ Checked(b, "manifest sig", b["manifest sig"]) /\ Checked(b, "vk", b["vk"])
      /\ Checked(b, "chunk manifest sig", b["chunk manifest sig"])
      /\ Checked(b, "deployment", d)
      /\ \A f \in Software : Checked(b, f, b[f])
  BY <1>2, FileNames DEF Software
<1> HIDE DEF Good
<1>4. PICK r \in Releases : m = GenerateChunkManifest(r)
  BY <1>3, FilesOfRelease DEF Served
<1>5. /\ m.coherence.manifest = keyManifest(r) /\ m.coherence.deployment = r.deployment
      /\ m.coherence.mpc = r.mpc /\ m.index = BuildPKIndex(r) /\ m.assets.software = r.software
  <2> HIDE DEF m
  <2> QED BY <1>4 DEF GenerateChunkManifest
<1>6. /\ ValidateReclaimDeployment(d, b["manifest"])
      /\ ValidateChunkManifest(m, b["manifest"], d) /\ validatePinnedPKIndex(m, b["pk index"])
  BY <1>3, ChecksOfFiles
<1>7. b["manifest"] = keyManifest(r) /\ b["pk index"] = BuildPKIndex(r)
  <2> HIDE DEF m
  <2> QED BY <1>5, <1>6 DEF ValidateChunkManifest, validatePinnedPKIndex
<1>8. b["manifest sig"] = keyManifest(r) /\ b["chunk manifest sig"] = m /\ b["vk"] = r.key
  <2>1. b["manifest sig"] = b["manifest"] /\ b["chunk manifest sig"] = m /\ b["vk"] = b["manifest"].vk
    BY <1>3, ChecksOfFiles
  <2>2. keyManifest(r).vk = r.key
    BY DEF keyManifest
  <2> QED BY <1>7, <2>1, <2>2
<1>9. d = deploymentManifest(r)
  <2>1. PICK s \in Releases : d = deploymentManifest(s)
    BY <1>3, FilesOfRelease DEF Served
  <2>2. d.id = s.deployment /\ d.mpc = s.mpc /\ d.vk = s.key
    <3> HIDE DEF d
    <3> QED BY <2>1 DEF deploymentManifest
  <2>3. d.id = r.deployment /\ d.mpc = r.mpc /\ d.vk = b["manifest"].vk
    <3> HIDE DEF m, d
    <3> QED BY <1>5, <1>6 DEF ValidateChunkManifest, ValidateReclaimDeployment
  <2>4. b["manifest"].vk = r.key
    <3>1. keyManifest(r).vk = r.key
      BY DEF keyManifest
    <3> QED BY <1>7, <3>1
  <2>5. s.mainnet = r.mainnet
    BY <2>2, <2>3, DeploymentAssumption
  <2> QED BY <2>1, <2>2, <2>3, <2>4, <2>5 DEF deploymentManifest
<1>10. ASSUME NEW f \in Software PROVE b[f] = r.software
  BY <1>3, <1>5, ChecksOfFiles
<1>11. \A f \in DOMAIN b : b[f] = Content[r][f]
  <2>1. DOMAIN b = {File(i) : i \in 1 .. 10}
    BY DEF Arrived
  <2>2. 1 .. 10 = {1, 2, 3, 4, 5, 6, 7, 8, 9, 10}
    OBVIOUS
  <2>3. DOMAIN b = {"manifest", "manifest sig", "vk", "pk index", "chunk manifest",
                    "chunk manifest sig", "deployment"} \cup Software
    BY ZenonT(30), <2>1, <2>2, FileNames DEF Software
  <2> QED BY <1>4, <1>7, <1>8, <1>9, <1>10, <2>3, FilesOfRelease
<1>12. validateChunks(GenerateChunkManifest(r)) /\ ValidatePKIndex(BuildPKIndex(r))
  <2>1. validateChunks(m) /\ ValidatePKIndex(m.index)
    BY <1>6 DEF ValidateChunkManifest, validateManifestIndex
  <2> QED BY <1>4, <1>5, <2>1
<1>13. ChunksCover[r]
  BY <1>12, FilesOfRelease, ValidReleaseCovers
<1> QED BY <1>11, <1>12, <1>13

\* Calls that open files with a chunk manifest.
Plans(c) == Asked(c).kind \in {"prove", "preflight"} /\ Key(c).planned

\* What a call and the session have of the files.
CallFiles(c) ==
  /\ call[c].pc \in Locked => Asked(c).kind \in {"prove", "preflight"}
  /\ Plans(c) =>
       /\ call[c].pc = "idle" => Arrived(call[c].bundle, 0)
       /\ call[c].pc = "fetch" => \E n \in 0 .. 9 : Arrived(call[c].bundle, n)
       /\ call[c].pc \notin {"idle", "fetch", "failing", "ok", "failed"} =>
            Arrived(call[c].bundle, 10)

SessionFiles == Prepared /\ session.key.planned => Arrived(session.bundle, 10)

FilesInv == (\A c \in Calls : CallFiles(c)) /\ SessionFiles

\* A step of call c, by what it leaves to be shown.
LEMMA OneCallFiles ==
  ASSUME FilesInv, NEW c \in Calls, options' = options,
         \A d \in Calls : d # c => call'[d] = call[d], CallFiles(c)', SessionFiles'
  PROVE  FilesInv'
<1>1. \A d \in Calls : d # c => CallFiles(d)'
  BY DEF FilesInv, CallFiles, Plans, Asked, Key
<1> QED BY <1>1 DEF FilesInv

\* A session that keeps its files, or is given up.
LEMMA SessionKeepsFiles ==
  ASSUME SessionFiles,
         \/ session'.engine = None
         \/ /\ session'.engine = session.engine
            /\ session'.key = session.key /\ session'.bundle = session.bundle
  PROVE  SessionFiles'
  BY DEF SessionFiles, Prepared

\* A call that has all its files goes on with them.
LEMMA CallKeepsFiles ==
  ASSUME NEW c \in Calls, CallFiles(c), options' = options,
         call[c].pc \notin {"idle", "fetch", "failing", "ok", "failed"},
         call'[c].bundle = call[c].bundle, call'[c].pc \notin {"idle", "fetch"},
         call'[c].pc \in Locked => call[c].pc \in Locked
  PROVE  CallFiles(c)'
  BY DEF CallFiles, Plans, Asked, Key

\* A call that fails or ends needs no files.
LEMMA EndedFiles ==
  ASSUME NEW c \in Calls, call'[c].pc \in {"failing", "ok", "failed"}
  PROVE  CallFiles(c)'
  BY DEF CallFiles, Locked

\* The steps of a call between its files and its end.
LEMMA OnwardKeepsFiles ==
  ASSUME ProverInv, FilesInv, NEW c \in Calls, options' = options,
         \/ Search(c) \/ Cache(c) \/ FindPath(c) \/ Find(c) \/ Select(c) \/ BeginSection(c)
         \/ EndSection(c) \/ WithFallbackReload(c) \/ ProveOnCPU(c) \/ Proved(c)
         \/ Verify(c) \/ Fail(c) \/ EndProbe(c)
  PROVE  FilesInv'
<1>1. CallShaped /\ SessionShaped /\ CallFiles(c) /\ SessionFiles
  BY DEF ProverInv, FilesInv
<1>2. ASSUME NEW pc, NEW ccs, NEW engine, NEW own, NEW path, NEW step,
             Turns(c, pc, call[c].bundle, ccs, engine, own, path, step),
             call[c].pc \notin {"idle", "fetch", "failing", "ok", "failed"},
             pc \notin {"idle", "fetch"}, pc \in Locked => call[c].pc \in Locked,
             SessionFiles'
      PROVE  FilesInv'
  BY <1>1, <1>2, CallKeepsFiles, OneCallFiles DEF Turns
<1>3. ASSUME NEW outcome \in {"ok", "failed"}, Ends(c, outcome), session' = session
      PROVE  FilesInv'
  <2>1. Turns(c, outcome, <<>>, None, None, FALSE, None, 1)
    BY <1>1, <1>3, TurnsEnd
  <2>2. CallFiles(c)' /\ SessionFiles'
    BY <1>1, <1>3, <2>1, EndedFiles, SessionKeepsFiles DEF Turns
  <2> QED BY <2>1, <2>2, OneCallFiles DEF Turns
<1>4. ASSUME NEW pc, Goto(c, pc), session' = session,
             call[c].pc \notin {"idle", "fetch", "failing", "ok", "failed"},
             pc \notin {"idle", "fetch"}, pc \in Locked => call[c].pc \in Locked
      PROVE  FilesInv'
  BY <1>1, <1>2, <1>4, TurnsGoto, SessionKeepsFiles
<1>5. ASSUME session' = session PROVE SessionFiles'
  BY <1>1, <1>5, SessionKeepsFiles
<1>6. CASE Search(c)
  BY <1>4, <1>6 DEF Search, Locked
<1>7. CASE Cache(c) \/ EndProbe(c)
  BY <1>3, <1>7 DEF Cache, EndProbe
<1>8. CASE FindPath(c)
  <2>1. call[c].pc = "path" /\ session' = session
    BY <1>8 DEF FindPath
  <2>2. ASSUME NEW x, call' = [call EXCEPT ![c].pc = "select", ![c].path = x] PROVE FilesInv'
    <3>1. Turns(c, "select", call[c].bundle, call[c].ccs, call[c].engine, call[c].own, x,
                call[c].step)
      BY <1>1, <2>2, TurnsPath
    <3> QED BY <1>2, <1>5, <2>1, <3>1 DEF Locked
  <2>3. CASE ExplicitPath(c)
    BY <1>4, <2>1, <2>2, <2>3, Zenon DEF ExplicitPath, Locked
  <2>4. CASE cachedDiscoveryPath(c)
    BY <2>2, <2>4 DEF cachedDiscoveryPath
  <2>5. CASE SearchPath(c)
    BY <1>4, <2>1, <2>5 DEF SearchPath, Locked
  <2> QED BY <1>8, <2>3, <2>4, <2>5 DEF FindPath
<1>9. CASE Find(c)
  <2>1. call[c].pc = "find" /\ session' = session
    BY <1>9 DEF Find
  <2>2. ASSUME NEW x, call' = [call EXCEPT ![c].pc = "select", ![c].path = x] PROVE FilesInv'
    <3>1. Turns(c, "select", call[c].bundle, call[c].ccs, call[c].engine, call[c].own, x,
                call[c].step)
      BY <1>1, <2>2, TurnsPath
    <3> QED BY <1>2, <1>5, <2>1, <3>1 DEF Locked
  <2>3. CASE Goto(c, "failing")
    BY <1>4, <2>1, <2>3 DEF Locked
  <2> QED BY <1>9, <2>2, <2>3 DEF Find
<1>10. CASE Select(c)
  <2>1. call[c].pc = "select"
    BY <1>10 DEF Select
  <2>2. SessionFiles'
    <3>1. session'.engine = session.engine /\ session'.key = session.key /\ session'.bundle = session.bundle
      BY <1>1, <1>10 DEF Select, SessionShaped, SessionFields
    <3> QED BY <1>1, <3>1, SessionKeepsFiles
  <2> DEFINE pc == IF IsSharded(Key(c)) THEN "multiply" ELSE "cpu"
             engine == IF call[c].own THEN c ELSE call[c].engine
  <2>3. Turns(c, pc, call[c].bundle, call[c].ccs, engine, call[c].own, call[c].path, call[c].step)
    BY <1>1, <1>10, TurnsEngine DEF Select
  <2>4. pc \in {"multiply", "cpu"}
    OBVIOUS
  <2> HIDE DEF pc, engine
  <2> QED BY <1>2, <2>1, <2>2, <2>3, <2>4 DEF Locked
<1>11. CASE BeginSection(c)
  BY <1>4, <1>11 DEF BeginSection, Locked
<1>12. CASE EndSection(c)
  <2>1. call[c].pc = "section"
    BY <1>12 DEF EndSection
  <2>2. SessionFiles'
    <3>1. session'.engine = session.engine /\ session'.key = session.key /\ session'.bundle = session.bundle
      BY <1>1, <1>12 DEF EndSection, SessionShaped, SessionFields
    <3> QED BY <1>1, <3>1, SessionKeepsFiles
  <2>3. CASE call' = [call EXCEPT ![c].cause = section.firstErr, ![c].pc = "demote"]
    <3>1. Turns(c, "demote", call[c].bundle, call[c].ccs, call[c].engine, call[c].own,
                call[c].path, call[c].step)
      BY <1>1, <2>3, TurnsDemoted
    <3> QED BY <1>2, <2>1, <2>2, <3>1 DEF Locked
  <2> DEFINE ccs == IF call[c].step = FirstHSection THEN Release(Key(c), call[c].ccs) ELSE call[c].ccs
  <2>4. ASSUME NEW x, NEW y,
               call' = [call EXCEPT ![c].pc = "multiply", ![c].step = @ + 1, ![c].exact = x,
                                    ![c].ranged = y, ![c].ccs = ccs]
        PROVE  FilesInv'
    <3>1. Turns(c, "multiply", call[c].bundle, ccs, call[c].engine, call[c].own, call[c].path,
                call[c].step + 1)
      BY <1>1, <2>4, TurnsSection
    <3> QED BY <1>2, <2>1, <2>2, <3>1 DEF Locked
  <2> QED BY <1>12, <2>3, <2>4 DEF EndSection
<1>13. CASE WithFallbackReload(c)
  <2>1. call[c].pc = "demote" /\ session' = session
    BY <1>13 DEF WithFallbackReload
  <2>2. CASE call' = [call EXCEPT ![c].pc = "cpu", ![c].step = 1]
    <3>1. Turns(c, "cpu", call[c].bundle, call[c].ccs, call[c].engine, call[c].own, call[c].path, 1)
      BY <1>1, <2>2, TurnsCPU
    <3> QED BY <1>2, <1>5, <2>1, <3>1 DEF Locked
  <2>3. ASSUME NEW x, call' = [call EXCEPT ![c].pc = "cpu", ![c].step = 1, ![c].ccs = System(x)]
        PROVE  FilesInv'
    <3>1. Turns(c, "cpu", call[c].bundle, System(x), call[c].engine, call[c].own, call[c].path, 1)
      BY <1>1, <2>3, TurnsReload
    <3> QED BY <1>2, <1>5, <2>1, <3>1 DEF Locked
  <2>4. CASE Goto(c, "failing")
    BY <1>4, <2>1, <2>4 DEF Locked
  <2> QED BY <1>13, <2>2, <2>3, <2>4 DEF WithFallbackReload
<1>14. CASE ProveOnCPU(c)
  <2>1. call[c].pc = "cpu" /\ session' = session
    BY <1>14 DEF ProveOnCPU
  <2>2. ASSUME NEW x, NEW y,
               call' = [call EXCEPT ![c].pc = "verify", ![c].ranged = TRUE, ![c].exact = x, ![c].ccs = y]
        PROVE  FilesInv'
    <3>1. Turns(c, "verify", call[c].bundle, y, call[c].engine, call[c].own, call[c].path,
                call[c].step)
      BY <1>1, <2>2, TurnsOnCPU
    <3> QED BY <1>2, <1>5, <2>1, <3>1 DEF Locked
  <2>3. CASE Goto(c, "failing")
    BY <1>4, <2>1, <2>3 DEF Locked
  <2> QED BY <1>14, <2>2, <2>3 DEF ProveOnCPU
<1>15. CASE Proved(c)
  BY <1>4, <1>15 DEF Proved, Locked
<1>16. CASE Verify(c) \/ Fail(c)
  BY <1>3, <1>16 DEF Verify, Fail
<1> QED
  BY <1>6, <1>7, <1>8, <1>9, <1>10, <1>11, <1>12, <1>13, <1>14, <1>15, <1>16

\* A call begins: without files, or with the session's.
LEMMA BeginKeepsFiles ==
  ASSUME ProverInv, FilesInv, NEW c \in Calls, options' = options, Begin(c)
  PROVE  FilesInv'
<1>1. /\ CallShaped /\ SessionShaped /\ CallFiles(c) /\ SessionFiles /\ call[c].pc = "idle"
  BY DEF ProverInv, FilesInv, Begin
<1>2. ASSUME NEW b, NEW ccs, NEW engine, NEW own, NEW path, NEW step, b = call[c].bundle,
             Turns(c, "fetch", b, ccs, engine, own, path, step), session' = NoSession,
             Asked(c).kind \in {"prove", "preflight"}
      PROVE  FilesInv'
  <2>1. SessionFiles'
    BY <1>1, <1>2, SessionKeepsFiles DEF NoSession
  <2>2. CallFiles(c)'
    <3>1. Plans(c) => Arrived(b, 0)
      BY <1>1, <1>2 DEF CallFiles
    <3> QED BY <1>2, <3>1 DEF CallFiles, Turns, Plans, Asked, Key
  <2> QED BY <1>2, <2>1, <2>2, OneCallFiles DEF Turns
<1>3. ASSUME NEW pc, Goto(c, pc), session' = session,
             pc = "failing" \/ (pc \in {"search", "probed"} /\ Asked(c).kind \in {"discover", "probe"})
      PROVE  FilesInv'
  <2>1. Turns(c, pc, call[c].bundle, call[c].ccs, call[c].engine, call[c].own, call[c].path,
              call[c].step)
    BY <1>1, <1>3, TurnsGoto
  <2>2. CallFiles(c)'
    BY <1>3, <2>1 DEF CallFiles, Turns, Plans, Asked, Locked
  <2>3. SessionFiles'
    BY <1>1, <1>3, SessionKeepsFiles
  <2> QED BY <2>1, <2>2, <2>3, OneCallFiles DEF Turns
<1>4. CASE BeginPreflight(c)
  <2>1. Turns(c, "fetch", call[c].bundle, call[c].ccs, call[c].engine, call[c].own, call[c].path,
              call[c].step)
    BY <1>1, <1>4, TurnsGoto DEF BeginPreflight
  <2> QED BY <1>2, <1>4, <2>1 DEF BeginPreflight
<1>5. CASE BeginProve(c)
  <2>1. Asked(c).kind = "prove"
    BY <1>5 DEF BeginProve
  <2>2. CASE Goto(c, "failing") /\ session' = session
    BY <1>3, <2>2
  <2>3. CASE /\ Prepared /\ session.key = Key(c) /\ session' = session
             /\ call' = [call EXCEPT ![c].pc = "ccs", ![c].bundle = session.bundle,
                                     ![c].engine = session.engine]
    <3>1. Turns(c, "ccs", session.bundle, call[c].ccs, session.engine, call[c].own, call[c].path,
                call[c].step)
      BY <1>1, <2>3, TurnsShare
    <3>2. SessionFiles'
      BY <1>1, <2>3, SessionKeepsFiles
    <3>3. Key(c).planned => Arrived(session.bundle, 10)
      BY <1>1, <2>3 DEF SessionFiles
    <3>4. CallFiles(c)'
      BY <2>1, <3>1, <3>3 DEF CallFiles, Turns, Plans, Asked, Key
    <3> QED BY <3>1, <3>2, <3>4, OneCallFiles DEF Turns
  <2>4. CASE /\ session' = NoSession
             /\ call' = [call EXCEPT ![c].pc = "fetch", ![c].own = TRUE]
    <3>1. Turns(c, "fetch", call[c].bundle, call[c].ccs, call[c].engine, TRUE, call[c].path,
                call[c].step)
      BY <1>1, <2>4, TurnsOwn
    <3> QED BY <1>2, <2>1, <2>4, <3>1
  <2> QED BY <1>5, <2>2, <2>3, <2>4 DEF BeginProve
<1>6. CASE BeginOther(c)
  BY <1>3, <1>6 DEF BeginOther
<1> QED BY <1>4, <1>5, <1>6 DEF Begin

\* A file arrives and is checked.
LEMMA FetchKeepsFiles ==
  ASSUME ProverInv, FilesInv, NEW c \in Calls, options' = options, Fetch(c)
  PROVE  FilesInv'
<1> DEFINE b == call[c].bundle
           k == Cardinality(DOMAIN b) + 1
           files == Fetches(Key(c).planned)
           pc == IF k = Len(files) THEN "ccs" ELSE "fetch"
           Longer(raw) == [f \in DOMAIN b \cup {files[k]} |-> IF f = files[k] THEN raw ELSE b[f]]
<1>1. /\ CallShaped /\ CallFiles(c) /\ SessionFiles /\ call[c].pc = "fetch" /\ session' = session
  BY DEF ProverInv, FilesInv, Fetch
<1>2. SessionFiles' /\ Asked(c).kind \in {"prove", "preflight"}
  BY <1>1, SessionKeepsFiles DEF CallFiles, Locked
<1>3. CASE Goto(c, "failing")
  <2>1. Turns(c, "failing", call[c].bundle, call[c].ccs, call[c].engine, call[c].own,
              call[c].path, call[c].step)
    BY <1>1, <1>3, TurnsGoto
  <2> QED BY <1>2, <2>1, EndedFiles, OneCallFiles DEF Turns
<1>4. ASSUME NEW r \in Releases, Checked(b, files[k], Content[r][files[k]]),
             call' = [call EXCEPT ![c].pc = pc, ![c].bundle = Longer(Content[r][files[k]])]
      PROVE  FilesInv'
  <2> DEFINE x == Longer(Content[r][files[k]])
  <2> HIDE DEF x, pc
  <2>1. Turns(c, pc, x, call[c].ccs, call[c].engine, call[c].own, call[c].path, call[c].step)
    BY <1>1, <1>4, TurnsFile DEF x
  <2>2. ASSUME Key(c).planned PROVE k \in 1 .. 10 /\ Arrived(x, k) /\ Len(files) = 10
    <3>1. PICK n \in 0 .. 9 : Arrived(b, n)
      BY <1>1, <1>2, <2>2 DEF CallFiles, Plans
    <3>2. k = n + 1 /\ files = Fetches(TRUE)
      BY <2>2, <3>1 DEF Arrived, Fetches
    <3>3. Checked(b, File(n + 1), Content[r][File(n + 1)])
      BY <1>4, <3>2 DEF File
    <3>4. Content[r][File(n + 1)] \in Served(File(n + 1))
      BY DEF Served
    <3>5. x = [f \in DOMAIN b \cup {File(n + 1)} |->
                 IF f = File(n + 1) THEN Content[r][File(n + 1)] ELSE b[f]]
      BY <3>2 DEF x, File
    <3> HIDE DEF b, k, files
    <3>6. Arrived(x, n + 1)
      BY <3>1, <3>3, <3>4, <3>5, NextArrives
    <3>7. n + 1 \in 1 .. 10
      BY <3>1
    <3> QED BY <3>2, <3>6, <3>7, FileNames
  <2>3. pc \in {"ccs", "fetch"} /\ (Key(c).planned => (pc = "ccs" <=> k = 10))
    BY <2>2 DEF pc
  <2> HIDE DEF k, b, files
  <2>4. CallFiles(c)'
    <3>1. call'[c].pc = pc /\ call'[c].bundle = x
      BY <2>1 DEF Turns
    <3>2. Asked(c)' = Asked(c) /\ Plans(c)' = Plans(c)
      BY DEF Asked, Plans, Key
    <3>3. CASE ~Key(c).planned
      BY <1>2, <3>2, <3>3 DEF CallFiles, Plans
    <3>4. CASE Key(c).planned /\ k = 10
      BY <1>2, <2>2, <2>3, <3>1, <3>2, <3>4 DEF CallFiles
    <3>5. CASE Key(c).planned /\ k # 10
      <4>1. k \in 0 .. 9 /\ pc = "fetch" /\ Arrived(x, k)
        BY <2>2, <2>3, <3>5
      <4> QED BY <1>2, <3>1, <3>2, <4>1 DEF CallFiles
    <3> QED BY <3>3, <3>4, <3>5
  <2> QED BY <1>2, <2>1, <2>4, OneCallFiles DEF Turns
<1> QED BY <1>3, <1>4 DEF Fetch

\* The files become the session's.
LEMMA OpenCCSKeepsFiles ==
  ASSUME ProverInv, FilesInv, NEW c \in Calls, options' = options, OpenCCS(c)
  PROVE  FilesInv'
<1>1. /\ CallShaped /\ CallFiles(c) /\ SessionFiles /\ call[c].pc = "ccs"
  BY DEF ProverInv, FilesInv, OpenCCS
<1>2. ASSUME NEW x, call' = [call EXCEPT ![c].pc = "path", ![c].ccs = x], session' = session
      PROVE  FilesInv'
  <2>1. Turns(c, "path", call[c].bundle, x, call[c].engine, call[c].own, call[c].path, call[c].step)
    BY <1>1, <1>2, TurnsCCS
  <2>2. CallFiles(c)' /\ SessionFiles'
    BY <1>1, <1>2, <2>1, CallKeepsFiles, SessionKeepsFiles DEF Turns, Locked
  <2> QED BY <2>1, <2>2, OneCallFiles DEF Turns
<1>3. CASE Goto(c, "failing") /\ session' = session
  <2>1. Turns(c, "failing", call[c].bundle, call[c].ccs, call[c].engine, call[c].own,
              call[c].path, call[c].step)
    BY <1>1, <1>3, TurnsGoto
  <2>2. CallFiles(c)' /\ SessionFiles'
    BY <1>1, <1>3, <2>1, EndedFiles, SessionKeepsFiles DEF Turns
  <2> QED BY <2>1, <2>2, OneCallFiles DEF Turns
<1>4. ASSUME NEW x, Ends(c, "ok"),
             session' = [key |-> Key(c), bundle |-> call[c].bundle, ccs |-> x, engine |-> c]
      PROVE  FilesInv'
  <2>1. Turns(c, "ok", <<>>, None, None, FALSE, None, 1)
    BY <1>1, <1>4, TurnsEnd
  <2>2. CallFiles(c)'
    BY <2>1, EndedFiles DEF Turns
  <2>3. Key(c).planned => Arrived(call[c].bundle, 10)
    BY <1>1 DEF CallFiles, Plans, Locked
  <2>4. session'.key = Key(c) /\ session'.bundle = call[c].bundle
    BY <1>4
  <2>5. SessionFiles'
    BY <2>3, <2>4 DEF SessionFiles
  <2> QED BY <2>1, <2>2, <2>5, OneCallFiles DEF Turns
<1> QED BY <1>2, <1>3, <1>4, Zenon DEF OpenCCS

\* A fresh instance has no files.
LEMMA BlankFiles == Blank => FilesInv
<1> SUFFICES ASSUME Blank PROVE FilesInv
  OBVIOUS
<1>1. Arrived(<<>>, 0)
  <2>1. 1 .. 0 = {} /\ DOMAIN <<>> = {}
    OBVIOUS
  <2> QED BY <2>1, FS_EmptySet DEF Arrived
<1>2. ~Prepared
  BY DEF Blank, Prepared, NoSession
<1>3. \A c \in Calls : call[c].pc = "idle" /\ call[c].bundle = <<>>
  BY DEF Blank, NewCall
<1> QED BY <1>1, <1>2, <1>3 DEF FilesInv, CallFiles, SessionFiles, Locked

\* No step mixes files up.
LEMMA NextKeepsFiles ==
  ASSUME ProverInv, FilesInv, [Next]_vars
  PROVE  FilesInv'
<1>1. ASSUME UNCHANGED <<options, callVars>> PROVE FilesInv'
  BY <1>1 DEF callVars, FilesInv, CallFiles, SessionFiles, Plans, Asked, Key, Prepared
<1>2. ASSUME NEW c \in Calls, CallStep(c) PROVE FilesInv'
  <2>1. options' = options
    BY <1>2 DEF CallStep
  <2> QED BY <1>2, <2>1, BeginKeepsFiles, FetchKeepsFiles, OpenCCSKeepsFiles, OnwardKeepsFiles DEF CallStep
<1>3. ASSUME NEW c \in Calls, TransformStep(c) PROVE FilesInv'
  BY <1>1, <1>3 DEF TransformStep
<1>4. CASE SectionStep \/ WorkerStep
  BY <1>1, <1>4 DEF SectionStep, WorkerStep
<1>5. CASE Terminate
  <2>1. Blank'
    BY <1>5 DEF Terminate, Blank
  <2> QED BY <2>1, BlankFiles, PTL
<1>6. CASE UNCHANGED vars
  BY <1>1, <1>6 DEF vars
<1> QED BY <1>2, <1>3, <1>4, <1>5, <1>6 DEF Next

\* Files of several releases never pass the checks together, and those that pass have a
\* chunk table that gives every byte that a section needs (openChunkManifestPreflight).
THEOREM BundlesAreCoherent == Spec => []CoherentBundle
<1>1. Init => FilesInv
  BY BlankFiles DEF Init, Blank
<1>2. Spec => []FilesInv
  BY <1>1, NextKeepsFiles, ProverIsConsistent, PTL DEF Spec
<1>3. FilesInv => CoherentBundle
  <2> SUFFICES ASSUME FilesInv, NEW b \in Bundles
               PROVE  \E r \in Releases : /\ \A f \in DOMAIN b : b[f] = Content[r][f]
                                          /\ ChunksCover[r]
    BY DEF CoherentBundle
  <2>1. Arrived(b, 10)
    BY DEF Bundles, FilesInv, CallFiles, SessionFiles, Plans
  <2> QED BY <2>1, ArrivedCoheres
<1> QED BY <1>2, <1>3, PTL

\* The constraint system the chunk manifest pins is that of the verifying key.
LEMMA PinnedSystem ==
  ASSUME NEW b, Arrived(b, 10)
  PROVE  b["chunk manifest"].assets.ccs = b["vk"]
<1>1. PICK r \in Releases : \A f \in DOMAIN b : b[f] = Content[r][f]
  BY ArrivedCoheres
<1>2. "chunk manifest" \in DOMAIN b /\ "vk" \in DOMAIN b
  <2>1. DOMAIN b = {File(i) : i \in 1 .. 10} /\ 3 \in 1 .. 10 /\ 5 \in 1 .. 10
    BY DEF Arrived
  <2> QED BY <2>1, FileNames
<1>3. b["chunk manifest"] = GenerateChunkManifest(r) /\ b["vk"] = r.key
  BY <1>1, <1>2, FilesOfRelease
<1>4. GenerateChunkManifest(r).assets.ccs = r.key
  BY DEF GenerateChunkManifest
<1> QED BY <1>3, <1>4

\* Solve runs with a path of the master key that was asked for, and on a constraint system
\* that nothing has released: the verifying key's with a chunk manifest, whatever the request
\* names, and without one the system of the digest that this very request decides on, never
\* that of another request (openConstraintSystem, preparedSessionKey).
THEOREM ProofInputsAreRight == Spec => []ProofInputsRight
<1>1. ASSUME ProverInv, FilesInv, NEW c \in Calls,
             \/ call[c].pc = "cpu"
             \/ call[c].pc \in {"multiply", "section"} /\ call[c].step <= FirstHSection
      PROVE  /\ call[c].ccs # None
             /\ ~call[c].ccs.released
             /\ call[c].ccs.content = OwnSystem(Key(c), call[c].bundle)
             /\ Asked(c).target \in DOMAIN Owned[Asked(c).master]
             /\ call[c].path = Owned[Asked(c).master][Asked(c).target]
  <2>1. /\ Fresh(call[c].ccs, Key(c), call[c].bundle)
        /\ Asked(c).target \in DOMAIN Owned[Asked(c).master]
        /\ call[c].path = Owned[Asked(c).master][Asked(c).target]
    BY <1>1 DEF ProverInv, InputsRight
  <2>2. CASE Key(c).planned
    <3>1. Arrived(call[c].bundle, 10)
      BY <1>1, <2>2 DEF FilesInv, CallFiles, Plans, Locked
    <3>2. call[c].ccs.content = call[c].bundle["chunk manifest"].assets.ccs
      BY <2>1, <2>2 DEF Fresh, expectedHash
    <3>3. OwnSystem(Key(c), call[c].bundle) = call[c].bundle["vk"]
      BY <2>2 DEF OwnSystem
    <3> QED BY <2>1, <3>1, <3>2, <3>3, PinnedSystem DEF Fresh
  <2>3. CASE ~Key(c).planned
    <3>1. call[c].ccs.content = OwnSystem(Key(c), call[c].bundle)
      BY <2>1, <2>3 DEF Fresh, expectedHash, OwnSystem
    <3> QED BY <2>1, <3>1 DEF Fresh
  <2> QED BY <2>2, <2>3
<1>2. ProverInv /\ FilesInv => ProofInputsRight
  BY <1>1 DEF ProofInputsRight
<1>3. Init => FilesInv
  BY BlankFiles DEF Init, Blank
<1>4. Spec => []FilesInv
  BY <1>3, NextKeepsFiles, ProverIsConsistent, PTL DEF Spec
<1> QED BY <1>2, <1>4, ProverIsConsistent, PTL

----------------------------------------------------------------------------
\* The sums of a proof.

\* A call, or the engine of a call, that multiplies with section plans on workers.
Sharded(c) == Key(c).planned /\ ~Key(c).cpu

CleanWorkers == [w \in Slots |-> newWorker]

\* Where a call has got its engine from, and what it knows of its sums.
CallExact(c) ==
  /\ call[c].step # 0
  /\ call[c].engine # None => call[c].engine \in Calls /\ Key(call[c].engine) = Key(c)
  /\ \/ call[c].pc \in {"fetch", "ccs"} /\ Asked(c).kind = "prove"
     \/ call[c].pc \in {"path", "find", "select", "multiply", "section"}
     => call[c].own \/ call[c].engine # None
  /\ call[c].pc \in {"multiply", "section"} => call[c].engine # None /\ ~Key(c).cpu
  /\ Sharded(c) =>
       /\ call[c].exact
       /\ call[c].pc # "cpu"
       /\ call[c].pc = "demote" => call[c].cause = "closed"
       /\ call[c].pc = "section" /\ section # None =>
            section.planned /\ section.engine = call[c].engine

\* The session's engine is that of a preflight that is over.
SessionExact ==
  Prepared => /\ session.engine \in Calls /\ Key(session.engine) = session.key
              /\ call[session.engine].pc = "ok"

\* The engine of a call that multiplies, or has failed.
Busy(e) ==
  \E c \in Calls : call[c].pc \in {"section", "demote", "failing"} /\ call[c].engine = e

\* A failure leaves an engine to nobody: no call begins after it.
Abandoned(e) == (\E d \in Calls : Failed(d)) /\ \A c \in Calls : call[c].engine # e

Held(e) == session.engine = e \/ \E c \in Calls : call[c].engine = e

\* Between sections the workers of an engine have nothing to do and nothing to say.
EngineExact(e) ==
  Sharded(e) /\ Held(e) => workers[e] = CleanWorkers \/ Busy(e) \/ Abandoned(e)

\* What becomes of the request of shard i: it is with the worker, it is answered rightly
\* or with an error, or the worker has died.
Serving(i, worker) ==
  LET r == worker.reply IN
  \/ worker = [inbox |-> <<Request(i, None)>>, reply |-> None, dead |-> FALSE]
  \/ /\ worker = [inbox |-> <<>>, reply |-> r, dead |-> FALSE]
     /\ r.kind \in {"fetch", "fatal"} \/ (r.kind = "partial" /\ r.part = section.ranges[i])
  \/ /\ worker = [inbox |-> <<>>, reply |-> r, dead |-> TRUE]
     /\ r = None \/ r.kind = "lost"

Stage(i) == section.task[i].stage
Active(i) == Stage(i) \in {"post", "wait", "done"}

\* A section with an error.
Failing == section.firstErr # "none"
           \/ \E i \in Shards : Stage(i) = "done" /\ section.task[i].err # "none"

\* The slot that shard k waits for with OptW7.
HomeSlot(k) == workerForShard(k - 1, Len(section.ranges), options.workers)

\* A section without an error, on the workers ws: every slot has one shard at most, which
\* waits for its own worker, and every shard that is not launched is behind one that is.
ShardsRight(ws) ==
  /\ ws = [w \in Slots |-> ws[w]]
  /\ \A i \in Shards : Active(i) => Slot(i) \in Slots
  /\ \A i, k \in Shards : Active(i) /\ Active(k) /\ Slot(i) = Slot(k) => i = k
  /\ \A i \in Shards : Stage(i) = "wait" => Serving(i, ws[Slot(i)])
  /\ \A w \in Slots : (\A i \in Shards : ~(Stage(i) = "wait" /\ Slot(i) = w)) => ws[w] = newWorker
  /\ \A i \in Shards : Stage(i) \in {"done", "received"} =>
                         section.task[i].part = section.ranges[i]
  /\ \A k \in Shards : Stage(k) = "new" =>
       \E m \in Shards : Active(m) /\ (options.w7 => Slot(m) = HomeSlot(k))

\* Every shard is a run of positions of the section.
Runs(R, n) ==
  /\ Len(R) \in Nat /\ DOMAIN R = 1 .. Len(R)
  /\ \A i \in 1 .. Len(R) : \E lo, hi \in Nat : lo <= hi /\ hi < n /\ R[i] = lo .. hi

\* A section over files that have passed the checks, cut into runs.
SectionPinned ==
  /\ Arrived(section.bundle, 10)
  /\ section.name \in DOMAIN section.bundle["pk index"].sections
  /\ Runs(section.ranges, Sec.len \div Sec.elem)

TaskFields == {"stage", "slot", "attempt", "part", "err"}

SectionHolds ==
  section # None /\ section.planned =>
    /\ section.task = [i \in Shards |-> section.task[i]]
    /\ \A i \in Shards : /\ section.task[i] = [f \in TaskFields |-> section.task[i][f]]
                         /\ section.task[i].err \in {"none", "closed"}
    /\ section.firstErr \in {"none", "closed"}
    /\ SectionPinned
    /\ Failing \/ ShardsRight(workers[section.engine])

\* A vector has been through the phases before the one that is under way, and through
\* that one when it is done with it.
VectorHolds(c, v) ==
  /\ Vec(c, v) = [f \in {"stage", "applied", "worker", "id"} |-> Vec(c, v)[f]]
  /\ Vec(c, v).applied \in Nat
  /\ Vec(c, v).stage \in {"idle", "done"} => Vec(c, v).applied = h[c].phase
  /\ Vec(c, v).stage \in {"take", "wait", "local"} => Vec(c, v).applied + 1 = h[c].phase

TransformsExact ==
  /\ h = [c \in Calls |-> h[c]]
  /\ \A c \in Calls : Running(c) =>
       /\ h[c] = [f \in {"engine", "phase", "vec"} |-> h[c][f]]
       /\ h[c].phase \in Nat
       /\ h[c].vec = [v \in Vectors |-> Vec(c, v)]
       /\ \A v \in Vectors : VectorHolds(c, v)

ExactInv ==
  /\ options \in Scenarios
  /\ \A c \in Calls : CallExact(c)
  /\ SessionExact
  /\ \A e \in Calls : EngineExact(e)
  /\ SectionHolds
  /\ TransformsExact

----------------------------------------------------------------------------
\* How a section is cut into shards (ShardRanges).

\* A run of whole shards that is shorter ends no later.
LEMMA TimesMonotonic ==
  ASSUME NEW a \in Nat, NEW b \in Nat, NEW c \in Nat, a <= b
  PROVE  a * c \in Nat /\ b * c \in Nat /\ a * c <= b * c
<1>1. (b - a) * c \in Nat
  OBVIOUS
<1>2. b * c = a * c + (b - a) * c
  OBVIOUS
<1> QED
  BY <1>1, <1>2

\* Positions are numbered by how many come before them.
LEMMA Ranks ==
  ASSUME NEW K \in SUBSET Nat, IsFiniteSet(K)
  PROVE  /\ Cardinality(K) \in Nat
         /\ \A i \in K : Cardinality({j \in K : j < i}) + 1 \in 1 .. Cardinality(K)
         /\ \A i, k \in K : Cardinality({j \in K : j < i}) = Cardinality({j \in K : j < k}) => i = k
         /\ \A n \in 1 .. Cardinality(K) : \E i \in K : Cardinality({j \in K : j < i}) = n - 1
<1> DEFINE Before(i) == {j \in K : j < i}
           c == Cardinality(K)
           g == [i \in K |-> Cardinality(Before(i)) + 1]
<1>1. c \in Nat
  BY FS_CardinalityType
<1>2. \A i : IsFiniteSet(Before(i)) /\ Cardinality(Before(i)) \in Nat
  <2> TAKE i
  <2>1. IsFiniteSet(Before(i))
    BY FS_Subset
  <2> QED
    BY <2>1, FS_CardinalityType
<1>3. \A i \in K : Cardinality(Before(i)) < c
  <2> TAKE i \in K
  <2>1. Before(i) \subseteq K /\ Before(i) # K
    OBVIOUS
  <2>2. Cardinality(Before(i)) <= c /\ (c = Cardinality(Before(i)) => K = Before(i))
    BY <2>1, FS_Subset
  <2> QED
    BY <1>1, <1>2, <2>1, <2>2
<1>4. ASSUME NEW i \in K, NEW k \in K, i < k
      PROVE  Cardinality(Before(i)) < Cardinality(Before(k))
  <2>1. Before(i) \subseteq Before(k) /\ Before(i) # Before(k)
    <3>1. i \in Nat /\ k \in Nat /\ \A j \in K : j \in Nat
      OBVIOUS
    <3>2. \A j \in Before(i) : j \in Before(k)
      BY <1>4, <3>1
    <3>3. i \in Before(k) /\ i \notin Before(i)
      BY <1>4, <3>1
    <3> QED
      BY <3>2, <3>3
  <2>2. /\ Cardinality(Before(i)) <= Cardinality(Before(k))
        /\ Cardinality(Before(k)) = Cardinality(Before(i)) => Before(k) = Before(i)
    BY <1>2, <2>1, FS_Subset
  <2> QED
    BY <1>2, <2>1, <2>2
<1>5. \A i, k \in K : Cardinality(Before(i)) = Cardinality(Before(k)) => i = k
  <2> SUFFICES ASSUME NEW i \in K, NEW k \in K, i # k
               PROVE  Cardinality(Before(i)) # Cardinality(Before(k))
    OBVIOUS
  <2>1. i < k \/ k < i
    OBVIOUS
  <2> QED
    BY <1>2, <1>4, <2>1
<1>6. g \in Injection(K, 1 .. c)
  <2>1. \A i \in K : g[i] = Cardinality(Before(i)) + 1 /\ g[i] \in 1 .. c
    BY <1>1, <1>2, <1>3
  <2>2. g \in [K -> 1 .. c]
    BY <2>1
  <2>3. \A i, k \in K : g[i] = g[k] => i = k
    BY <1>2, <1>5, <2>1
  <2> HIDE DEF g, c
  <2> QED
    BY <2>2, <2>3 DEF Injection, IsInjective
<1>7. IsFiniteSet(1 .. c) /\ Cardinality(1 .. c) = c
  BY <1>1, FS_Interval
<1>8. g \in Surjection(K, 1 .. c)
  BY <1>6, <1>7, FS_Injection
<1>9. \A n \in 1 .. c : \E i \in K : g[i] = n
  BY <1>8 DEF Surjection
<1>10. \A n \in 1 .. c : \E i \in K : Cardinality(Before(i)) = n - 1
  <2> TAKE n \in 1 .. c
  <2>1. PICK i \in K : g[i] = n
    BY <1>9
  <2>2. Cardinality(Before(i)) + 1 = n /\ Cardinality(Before(i)) \in Nat
    BY <1>2, <2>1
  <2>3. Cardinality(Before(i)) = n - 1
    BY <1>1, <2>2
  <2> HIDE DEF Before
  <2> QED
    BY <2>3
<1>11. \A i \in K : Cardinality(Before(i)) + 1 \in 1 .. c
  BY <1>1, <1>2, <1>3
<1> QED
  BY <1>1, <1>5, <1>10, <1>11

\* nonEmptyRanges(partitionRanges(n, shards)) holds runs of positions of 0 .. n - 1.
LEMMA ShardsAreRuns ==
  ASSUME NEW n \in Nat, NEW shards \in Nat \ {0}
  PROVE  Runs(nonEmptyRanges(partitionRanges(n, shards)), n)
<1> DEFINE P == partitionRanges(n, shards)
           base == n \div shards
           end(s) == IF s = shards THEN n ELSE s * base
           K == {i \in DOMAIN P : P[i] # {}}
           c == Cardinality(K)
           Before(i) == {j \in K : j < i}
           p(k) == CHOOSE i \in K : Cardinality(Before(i)) = k - 1
           R == nonEmptyRanges(P)
<1>1. base \in Nat /\ shards * base <= n
  OBVIOUS
<1> HIDE DEF base
<1>2. DOMAIN P = 1 .. shards /\ \A s \in 1 .. shards : P[s] = ((s - 1) * base) .. (end(s) - 1)
  BY DEF partitionRanges, base
<1>3. \A s \in 1 .. shards : (s - 1) * base \in Nat /\ end(s) \in Nat /\ end(s) <= n
  <2> TAKE s \in 1 .. shards
  <2>1. s * base <= shards * base /\ s * base \in Nat
    BY <1>1, TimesMonotonic
  <2>2. (s - 1) * base \in Nat
    BY <1>1
  <2> QED BY <1>1, <2>1, <2>2
<1> HIDE DEF P, end
<1>4. ASSUME NEW s \in K PROVE \E lo, hi \in Nat : lo <= hi /\ hi < n /\ P[s] = lo .. hi
  <2> DEFINE lo == (s - 1) * base
             hi == end(s) - 1
  <2>1. s \in 1 .. shards /\ P[s] # {}
    BY <1>2
  <2>2. lo \in Nat /\ end(s) \in Nat /\ end(s) <= n /\ P[s] = lo .. hi
    BY <1>2, <1>3, <2>1
  <2> HIDE DEF lo
  <2>3. lo <= hi
    BY <2>1, <2>2
  <2>4. hi \in Nat /\ hi < n
    BY <2>2, <2>3
  <2> HIDE DEF hi
  <2> QED BY <2>2, <2>3, <2>4
<1>5. K \in SUBSET Nat /\ K \in SUBSET (1 .. shards) /\ IsFiniteSet(K)
  <2>1. DOMAIN P = 1 .. shards
    BY <1>2
  <2> QED BY <2>1, FS_Interval, FS_Subset
<1>6. c \in Nat /\ \A k \in 1 .. c : \E i \in K : Cardinality(Before(i)) = k - 1
  BY <1>5, Ranks
<1>7. R = [k \in 1 .. c |-> P[p(k)]]
  BY DEF nonEmptyRanges, AtPositions
<1> HIDE DEF K, c, R
<1>8. \A k \in 1 .. c : p(k) \in K
  <2> TAKE k \in 1 .. c
  <2>1. PICK i \in K : Cardinality(Before(i)) = k - 1
    BY <1>6
  <2> HIDE DEF Before
  <2> QED BY <2>1
<1> HIDE DEF p
<1>9. Len(R) = c /\ DOMAIN R = 1 .. c
  BY <1>6, <1>7
<1>10. \A k \in 1 .. c : R[k] = P[p(k)]
  BY <1>7
<1>11. \A k \in 1 .. c : \E lo, hi \in Nat : lo <= hi /\ hi < n /\ R[k] = lo .. hi
  <2> TAKE k \in 1 .. c
  <2>1. p(k) \in K /\ R[k] = P[p(k)]
    BY <1>8, <1>10
  <2> QED BY <1>4, <2>1
<1>12. Runs(R, n)
  BY <1>6, <1>9, <1>11 DEF Runs
<1> QED BY <1>12 DEF R, P

\* Every shard of a section has a worker slot.
LEMMA ShardHasWorker ==
  ASSUME NEW count \in Nat \ {0}, NEW slots \in Nat \ {0}, NEW shard \in 0 .. count - 1
  PROVE  workerForShard(shard, count, slots) \in 0 .. slots - 1
<1> DEFINE active == IF count < slots THEN count ELSE slots
           base == count \div active
           extra == count % active
           First(w) == w * base + (IF w < extra THEN w ELSE extra)
<1>1. active \in Nat \ {0} /\ active <= slots /\ active <= count
  OBVIOUS
<1> HIDE DEF active
<1>2. base \in Nat /\ extra \in Nat /\ extra < active /\ count = active * base + extra /\ base >= 1
  BY <1>1
<1> HIDE DEF base, extra
<1> SUFFICES \E w \in 0 .. active - 1 : shard \in First(w) .. First(w + 1) - 1
  <2>1. workerForShard(shard, count, slots) =
          CHOOSE w \in 0 .. active - 1 : shard \in First(w) .. First(w + 1) - 1
    BY DEF workerForShard, active, base, extra
  <2> HIDE DEF First
  <2>2. workerForShard(shard, count, slots) \in 0 .. active - 1
    BY <2>1
  <2> QED
    BY <1>1, <2>2
<1>3. CASE shard < extra * (base + 1)
  <2> DEFINE w == shard \div (base + 1)
  <2>1. w \in Nat /\ w * (base + 1) <= shard /\ shard < (w + 1) * (base + 1)
    BY <1>2
  <2> HIDE DEF w
  <2>2. w < extra
    <3>1. ASSUME extra <= w PROVE FALSE
      <4>1. extra * (base + 1) <= w * (base + 1)
        BY <1>2, <2>1, <3>1, TimesMonotonic
      <4> QED
        BY <1>2, <1>3, <2>1, <4>1
    <3> QED
      BY <1>2, <2>1, <3>1
  <2>3. First(w) = w * (base + 1) /\ First(w + 1) = (w + 1) * (base + 1)
    BY <1>2, <2>1, <2>2
  <2>4. w \in 0 .. active - 1 /\ w + 1 \in Nat
    BY <1>1, <1>2, <2>1, <2>2
  <2> HIDE DEF First
  <2>5. shard \in First(w) .. First(w + 1) - 1
    BY <1>2, <2>1, <2>3
  <2> QED
    BY <2>4, <2>5
<1>4. CASE ~(shard < extra * (base + 1))
  <2> DEFINE rest == shard - extra * (base + 1)
             q == rest \div base
             w == extra + q
  <2>1. rest \in Nat /\ shard = rest + extra * base + extra
    BY <1>2, <1>4
  <2> HIDE DEF rest
  <2>2. q \in Nat /\ q * base <= rest /\ rest < (q + 1) * base
    BY <1>2, <2>1
  <2> HIDE DEF q
  <2>3. First(w) = q * base + extra * base + extra
    BY <1>2, <2>2
  <2>4. First(w + 1) = (q + 1) * base + extra * base + extra
    BY <1>2, <2>2
  <2>5. w < active
    <3>1. ASSUME active - extra <= q PROVE FALSE
      <4>1. (active - extra) * base <= q * base
        BY <1>1, <1>2, <2>2, <3>1, TimesMonotonic
      <4>2. (active - extra) * base = active * base - extra * base
        BY <1>1, <1>2
      <4> QED
        BY <1>1, <1>2, <2>1, <2>2, <4>1, <4>2
    <3> QED
      BY <1>1, <1>2, <2>2, <3>1
  <2>6. w \in 0 .. active - 1
    BY <1>1, <1>2, <2>2, <2>5
  <2> HIDE DEF First, w
  <2>7. shard \in First(w) .. First(w + 1) - 1
    BY <1>2, <2>1, <2>2, <2>3, <2>4
  <2> QED
    BY <2>6, <2>7
<1> QED
  BY <1>3, <1>4

----------------------------------------------------------------------------
\* The points of a shard.

\* The bytes of a run of positions.
LEMMA RunOfBytes ==
  ASSUME NEW lo \in Nat, NEW hi \in Nat, lo <= hi, Sec.offset \in Nat, Sec.elem \in Nat
  PROVE  /\ Start(lo .. hi) = Sec.offset + lo * Sec.elem
         /\ End(lo .. hi) = Sec.offset + (hi + 1) * Sec.elem
<1> DEFINE least == CHOOSE q \in lo .. hi : \A k \in lo .. hi : q <= k
<1>1. least = lo
  <2>1. lo \in lo .. hi /\ \A k \in lo .. hi : lo <= k
    OBVIOUS
  <2>2. least \in lo .. hi /\ \A k \in lo .. hi : least <= k
    BY <2>1
  <2> HIDE DEF least
  <2> QED BY <2>1, <2>2
<1>2. Start(lo .. hi) = Sec.offset + lo * Sec.elem
  <2>1. Start(lo .. hi) = Sec.offset + least * Sec.elem
    BY DEF Start
  <2> HIDE DEF least
  <2> QED BY <1>1, <2>1
<1>3. Cardinality(lo .. hi) = hi - lo + 1
  BY FS_Interval
<1>4. End(lo .. hi) = (Sec.offset + lo * Sec.elem) + (hi - lo + 1) * Sec.elem
  BY <1>2, <1>3 DEF End
<1>5. ASSUME NEW offset \in Nat, NEW elem \in Nat
      PROVE  (offset + lo * elem) + (hi - lo + 1) * elem = offset + (hi + 1) * elem
  OBVIOUS
<1>6. (Sec.offset + lo * Sec.elem) + (hi - lo + 1) * Sec.elem = Sec.offset + (hi + 1) * Sec.elem
  BY <1>5
<1> QED BY <1>2, <1>4, <1>6

\* Positions lo .. hi of a section in a file of this size, and their bytes.
RunAt(sec, size, lo, hi, start, end) ==
  /\ sec.offset \in Nat /\ sec.len \in Nat /\ sec.elem \in Nat \ {0}
  /\ size \in Int /\ sec.offset + sec.len <= size
  /\ lo \in Nat /\ hi \in Nat /\ lo <= hi /\ hi < sec.len \div sec.elem
  /\ start = sec.offset + lo * sec.elem /\ end = sec.offset + (hi + 1) * sec.elem

\* The bytes of a run are bytes of the file.
LEMMA RunInFile ==
  ASSUME NEW sec, NEW size, NEW lo, NEW hi, NEW start, NEW end,
         RunAt(sec, size, lo, hi, start, end)
  PROVE  start \in Nat /\ end \in Int /\ end <= size
<1> DEFINE len == sec.len
           elem == sec.elem
<1>1. /\ len \in Nat /\ elem \in Nat \ {0} /\ hi \in Int /\ hi < len \div elem
      /\ sec.offset \in Nat /\ lo \in Nat /\ hi \in Nat /\ size \in Int /\ sec.offset + len <= size
      /\ start = sec.offset + lo * elem /\ end = sec.offset + (hi + 1) * elem
  BY DEF RunAt
<1> HIDE DEF len, elem
<1>2. (hi + 1) * elem <= len
  BY <1>1, PositionEnds
<1>3. lo * elem \in Nat /\ (hi + 1) * elem \in Nat
  BY <1>1
<1> QED BY <1>1, <1>2, <1>3

\* The points of a run of a section, read from the pinned chunks.
LEMMA PinnedRun ==
  ASSUME NEW r \in Releases, validateChunks(GenerateChunkManifest(r)),
         NEW sec, NEW lo, NEW hi, NEW start, NEW end, RunAt(sec, FileSize(r), lo, hi, start, end),
         NEW raw, Pieces(raw, r.key, GenerateChunkManifest(r).chunks, start, end)
  PROVE  RightPoints(fetchSectionPointBytes(GenerateChunkManifest(r).chunks, raw, start, end),
                     sec, lo .. hi, r.key) = lo .. hi
<1> DEFINE bytes == fetchSectionPointBytes(GenerateChunkManifest(r).chunks, raw, start, end)
<1>1. start \in Nat /\ end \in Int /\ end <= FileSize(r) /\ FileSize(r) \in Int
  BY RunInFile DEF RunAt
<1>2. ReadsAs(bytes, r.key, start, end)
  BY <1>1, PinnedBytes
<1> HIDE DEF bytes
<1>3. /\ sec.offset \in Nat /\ sec.elem \in Nat /\ lo \in Nat /\ hi \in Nat
      /\ start = sec.offset + lo * sec.elem /\ end = sec.offset + (hi + 1) * sec.elem
  BY DEF RunAt
<1>4. ReadsAs(bytes, r.key, sec.offset + lo * sec.elem, sec.offset + (hi + 1) * sec.elem)
  BY <1>2, <1>3
<1>5. RightPoints(bytes, sec, lo .. hi, r.key) = lo .. hi
  BY <1>3, <1>4, PointsOfBytes
<1> QED BY <1>5 DEF bytes

\* A worker that gets the pinned chunks of a shard adds up its points rightly.
PointsRight ==
  \A i \in Shards : \A m \in SectionPoints(Request(i, None)) :
    m[1] \in {"fetch", "fatal"} \/ (m[1] = "partial" /\ m[2] = section.ranges[i])

\* Its workers add up the right points.
LEMMA PinnedShards == SectionPinned => PointsRight
<1> SUFFICES ASSUME SectionPinned, NEW i \in Shards, NEW m \in SectionPoints(Request(i, None))
             PROVE  m[1] \in {"fetch", "fatal"} \/ (m[1] = "partial" /\ m[2] = section.ranges[i])
  BY DEF PointsRight
<1> DEFINE b == section.bundle
           range == section.ranges[i]
<1>1. PICK r \in Releases :
        /\ \A f \in DOMAIN b : b[f] = Content[r][f]
        /\ validateChunks(GenerateChunkManifest(r)) /\ ValidatePKIndex(BuildPKIndex(r))
  BY ArrivedCoheres DEF SectionPinned
<1>2. /\ b["chunk manifest"] = GenerateChunkManifest(r) /\ b["pk index"] = BuildPKIndex(r)
      /\ b["vk"] = r.key
  <2>1. DOMAIN b = {File(k) : k \in 1 .. 10}
    BY DEF SectionPinned, Arrived
  <2>2. 3 \in 1 .. 10 /\ 4 \in 1 .. 10 /\ 5 \in 1 .. 10
    OBVIOUS
  <2>3. "chunk manifest" \in DOMAIN b /\ "pk index" \in DOMAIN b /\ "vk" \in DOMAIN b
    BY <2>1, <2>2, FileNames
  <2> QED BY <1>1, <2>3, FilesOfRelease
<1> DEFINE pins == GenerateChunkManifest(r).chunks
           start == Start(range)
           end == End(range)
           need == Overlapping(pins, start, end)
<1>3. Sec = BuildPKIndex(r).sections[section.name] /\ section.name \in DOMAIN BuildPKIndex(r).sections
  BY <1>2 DEF Sec, SectionPinned
<1>4. /\ Sec.offset \in Nat /\ Sec.len \in Nat /\ Sec.elem \in Nat \ {0}
      /\ Sec.offset + Sec.len <= FileSize(r) /\ FileSize(r) \in Int
  BY <1>1, <1>3, SectionTyped
<1>5. PICK lo \in Nat, hi \in Nat : lo <= hi /\ hi < Sec.len \div Sec.elem /\ range = lo .. hi
  BY DEF SectionPinned, Runs, Shards
<1>6. RunAt(Sec, FileSize(r), lo, hi, start, end)
  <2>1. /\ Start(lo .. hi) = Sec.offset + lo * Sec.elem
        /\ End(lo .. hi) = Sec.offset + (hi + 1) * Sec.elem
    BY <1>4, <1>5, RunOfBytes
  <2> QED BY <1>4, <1>5, <2>1 DEF RunAt
<1> HIDE DEF range, start, end, need
<1>7. ASSUME NEW raw, \A k \in need : raw[k] = pins[k].digest
      PROVE  RightPoints(fetchSectionPointBytes(pins, raw, start, end), Sec, range, r.key) = range
  <2>1. Pieces(raw, r.key, pins, start, end)
    BY <1>1, <1>7, PinnedPieces DEF need
  <2> HIDE DEF pins
  <2> QED BY <1>1, <1>5, <1>6, <2>1, PinnedRun DEF pins
<1> DEFINE Served2(q) == Content[q]["chunk manifest"].chunks
           raw(q) == [k \in need |-> Served2(q)[k].digest]
           Points(q) ==
             IF ~\A k \in need : k \in DOMAIN Served2(q) THEN <<"fetch", {}>>
             ELSE IF ~\A k \in need : fetchVerifiedChunk(Served2(q)[k].digest, pins[k])
             THEN <<"fatal", {}>>
             ELSE <<"partial", RightPoints(fetchSectionPointBytes(pins, raw(q), start, end),
                                           Sec, range, r.key)>>
<1>8. SectionPoints(Request(i, None)) = {Points(q) : q \in Releases} \cup {<<"fetch", {}>>}
  <2>1. Request(i, None).shard = i
    BY DEF Request
  <2> QED BY <1>2, <2>1 DEF SectionPoints, range, start, end, need
<1>9. ASSUME NEW q \in Releases, m = Points(q)
      PROVE  m[1] \in {"fetch", "fatal"} \/ (m[1] = "partial" /\ m[2] = range)
  <2>1. CASE \A k \in need : fetchVerifiedChunk(Served2(q)[k].digest, pins[k])
    <3>1. \A k \in need : raw(q)[k] = pins[k].digest
      BY <2>1 DEF fetchVerifiedChunk
    <3> HIDE DEF raw, pins
    <3>2. RightPoints(fetchSectionPointBytes(pins, raw(q), start, end), Sec, range, r.key) = range
      BY <1>7, <3>1
    <3>3. Points(q) \in {<<"fetch", {}>>, <<"fatal", {}>>, <<"partial", range>>}
      BY <3>2
    <3> HIDE DEF Points
    <3> QED BY <1>9, <3>3
  <2>2. CASE ~\A k \in need : fetchVerifiedChunk(Served2(q)[k].digest, pins[k])
    <3>1. Points(q) \in {<<"fetch", {}>>, <<"fatal", {}>>}
      BY <2>2
    <3> HIDE DEF Points
    <3> QED BY <1>9, <3>1
  <2> QED BY <2>1, <2>2
<1> HIDE DEF Points
<1>10. m = <<"fetch", {}>> \/ \E q \in Releases : m = Points(q)
  BY <1>8
<1> QED BY <1>9, <1>10 DEF range

----------------------------------------------------------------------------
\* The shards of a section.

\* Of a section only the task of shard i changes, to t.
TaskBecomes(i, t) ==
  /\ section'.engine = section.engine /\ section'.name = section.name
  /\ section'.planned = section.planned /\ section'.bundle = section.bundle
  /\ section'.ranges = section.ranges /\ section'.firstErr = section.firstErr
  /\ section'.task = [k \in Shards |-> IF k = i THEN t ELSE section.task[k]]

\* A section that is multiplied with a plan.
Planned == SectionShaped /\ SectionHolds /\ section # None /\ section.planned

\* An assignment to one task.
LEMMA TaskSet ==
  ASSUME Planned, NEW i \in Shards, NEW t, section' = [section EXCEPT !.task[i] = t]
  PROVE  TaskBecomes(i, t)
<1>1. section = [f \in SectionFields |-> section[f]] /\ section.task = [k \in Shards |-> section.task[k]]
  BY DEF Planned, SectionShaped, SectionHolds
<1>2. section'.task = [section.task EXCEPT ![i] = t]
  BY <1>1 DEF SectionFields
<1>3. section'.task = [k \in Shards |-> IF k = i THEN t ELSE section.task[k]]
  BY <1>1, <1>2
<1> QED BY <1>1, <1>3 DEF TaskBecomes, SectionFields

\* What depends on how the section is cut alone.
LEMMA SameShards ==
  ASSUME section'.ranges = section.ranges, options' = options
  PROVE  /\ Shards' = Shards /\ Slots' = Slots
         /\ \A k : HomeSlot(k)' = HomeSlot(k)
         /\ \A k, w : Serving(k, w)' <=> Serving(k, w)
  BY DEF Shards, Slots, HomeSlot, Serving, Request

\* The shards after one of them has changed.
LEMMA ShardsAfter ==
  ASSUME NEW i, NEW t, TaskBecomes(i, t)
  PROVE  \A k \in Shards :
           /\ section'.task[k] = IF k = i THEN t ELSE section.task[k]
           /\ Stage(k)' = IF k = i THEN t.stage ELSE Stage(k)
           /\ Slot(k)' = IF k = i THEN t.slot ELSE Slot(k)
           /\ Active(k)' <=> IF k = i THEN t.stage \in {"post", "wait", "done"} ELSE Active(k)
<1>1. \A k \in Shards : section'.task[k] = IF k = i THEN t ELSE section.task[k]
  BY DEF TaskBecomes
<1> QED BY <1>1 DEF Stage, Slot, Active

\* A shard moves on with the worker of its slot.
LEMMA OneShard ==
  ASSUME NEW ws, ShardsRight(ws), options' = options, NEW i \in Shards, Active(i),
         NEW t, TaskBecomes(i, t), t.slot = Slot(i), t.stage \in {"post", "wait", "done"},
         NEW worker, t.stage = "wait" => Serving(i, worker), t.stage # "wait" => worker = newWorker,
         t.stage = "done" => t.part = section.ranges[i],
         NEW xs, xs = [w \in Slots |-> IF w = Slot(i) THEN worker ELSE ws[w]]
  PROVE  ShardsRight(xs)'
<1>1. section'.ranges = section.ranges
  BY DEF TaskBecomes
<1>2. /\ Shards' = Shards /\ Slots' = Slots
      /\ \A k : HomeSlot(k)' = HomeSlot(k)
      /\ \A k, w : Serving(k, w)' <=> Serving(k, w)
  BY <1>1, SameShards
<1>3. \A k \in Shards :
        /\ section'.task[k] = IF k = i THEN t ELSE section.task[k]
        /\ Stage(k)' = IF k = i THEN t.stage ELSE Stage(k)
        /\ Slot(k)' = Slot(k)
        /\ Active(k)' <=> Active(k)
  BY ShardsAfter
<1>4. Slot(i) \in Slots /\ \A k \in Shards : Active(k) /\ Slot(k) = Slot(i) => k = i
  BY DEF ShardsRight
<1>5. xs = [w \in Slots' |-> xs[w]]
  BY <1>2
<1>6. \A k \in Shards' : Active(k)' => Slot(k)' \in Slots'
  BY <1>2, <1>3 DEF ShardsRight
<1>7. \A k, m \in Shards' : Active(k)' /\ Active(m)' /\ Slot(k)' = Slot(m)' => k = m
  BY <1>2, <1>3 DEF ShardsRight
<1>8. ASSUME NEW k \in Shards', Stage(k)' = "wait" PROVE Serving(k, xs[Slot(k)])'
  <2>1. CASE k = i
    BY <1>2, <1>3, <1>4, <1>8, <2>1
  <2>2. CASE k # i
    <3>1. Stage(k) = "wait" /\ Active(k)
      BY <1>2, <1>3, <1>8, <2>2 DEF Active
    <3>2. Slot(k) # Slot(i) /\ Slot(k) \in Slots /\ Serving(k, ws[Slot(k)])
      BY <1>2, <1>4, <2>2, <3>1 DEF ShardsRight
    <3>3. xs[Slot(k)] = ws[Slot(k)]
      BY <3>2
    <3> QED BY <1>2, <1>3, <3>2, <3>3
  <2> QED BY <2>1, <2>2
<1>9. ASSUME NEW w \in Slots', \A k \in Shards' : ~(Stage(k)' = "wait" /\ Slot(k)' = w)
      PROVE  xs[w] = newWorker
  <2>1. CASE w = Slot(i)
    BY <1>2, <1>3, <1>9, <2>1
  <2>2. CASE w # Slot(i)
    <3>1. \A k \in Shards : ~(Stage(k) = "wait" /\ Slot(k) = w)
      BY <1>2, <1>3, <1>9, <2>2
    <3> QED BY <1>2, <2>2, <3>1 DEF ShardsRight
  <2> QED BY <2>1, <2>2
<1>10. \A k \in Shards' : Stage(k)' \in {"done", "received"} =>
                            section'.task[k].part = section'.ranges[k]
  BY <1>1, <1>2, <1>3 DEF ShardsRight
<1>11. ASSUME NEW k \in Shards', Stage(k)' = "new"
       PROVE  \E m \in Shards' : Active(m)' /\ (options'.w7 => Slot(m)' = HomeSlot(k)')
  <2>1. Stage(k) = "new"
    BY <1>2, <1>3, <1>11
  <2>2. PICK m \in Shards : Active(m) /\ (options.w7 => Slot(m) = HomeSlot(k))
    BY <1>2, <2>1 DEF ShardsRight
  <2> QED BY <1>2, <1>3, <2>2
<1> QED BY <1>5, <1>6, <1>7, <1>8, <1>9, <1>10, <1>11 DEF ShardsRight

\* A section that has failed stays so.
LEMMA StillFailing ==
  ASSUME Failing, NEW i \in Shards, Stage(i) # "done", NEW t, TaskBecomes(i, t), options' = options
  PROVE  Failing'
<1>1. Shards' = Shards
  BY SameShards DEF TaskBecomes
<1>2. \A k \in Shards : k # i => section'.task[k] = section.task[k] /\ Stage(k)' = Stage(k)
  BY ShardsAfter
<1> QED BY <1>1, <1>2 DEF Failing, TaskBecomes

\* A shard fails.
LEMMA NowFailing ==
  ASSUME NEW i \in Shards, NEW t, TaskBecomes(i, t), options' = options,
         t.stage = "done", t.err # "none"
  PROVE  Failing'
<1>1. Shards' = Shards
  BY SameShards DEF TaskBecomes
<1>2. section'.task[i] = t
  BY DEF TaskBecomes
<1> QED BY <1>1, <1>2 DEF Failing, Stage

\* A section after one of its shards has changed.
LEMMA SectionAgain ==
  ASSUME Planned, NEW i \in Shards, NEW t, TaskBecomes(i, t), options' = options,
         t = [f \in TaskFields |-> t[f]], t.err \in {"none", "closed"},
         Failing' \/ ShardsRight(workers[section.engine])'
  PROVE  SectionHolds'
<1>1. Shards' = Shards
  BY SameShards DEF TaskBecomes
<1>2. SectionPinned'
  BY DEF Planned, SectionHolds, SectionPinned, Sec, TaskBecomes
<1>3. section'.task = [k \in Shards' |-> section'.task[k]]
  BY <1>1 DEF TaskBecomes
<1>4. \A k \in Shards' : /\ section'.task[k] = [f \in TaskFields |-> section'.task[k][f]]
                         /\ section'.task[k].err \in {"none", "closed"}
  BY <1>1, ShardsAfter DEF Planned, SectionHolds
<1>5. section'.firstErr \in {"none", "closed"}
  BY DEF Planned, SectionHolds, TaskBecomes
<1> QED BY <1>2, <1>3, <1>4, <1>5 DEF SectionHolds

\* The wait of a shard is over.  Its worker is a fresh one, or one that has nothing left
\* to say, unless the shard has failed.
LEMMA WaitOver ==
  ASSUME Planned, EnginesShaped, options' = options, section.engine \in Calls,
         NEW i \in Shards, Stage(i) = "wait", NEW worker, NEW t, WaitEnds(i, worker, t),
         t = [f \in TaskFields |-> t[f]], t.err \in {"none", "closed"}, t.slot = Slot(i),
         t.stage \in {"post", "done"},
         ShardsRight(workers[section.engine]) =>
           \/ worker = newWorker /\ (t.stage = "done" => t.part = section.ranges[i])
           \/ t.stage = "done" /\ t.err # "none"
  PROVE  SectionHolds'
<1>1. TaskBecomes(i, t)
  BY TaskSet DEF WaitEnds
<1>2. CASE Failing
  <2>1. Failing'
    BY <1>1, <1>2, StillFailing
  <2> QED BY <1>1, <2>1, SectionAgain
<1>3. CASE t.stage = "done" /\ t.err # "none"
  <2>1. Failing'
    BY <1>1, <1>3, NowFailing
  <2> QED BY <1>1, <2>1, SectionAgain
<1>4. CASE ShardsRight(workers[section.engine]) /\ ~(t.stage = "done" /\ t.err # "none")
  <2> DEFINE ws == workers[section.engine]
  <2>1. ws = [w \in Slots |-> ws[w]]
    BY <1>4 DEF ShardsRight
  <2>2. workers'[section.engine] = [w \in Slots |-> IF w = Slot(i) THEN newWorker ELSE ws[w]]
    <3>1. worker = newWorker
      BY <1>4
    <3>2. workers' = [workers EXCEPT ![section.engine][Slot(i)] = newWorker]
      BY <3>1 DEF WaitEnds
    <3>3. workers'[section.engine] = [ws EXCEPT ![Slot(i)] = newWorker]
      BY <3>2 DEF EnginesShaped
    <3> QED BY <2>1, <3>3
  <2>3. Active(i)
    BY DEF Active
  <2>4. ASSUME NEW xs, xs = workers'[section.engine] PROVE ShardsRight(xs)'
    BY <1>1, <1>4, <2>2, <2>3, <2>4, OneShard
  <2>5. section'.engine = section.engine
    BY <1>1 DEF TaskBecomes
  <2>6. ShardsRight(workers[section.engine])'
    BY <2>4, <2>5
  <2> QED BY <1>1, <2>6, SectionAgain
<1> QED BY <1>2, <1>3, <1>4 DEF Planned, SectionHolds

\* A worker without a request whose reply is taken.
LEMMA Emptied ==
  ASSUME NEW x, NEW n, NEW q, NEW d, x = [inbox |-> n, reply |-> q, dead |-> d]
  PROVE  [x EXCEPT !.reply = None, !.inbox = n] = [inbox |-> n, reply |-> None, dead |-> d]
<1> DEFINE y == [x EXCEPT !.reply = None, !.inbox = n]
           F == {"inbox", "reply", "dead"}
<1>1. x = [f \in F |-> x[f]] /\ x.inbox = n /\ x.dead = d
  OBVIOUS
<1>2. y = [f \in F |-> y[f]] /\ y.inbox = n /\ y.dead = d /\ y.reply = None
  BY <1>1
<1> HIDE DEF y
<1>3. y = [inbox |-> n, reply |-> None, dead |-> d]
  BY <1>2
<1> QED BY <1>3 DEF y

\* A reply is taken.
LEMMA TakeReplyHolds ==
  ASSUME Planned, EnginesShaped, options' = options, section.engine \in Calls,
         NEW i \in Shards, TakeReply(i)
  PROVE  SectionHolds'
<1> DEFINE task == section.task[i]
           reply == Worker(i).reply
           worker == [Worker(i) EXCEPT !.reply = None, !.inbox = Zeroed(@, i)]
           again == [task EXCEPT !.stage = "post", !.attempt = @ + 1]
<1>1. /\ Stage(i) = "wait" /\ reply # None
      /\ task = [f \in TaskFields |-> task[f]] /\ task.err \in {"none", "closed"}
  BY DEF TakeReply, At, Stage, Planned, SectionHolds
<1>2. ASSUME ShardsRight(workers[section.engine])
      PROVE  /\ reply.kind \in {"partial", "fetch", "fatal"} => worker = newWorker
             /\ reply.kind = "partial" => reply.part = section.ranges[i]
             /\ reply.kind \in {"partial", "fetch", "fatal", "lost"}
  <2>1. Serving(i, Worker(i))
    BY <1>1, <1>2 DEF ShardsRight, Worker
  <2>2. Zeroed(<<>>, i) = <<>>
    BY DEF Zeroed
  <2> DEFINE x == Worker(i)
  <2> HIDE DEF x
  <2>3. worker = [x EXCEPT !.reply = None, !.inbox = Zeroed(x.inbox, i)] /\ reply = x.reply /\ Serving(i, x)
    BY <2>1 DEF x
  <2> HIDE DEF worker, reply
  <2>4. CASE x = [inbox |-> <<Request(i, None)>>, reply |-> None, dead |-> FALSE]
    BY <1>1, <2>3, <2>4
  <2>5. CASE x = [inbox |-> <<>>, reply |-> reply, dead |-> FALSE]
             /\ (reply.kind \in {"fetch", "fatal"} \/ (reply.kind = "partial" /\ reply.part = section.ranges[i]))
    <3>1. Zeroed(x.inbox, i) = <<>> /\ x = [inbox |-> <<>>, reply |-> reply, dead |-> FALSE]
      BY <2>2, <2>5
    <3>2. worker = [x EXCEPT !.reply = None, !.inbox = <<>>]
      BY <2>3, <3>1
    <3>3. worker = [inbox |-> <<>>, reply |-> None, dead |-> FALSE]
      BY <3>1, <3>2, Emptied
    <3> QED BY <2>5, <3>3 DEF newWorker
  <2>6. CASE reply.kind = "lost"
    BY <2>6
  <2> QED BY <1>1, <2>3, <2>4, <2>5, <2>6, Zenon DEF Serving
<1>3. ASSUME NEW part, NEW err \in {"none", "closed"}, NEW x,
             WaitEnds(i, x, Done(i, part, err)),
             ShardsRight(workers[section.engine]) =>
               (x = newWorker /\ part = section.ranges[i]) \/ err = "closed"
      PROVE  SectionHolds'
  <2> DEFINE t == Done(i, part, err)
  <2>1. t = [f \in TaskFields |-> t[f]] /\ t.err = err /\ t.slot = Slot(i)
        /\ t.stage = "done" /\ t.part = part
    BY <1>1 DEF Done, TaskFields, Slot
  <2> HIDE DEF t
  <2>2. WaitEnds(i, x, t)
    BY <1>3 DEF t
  <2> QED BY <1>1, <1>3, <2>1, <2>2, WaitOver
<1>4. CASE reply.kind # "partial" /\ Retry(i, worker, reply.kind)
  <2>1. CASE WaitEnds(i, worker, Done(i, {}, "closed"))
    BY <1>3, <2>1
  <2>2. CASE /\ reply.kind \in {"fetch", "lost"}
             /\ WaitEnds(i, IF reply.kind = "lost" THEN newWorker ELSE worker, again)
    <3>1. again = [f \in TaskFields |-> again[f]] /\ again.err \in {"none", "closed"}
          /\ again.slot = Slot(i) /\ again.stage = "post"
      BY <1>1 DEF TaskFields, Slot
    <3> DEFINE x == IF reply.kind = "lost" THEN newWorker ELSE worker
    <3>2. ShardsRight(workers[section.engine]) => x = newWorker
      BY <1>2, <2>2
    <3> HIDE DEF x, again
    <3>3. WaitEnds(i, x, again)
      BY <2>2 DEF x, again
    <3> QED BY <1>1, <3>1, <3>2, <3>3, WaitOver
  <2> QED BY <1>4, <2>1, <2>2 DEF Retry, Planned
<1>5. CASE WaitEnds(i, worker, Done(i, {}, "closed"))
  BY <1>3, <1>5
<1>6. CASE reply.kind = "partial" /\ WaitEnds(i, worker, Done(i, reply.part, "none"))
  BY <1>2, <1>3, <1>6
<1> QED BY <1>4, <1>5, <1>6 DEF TakeReply

\* The wait for a reply has taken too long.
LEMMA ExpireHolds ==
  ASSUME Planned, EnginesShaped, options' = options, section.engine \in Calls,
         NEW i \in Shards, Expire(i)
  PROVE  SectionHolds'
<1> DEFINE task == section.task[i]
           worker == [Worker(i) EXCEPT !.inbox = Zeroed(@, i)]
           again == [task EXCEPT !.stage = "post", !.attempt = @ + 1]
           last == Done(i, {}, "closed")
<1>1. /\ Stage(i) = "wait"
      /\ task = [f \in TaskFields |-> task[f]] /\ task.err \in {"none", "closed"}
  BY DEF Expire, At, Stage, Planned, SectionHolds
<1>2. again = [f \in TaskFields |-> again[f]] /\ again.err \in {"none", "closed"}
      /\ again.slot = Slot(i) /\ again.stage = "post"
  BY <1>1 DEF TaskFields, Slot
<1>3. last = [f \in TaskFields |-> last[f]] /\ last.err = "closed"
      /\ last.slot = Slot(i) /\ last.stage = "done"
  BY <1>1 DEF Done, TaskFields, Slot
<1>4. WaitEnds(i, newWorker, again) \/ WaitEnds(i, worker, last)
  BY DEF Expire, Retry, Planned
<1> HIDE DEF again, last, worker
<1>5. CASE WaitEnds(i, newWorker, again)
  BY <1>1, <1>2, <1>5, WaitOver
<1>6. CASE WaitEnds(i, worker, last)
  BY <1>1, <1>3, <1>6, WaitOver
<1> QED BY <1>4, <1>5, <1>6

\* The workers of a section are those of one shard more or less.
LEMMA ShardWorker ==
  ASSUME Planned, options' = options, NEW i \in Shards, Active(i), ShardsRight(workers[section.engine]),
         NEW t, TaskBecomes(i, t), t = [f \in TaskFields |-> t[f]], t.err \in {"none", "closed"},
         t.slot = Slot(i), t.stage \in {"post", "wait", "done"},
         NEW worker, t.stage = "wait" => Serving(i, worker), t.stage # "wait" => worker = newWorker,
         t.stage = "done" => t.part = section.ranges[i],
         workers'[section.engine] =
           [w \in Slots |-> IF w = Slot(i) THEN worker ELSE workers[section.engine][w]]
  PROVE  SectionHolds'
<1>1. ASSUME NEW xs, xs = workers'[section.engine] PROVE ShardsRight(xs)'
  BY <1>1, OneShard
<1>2. section'.engine = section.engine
  BY DEF TaskBecomes
<1>3. ShardsRight(workers[section.engine])'
  BY <1>1, <1>2
<1> QED BY <1>3, SectionAgain

\* A request is posted to a worker that has nothing to do.
LEMMA PostSectionHolds ==
  ASSUME Planned, EnginesShaped, options' = options, section.engine \in Calls,
         NEW i \in Shards, PostSection(i)
  PROVE  SectionHolds'
<1> DEFINE task == section.task[i]
           t == [task EXCEPT !.stage = "wait"]
           ws == workers[section.engine]
           worker == [inbox |-> <<Request(i, None)>>, reply |-> None, dead |-> FALSE]
<1>1. /\ Stage(i) = "post" /\ section' = [section EXCEPT !.task[i].stage = "wait"]
      /\ workers' = [workers EXCEPT ![section.engine][Slot(i)].inbox =
                       IF Worker(i).dead THEN @ ELSE Append(@, Request(i, None))]
      /\ task = [f \in TaskFields |-> task[f]] /\ task.err \in {"none", "closed"}
      /\ section.task = [k \in Shards |-> section.task[k]]
  BY DEF PostSection, Posted, At, Stage, Planned, SectionHolds
<1>2. TaskBecomes(i, t)
  <2>1. section' = [section EXCEPT !.task[i] = t]
    BY <1>1
  <2> HIDE DEF t
  <2> QED BY <2>1, TaskSet
<1>3. t = [f \in TaskFields |-> t[f]] /\ t.err \in {"none", "closed"}
      /\ t.slot = Slot(i) /\ t.stage = "wait"
  BY <1>1 DEF TaskFields, Slot
<1> HIDE DEF t
<1>4. CASE Failing
  <2>1. Failing'
    BY <1>1, <1>2, <1>4, StillFailing
  <2> QED BY <1>2, <1>3, <2>1, SectionAgain
<1>5. CASE ShardsRight(ws)
  <2>1. Active(i) /\ Slot(i) \in Slots /\ ws = [w \in Slots |-> ws[w]]
    BY <1>1, <1>5 DEF ShardsRight, Active
  <2>2. ws[Slot(i)] = newWorker
    <3>1. \A k \in Shards : ~(Stage(k) = "wait" /\ Slot(k) = Slot(i))
      BY <1>1, <1>5, <2>1 DEF ShardsRight, Active
    <3> QED BY <1>5, <2>1, <3>1 DEF ShardsRight
  <2>3. workers'[section.engine] = [w \in Slots |-> IF w = Slot(i) THEN worker ELSE ws[w]]
    <3> DEFINE r == Request(i, None)
    <3>1. newWorker.inbox = <<>> /\ newWorker.dead = FALSE
      BY DEF newWorker
    <3>2. Append(<<>>, r) = <<r>>
      OBVIOUS
    <3>3. ASSUME NEW n PROVE [newWorker EXCEPT !.inbox = n] = [inbox |-> n, reply |-> None, dead |-> FALSE]
      <4>1. ASSUME NEW x, NEW m, NEW q, NEW d, x = [inbox |-> m, reply |-> q, dead |-> d]
            PROVE  [x EXCEPT !.inbox = n] = [inbox |-> n, reply |-> q, dead |-> d]
        BY <4>1
      <4> QED BY ZenonT(30), <4>1 DEF newWorker
    <3>4. workers'[section.engine] =
            [ws EXCEPT ![Slot(i)] =
               [ws[Slot(i)] EXCEPT !.inbox = IF Worker(i).dead THEN ws[Slot(i)].inbox
                                             ELSE Append(ws[Slot(i)].inbox, r)]]
      BY <1>1 DEF EnginesShaped
    <3>5. Worker(i) = newWorker
      BY <2>2 DEF Worker
    <3>6. workers'[section.engine] = [ws EXCEPT ![Slot(i)] = [newWorker EXCEPT !.inbox = <<r>>]]
      BY <2>2, <3>1, <3>2, <3>4, <3>5
    <3>7. workers'[section.engine] = [ws EXCEPT ![Slot(i)] = worker]
      BY <3>3, <3>6
    <3> HIDE DEF worker
    <3> QED BY <2>1, <3>7
  <2>4. Serving(i, worker)
    BY DEF Serving
  <2> HIDE DEF worker
  <2> QED BY <1>2, <1>3, <1>5, <2>1, <2>3, <2>4, ShardWorker
<1> QED BY <1>4, <1>5 DEF Planned, SectionHolds

\* A worker of the engine answers or dies: a shard that waits for it is still served.
LEMMA OneWorker ==
  ASSUME Planned, EnginesShaped, options' = options, section' = section, section.engine \in Calls,
         NEW w \in Slots, workers[section.engine][w].inbox # <<>>, NEW worker,
         workers' = [workers EXCEPT ![section.engine][w] = worker],
         \A i \in Shards : Serving(i, workers[section.engine][w]) => Serving(i, worker)
  PROVE  SectionHolds'
<1> DEFINE ws == workers[section.engine]
<1>1. /\ Shards' = Shards /\ Slots' = Slots /\ (Failing' <=> Failing)
      /\ \A k : HomeSlot(k)' = HomeSlot(k)
      /\ \A k, x : Serving(k, x)' <=> Serving(k, x)
      /\ \A k : Slot(k)' = Slot(k) /\ Stage(k)' = Stage(k) /\ (Active(k)' <=> Active(k))
  BY DEF Shards, Slots, Failing, HomeSlot, Serving, Request, Slot, Stage, Active
<1>2. ASSUME ShardsRight(ws), NEW xs, xs = workers'[section.engine] PROVE ShardsRight(xs)'
  <2>1. ws = [s \in Slots |-> ws[s]]
    BY <1>2 DEF ShardsRight
  <2>2. xs = [s \in Slots |-> IF s = w THEN worker ELSE ws[s]]
    <3>1. xs = [ws EXCEPT ![w] = worker]
      BY <1>2 DEF EnginesShaped
    <3> QED BY <2>1, <3>1
  <2>3. PICK i \in Shards : Stage(i) = "wait" /\ Slot(i) = w
    <3>1. newWorker.inbox = <<>>
      BY DEF newWorker
    <3> QED BY <1>2, <3>1 DEF ShardsRight
  <2>4. xs = [s \in Slots' |-> xs[s]]
    BY <1>1, <2>2
  <2>5. \A k, m \in Shards' : Active(k)' /\ Active(m)' /\ Slot(k)' = Slot(m)' => k = m
    BY <1>1, <1>2 DEF ShardsRight
  <2>6. ASSUME NEW k \in Shards', Stage(k)' = "wait" PROVE Serving(k, xs[Slot(k)])'
    <3>1. Serving(k, ws[Slot(k)]) /\ Slot(k) \in Slots
      BY <1>1, <1>2, <2>6 DEF ShardsRight, Active
    <3>2. Serving(k, xs[Slot(k)])
      BY <1>1, <2>2, <2>6, <3>1
    <3> QED BY <1>1, <3>2
  <2>7. ASSUME NEW s \in Slots', \A k \in Shards' : ~(Stage(k)' = "wait" /\ Slot(k)' = s)
        PROVE  xs[s] = newWorker
    <3>1. s # w
      BY <1>1, <2>3, <2>7
    <3> QED BY <1>1, <1>2, <2>2, <2>7, <3>1 DEF ShardsRight
  <2>8. /\ \A k \in Shards' : Active(k)' => Slot(k)' \in Slots'
        /\ \A k \in Shards' : Stage(k)' \in {"done", "received"} =>
                                section'.task[k].part = section'.ranges[k]
        /\ \A k \in Shards' : Stage(k)' = "new" =>
             \E m \in Shards' : Active(m)' /\ (options'.w7 => Slot(m)' = HomeSlot(k)')
    BY <1>1, <1>2 DEF ShardsRight
  <2> QED BY <2>4, <2>5, <2>6, <2>7, <2>8 DEF ShardsRight
<1>3. Failing' \/ ShardsRight(workers[section.engine])'
  BY <1>1, <1>2 DEF Planned, SectionHolds
<1>4. SectionPinned'
  BY DEF Planned, SectionHolds, SectionPinned, Sec
<1> QED BY <1>1, <1>3, <1>4 DEF Planned, SectionHolds

\* A worker answers.
LEMMA WorkerAnswersHolds ==
  ASSUME Planned, EnginesShaped, options' = options, NEW e \in Calls, NEW w \in Slots,
         WorkerAnswers(e, w)
  PROVE  SectionHolds'
<1> DEFINE worker == workers[e][w]
           request == Head(worker.inbox)
           Answer(kind, part) == [kind |-> kind, id |-> request.id, part |-> part]
           Made == IF request.points = None THEN SectionPoints(request)
                   ELSE {<<"partial", request.points>>}
           Answers == {Answer("fatal", {})} \cup {Answer(m[1], m[2]) : m \in Made}
                      \cup (IF request.intact THEN {} ELSE {Answer("partial", {})})
<1>1. section.engine = e /\ section' = section /\ worker.inbox # <<>>
  BY DEF WorkerAnswers
<1>2. PICK answer \in Answers :
        workers' = [workers EXCEPT ![e][w] = Replied([worker EXCEPT !.inbox = Tail(@)], answer)]
  BY DEF WorkerAnswers
<1> DEFINE after == Replied([worker EXCEPT !.inbox = Tail(@)], answer)
<1>3. ASSUME NEW i \in Shards, Serving(i, worker) PROVE Serving(i, after)
  <2>1. worker = [inbox |-> <<Request(i, None)>>, reply |-> None, dead |-> FALSE]
    BY SMTT(20), <1>1, <1>3 DEF Serving
  <2> DEFINE r == Request(i, None)
  <2>2. request = r /\ Tail(worker.inbox) = <<>>
    <3>1. Head(<<r>>) = r /\ Tail(<<r>>) = <<>>
      OBVIOUS
    <3> QED BY <2>1, <3>1
  <2>3. r.points = None /\ r.intact /\ r.id = i - 1
    BY DEF Request
  <2>4. Answers = {Answer("fatal", {})} \cup {Answer(m[1], m[2]) : m \in SectionPoints(r)}
    BY <2>2, <2>3
  <2>5. answer.kind \in {"fetch", "fatal"} \/ (answer.kind = "partial" /\ answer.part = section.ranges[i])
    <3>1. CASE answer = Answer("fatal", {})
      BY <3>1
    <3>2. CASE \E m \in SectionPoints(r) : answer = Answer(m[1], m[2])
      <4>1. PICK m \in SectionPoints(r) : answer = Answer(m[1], m[2])
        BY <3>2
      <4>2. m[1] \in {"fetch", "fatal"} \/ (m[1] = "partial" /\ m[2] = section.ranges[i])
        BY PinnedShards DEF PointsRight, Planned, SectionHolds
      <4> QED BY <4>1, <4>2
    <3> QED BY <1>2, <2>4, <3>1, <3>2
  <2>6. after = [inbox |-> <<>>, reply |-> answer, dead |-> FALSE]
    <3> DEFINE no == FALSE
    <3>1. worker = [inbox |-> <<r>>, reply |-> None, dead |-> no] /\ Tail(worker.inbox) = <<>>
      BY <2>1, <2>2
    <3> HIDE DEF no, worker, r
    <3>2. [worker EXCEPT !.inbox = Tail(worker.inbox)] = [worker EXCEPT !.inbox = <<>>]
      BY <3>1
    <3>3. [worker EXCEPT !.inbox = <<>>] = [inbox |-> <<>>, reply |-> None, dead |-> no]
      BY <3>1
    <3>4. after = [[inbox |-> <<>>, reply |-> None, dead |-> no] EXCEPT !.reply = answer]
      BY <3>2, <3>3 DEF Replied
    <3>5. after = [inbox |-> <<>>, reply |-> answer, dead |-> no]
      BY <3>4
    <3> QED BY <3>5 DEF no
  <2> HIDE DEF after
  <2> QED BY <2>5, <2>6 DEF Serving
<1> HIDE DEF after
<1>4. workers' = [workers EXCEPT ![section.engine][w] = after]
  BY <1>1, <1>2 DEF after
<1> QED BY <1>1, <1>3, <1>4, OneWorker

\* A worker dies.
LEMMA WorkerDiesHolds ==
  ASSUME Planned, EnginesShaped, options' = options, NEW w \in Slots, section.engine \in Calls,
         WorkerDies(section.engine, w)
  PROVE  SectionHolds'
<1> DEFINE worker == workers[section.engine][w]
           gone1 == [worker EXCEPT !.inbox = <<>>, !.dead = TRUE]
           lost == Replied(gone1, [kind |-> "lost", id |-> 0, part |-> {}])
<1>1. /\ worker.inbox # <<>> /\ section' = section
      /\ \/ workers' = [workers EXCEPT ![section.engine][w] = gone1]
         \/ workers' = [workers EXCEPT ![section.engine][w] = lost]
  BY DEF WorkerDies
<1>2. ASSUME NEW i \in Shards, Serving(i, worker) PROVE Serving(i, gone1) /\ Serving(i, lost)
  <2>1. worker = [inbox |-> <<Request(i, None)>>, reply |-> None, dead |-> FALSE]
    BY <1>1, <1>2 DEF Serving
  <2> DEFINE r == Request(i, None)
             q == [kind |-> "lost", id |-> 0, part |-> {}]
  <2>2. gone1 = [inbox |-> <<>>, reply |-> None, dead |-> TRUE]
    <3>1. ASSUME NEW x, NEW m, x = [inbox |-> m, reply |-> None, dead |-> FALSE]
          PROVE  [x EXCEPT !.inbox = <<>>, !.dead = TRUE] = [inbox |-> <<>>, reply |-> None, dead |-> TRUE]
      <4> DEFINE y == [x EXCEPT !.inbox = <<>>, !.dead = TRUE]
                 F == {"inbox", "reply", "dead"}
      <4>1. x = [f \in F |-> x[f]] /\ x.reply = None
        BY <3>1
      <4>2. y = [f \in F |-> y[f]] /\ y.inbox = <<>> /\ y.dead = TRUE /\ y.reply = None
        BY <4>1
      <4> HIDE DEF y
      <4>3. y = [inbox |-> <<>>, reply |-> None, dead |-> TRUE]
        BY <4>2
      <4> QED BY <4>3 DEF y
    <3> HIDE DEF worker
    <3> QED BY <2>1, <3>1
  <2>3. lost = [inbox |-> <<>>, reply |-> q, dead |-> TRUE]
    <3>1. ASSUME NEW x, NEW z, x = [inbox |-> <<>>, reply |-> None, dead |-> TRUE]
          PROVE  Replied(x, z) = [inbox |-> <<>>, reply |-> z, dead |-> TRUE]
      BY <3>1 DEF Replied
    <3> HIDE DEF gone1
    <3> QED BY <2>2, <3>1
  <2>4. q.kind = "lost"
    OBVIOUS
  <2> HIDE DEF gone1, lost, q
  <2> QED BY <2>2, <2>3, <2>4 DEF Serving
<1> HIDE DEF gone1, lost
<1> QED BY <1>1, <1>2, OneWorker

\* The shard that is launched in the place of one that is received, if any: one alone, and
\* one there is when a shard waits to be launched there.
LEMMA NextIsOne ==
  ASSUME Planned, NEW i \in Shards
  PROVE  /\ NextOnSlot(i, "none") \subseteq {k \in Shards : Stage(k) = "new"}
         /\ \A k, m \in NextOnSlot(i, "none") : k = m
         /\ \A k \in Shards : Stage(k) = "new" /\ (options.w7 => HomeSlot(k) = Slot(i)) =>
              \E m \in NextOnSlot(i, "none") : options.w7 => HomeSlot(m) = Slot(i)
<1> DEFINE new == {k \in Shards : section.task[k].stage = "new"}
           mine == IF ~options.w7 THEN new
                   ELSE {k \in new : workerForShard(k - 1, Len(section.ranges), options.workers) = Slot(i)}
<1>1. NextOnSlot(i, "none") = {k \in mine : \A m \in mine : k <= m}
  BY DEF NextOnSlot
<1>2. Shards \subseteq Nat
  <2>1. SectionPinned
    BY DEF Planned, SectionHolds
  <2>2. Len(section.ranges) \in Nat
    BY <2>1 DEF SectionPinned, Runs
  <2> QED BY <2>2 DEF Shards
<1>3. mine \subseteq new /\ \A k \in mine : options.w7 => HomeSlot(k) = Slot(i)
  BY DEF HomeSlot
<1>4. \A k \in new : (options.w7 => HomeSlot(k) = Slot(i)) => k \in mine
  BY DEF HomeSlot
<1>5. new = {k \in Shards : Stage(k) = "new"}
  BY DEF Stage
<1> HIDE DEF mine, new
<1>6. mine \in SUBSET Nat
  BY <1>2, <1>3, <1>5
<1>7. \A k, m \in NextOnSlot(i, "none") : k = m
  <2> TAKE k, m \in NextOnSlot(i, "none")
  <2>1. k \in Nat /\ m \in Nat /\ k <= m /\ m <= k
    BY <1>1, <1>6
  <2> QED BY <2>1
<1>8. ASSUME NEW k \in mine PROVE \E m \in NextOnSlot(i, "none") : options.w7 => HomeSlot(m) = Slot(i)
  <2>1. \E m \in mine : \A x \in mine : m <= x
    BY <1>6, <1>8, LeastMember
  <2> QED BY <1>1, <1>3, <2>1
<1> QED BY <1>1, <1>3, <1>4, <1>5, <1>7, <1>8

\* A result is received, and the next shard of the slot launched.
LEMMA ReceiveHolds ==
  ASSUME Planned, options' = options, NEW i \in Shards, Receive(i)
  PROVE  SectionHolds'
<1> DEFINE err == IF section.firstErr # "none" THEN section.firstErr ELSE section.task[i].err
           ws == workers[section.engine]
           Nx == NextOnSlot(i, err)
           t == [section.task[i] EXCEPT !.stage = "received"]
           tasks == [k \in Shards |-> IF k = i THEN t
                                      ELSE IF k \in Nx THEN Launch(Slot(i)) ELSE section.task[k]]
<1>1. /\ Stage(i) = "done" /\ workers' = workers
      /\ section' = [section EXCEPT !.firstErr = err, !.task = tasks]
  BY DEF Receive, At, Stage
<1>2. /\ section = [f \in SectionFields |-> section[f]]
      /\ Failing \/ ShardsRight(ws)
      /\ section.firstErr \in {"none", "closed"} /\ SectionPinned
      /\ \A k \in Shards : /\ section.task[k] = [f \in TaskFields |-> section.task[k][f]]
                           /\ section.task[k].err \in {"none", "closed"}
  BY DEF Planned, SectionHolds, SectionShaped
<1>3. err \in {"none", "closed"}
  BY <1>2
<1>4. t = [f \in TaskFields |-> t[f]] /\ t.stage = "received" /\ t.slot = Slot(i)
      /\ t.part = section.task[i].part /\ t.err = section.task[i].err
  BY <1>2 DEF TaskFields, Slot
<1> DEFINE l == Launch(Slot(i))
<1>5. l = [f \in TaskFields |-> l[f]] /\ l.stage = "post" /\ l.slot = Slot(i) /\ l.err = "none"
  BY DEF Launch, Unlaunched, TaskFields
<1> HIDE DEF t, l
<1>6. tasks = [k \in Shards |-> IF k = i THEN t ELSE IF k \in Nx THEN l ELSE section.task[k]]
  BY DEF t, l
<1> HIDE DEF tasks, Nx, err
<1>7. /\ section'.firstErr = err /\ section'.task = tasks /\ section'.engine = section.engine
      /\ section'.name = section.name /\ section'.bundle = section.bundle
      /\ section'.ranges = section.ranges /\ section'.planned = section.planned
  BY <1>1, <1>2 DEF SectionFields
<1>8. /\ Shards' = Shards /\ Slots' = Slots /\ \A k : HomeSlot(k)' = HomeSlot(k)
      /\ \A k, w : Serving(k, w)' <=> Serving(k, w)
  BY <1>7, SameShards
<1>9. \A k \in Shards : section'.task[k] = IF k = i THEN t ELSE IF k \in Nx THEN l ELSE section.task[k]
  BY <1>6, <1>7
<1>10. SectionPinned'
  BY <1>2, <1>7 DEF SectionPinned, Sec
<1>11. /\ section'.task = [k \in Shards' |-> section'.task[k]]
       /\ \A k \in Shards' : /\ section'.task[k] = [f \in TaskFields |-> section'.task[k][f]]
                             /\ section'.task[k].err \in {"none", "closed"}
  <2>1. section'.task = [k \in Shards' |-> section'.task[k]]
    BY <1>6, <1>7, <1>8
  <2>2. ASSUME NEW k \in Shards'
        PROVE  /\ section'.task[k] = [f \in TaskFields |-> section'.task[k][f]]
               /\ section'.task[k].err \in {"none", "closed"}
    <3>1. k \in Shards /\ section'.task[k] \in {t, l, section.task[k]}
      BY <1>8, <1>9
    <3>2. /\ t.err \in {"none", "closed"} /\ l.err \in {"none", "closed"}
      BY <1>2, <1>4, <1>5
    <3> QED BY <1>2, <1>4, <1>5, <3>1, <3>2
  <2> QED BY <2>1, <2>2
<1>12. CASE err # "none"
  BY <1>3, <1>7, <1>8, <1>10, <1>11, <1>12 DEF SectionHolds, Failing
<1>13. CASE err = "none"
  <2>1. Nx = NextOnSlot(i, "none")
    BY <1>13 DEF Nx
  <2>2. /\ \A k \in Nx : k \in Shards /\ Stage(k) = "new"
        /\ \A k, m \in Nx : k = m
        /\ \A k \in Shards : Stage(k) = "new" /\ (options.w7 => HomeSlot(k) = Slot(i)) =>
             \E m \in Nx : options.w7 => HomeSlot(m) = Slot(i)
    BY <2>1, NextIsOne
  <2>3. \A k \in Shards :
          /\ Stage(k)' = IF k = i THEN "received" ELSE IF k \in Nx THEN "post" ELSE Stage(k)
          /\ k # i => Slot(k)' = IF k \in Nx THEN Slot(i) ELSE Slot(k)
          /\ Active(k)' <=> k # i /\ (k \in Nx \/ Active(k))
    BY <1>4, <1>5, <1>9 DEF Stage, Slot, Active
  <2>4. CASE Failing
    <3>1. PICK k \in Shards : Stage(k) = "done" /\ section.task[k].err # "none"
      BY <1>13, <2>4 DEF Failing, err
    <3>2. k # i /\ k \notin Nx
      BY <1>13, <2>2, <3>1 DEF err
    <3>3. section'.task[k] = section.task[k]
      BY <1>9, <3>2
    <3>4. Failing'
      BY <1>8, <3>1, <3>3 DEF Failing, Stage
    <3> QED BY <1>3, <1>7, <1>10, <1>11, <3>4 DEF SectionHolds
  <2>5. CASE ShardsRight(ws)
    <3>0. Active(i) /\ Slot(i) \in Slots
      BY <1>1, <2>5 DEF Active, ShardsRight
    <3>1. ws = [w \in Slots' |-> ws[w]]
      BY <1>8, <2>5 DEF ShardsRight
    <3>2. \A k \in Shards' : Active(k)' => Slot(k)' \in Slots'
      BY <1>8, <2>3, <2>5, <3>0 DEF ShardsRight
    <3>3. ASSUME NEW k \in Shards', NEW m \in Shards', Active(k)', Active(m)', Slot(k)' = Slot(m)'
          PROVE  k = m
      <4>1. CASE k \in Nx /\ m \in Nx
        BY <2>2, <4>1
      <4>2. CASE k \in Nx /\ m \notin Nx
        BY <1>8, <2>3, <2>5, <3>0, <3>3, <4>2 DEF ShardsRight
      <4>3. CASE k \notin Nx /\ m \in Nx
        BY <1>8, <2>3, <2>5, <3>0, <3>3, <4>3 DEF ShardsRight
      <4>4. CASE k \notin Nx /\ m \notin Nx
        BY <1>8, <2>3, <2>5, <3>3, <4>4 DEF ShardsRight
      <4> QED BY <4>1, <4>2, <4>3, <4>4
    <3>4. ASSUME NEW k \in Shards', Stage(k)' = "wait" PROVE Serving(k, ws[Slot(k)])'
      <4>1. k \notin Nx /\ k # i /\ Stage(k) = "wait"
        BY <1>8, <2>3, <3>4
      <4>2. Slot(k)' = Slot(k) /\ Serving(k, ws[Slot(k)])
        BY <1>8, <2>3, <2>5, <4>1 DEF ShardsRight
      <4> QED BY <1>1, <1>7, <1>8, <4>2
    <3>5. ASSUME NEW w \in Slots', \A k \in Shards' : ~(Stage(k)' = "wait" /\ Slot(k)' = w)
          PROVE  ws[w] = newWorker
      <4>1. \A k \in Shards : ~(Stage(k) = "wait" /\ Slot(k) = w)
        BY <1>1, <1>8, <2>2, <2>3, <3>5
      <4> QED BY <1>8, <2>5, <4>1 DEF ShardsRight
    <3>6. \A k \in Shards' : Stage(k)' \in {"done", "received"} =>
                               section'.task[k].part = section'.ranges[k]
      <4>1. \A k \in Shards : Stage(k) \in {"done", "received"} => section.task[k].part = section.ranges[k]
        BY <2>5 DEF ShardsRight
      <4> QED BY <1>1, <1>4, <1>7, <1>8, <1>9, <2>3, <4>1
    <3>7. ASSUME NEW k \in Shards', Stage(k)' = "new"
          PROVE  \E m \in Shards' : Active(m)' /\ (options'.w7 => Slot(m)' = HomeSlot(k)')
      <4>1. Stage(k) = "new" /\ k \in Shards
        BY <1>8, <2>3, <3>7
      <4>2. PICK m \in Shards : Active(m) /\ (options.w7 => Slot(m) = HomeSlot(k))
        BY <2>5, <4>1 DEF ShardsRight
      <4>3. CASE m # i
        <5>1. m \notin Nx
          BY <2>2, <4>2 DEF Active
        <5> QED BY <1>8, <2>3, <4>2, <4>3, <5>1
      <4>4. CASE m = i
        <5>1. PICK n \in Nx : options.w7 => HomeSlot(n) = Slot(i)
          BY <2>2, <4>1, <4>2, <4>4
        <5>2. n \in Shards /\ n # i
          BY <1>1, <2>2
        <5>3. Active(n)' /\ Slot(n)' = Slot(i)
          BY <2>3, <5>1, <5>2
        <5> QED BY <1>8, <4>2, <4>4, <5>2, <5>3
      <4> QED BY <4>3, <4>4
    <3>8. ASSUME NEW xs, xs = ws PROVE ShardsRight(xs)'
      <4>1. \A k \in Shards' : Stage(k)' = "wait" => Serving(k, xs[Slot(k)])'
        BY <1>1, <1>7, <3>4, <3>8
      <4>2. xs = [w \in Slots' |-> xs[w]]
        BY <3>1, <3>8
      <4> QED BY <3>2, <3>3, <3>5, <3>6, <3>7, <3>8, <4>1, <4>2 DEF ShardsRight
    <3>9. ShardsRight(workers[section.engine])'
      BY <1>1, <1>7, <3>8
    <3> QED BY <1>3, <1>7, <1>10, <1>11, <3>9 DEF SectionHolds
  <2> QED BY <1>2, <2>4, <2>5
<1> QED BY <1>12, <1>13

----------------------------------------------------------------------------
\* The steps of goroutines and workers.

\* A section and its workers that nothing happens to.
LEMMA SectionSame ==
  ASSUME SectionHolds, section' = section, options' = options,
         section # None => workers'[section.engine] = workers[section.engine]
  PROVE  SectionHolds'
<1> SUFFICES ASSUME section # None, section.planned
             PROVE  SectionHolds'
  BY DEF SectionHolds
<1>1. /\ Shards' = Shards /\ Slots' = Slots /\ (Failing' <=> Failing)
      /\ \A k : HomeSlot(k)' = HomeSlot(k)
      /\ \A k, x : Serving(k, x)' <=> Serving(k, x)
      /\ \A k : Slot(k)' = Slot(k) /\ Stage(k)' = Stage(k) /\ (Active(k)' <=> Active(k))
  BY DEF Shards, Slots, Failing, HomeSlot, Serving, Request, Slot, Stage, Active
<1>2. ASSUME NEW ws, ShardsRight(ws) PROVE ShardsRight(ws)'
  <2>1. \A k \in Shards' : Stage(k)' = "wait" => Serving(k, ws[Slot(k)])'
    BY <1>1, <1>2 DEF ShardsRight
  <2> QED BY <1>1, <1>2, <2>1 DEF ShardsRight
<1>3. ShardsRight(workers[section.engine]) => ShardsRight(workers[section.engine])'
  <2> SUFFICES ASSUME ShardsRight(workers[section.engine]) PROVE ShardsRight(workers[section.engine])'
    OBVIOUS
  <2>1. ASSUME NEW ws, ws = workers[section.engine] PROVE ShardsRight(ws)'
    BY <1>2, <2>1
  <2> QED BY <2>1
<1>4. SectionPinned'
  BY DEF SectionHolds, SectionPinned, Sec
<1> QED BY <1>1, <1>3, <1>4 DEF SectionHolds

\* What is known of the calls and the session when none of them moves.
LEMMA CallsSame ==
  ASSUME ExactInv, UNCHANGED <<options, callVars>>,
         \/ section' = section
         \/ section # None /\ section'.planned = section.planned /\ section'.engine = section.engine
  PROVE  options' \in Scenarios /\ (\A c \in Calls : CallExact(c)') /\ SessionExact'
<1>1. call' = call /\ session' = session /\ options' = options
  BY DEF callVars
<1>2. ASSUME NEW c \in Calls PROVE CallExact(c)'
  <2>1. CallExact(c) /\ Key(c)' = Key(c) /\ Asked(c)' = Asked(c) /\ (Sharded(c)' <=> Sharded(c))
        /\ \A d : Key(d)' = Key(d)
    BY <1>1 DEF ExactInv, Key, Asked, Sharded
  <2> QED BY <1>1, <2>1 DEF CallExact
<1>3. SessionExact'
  BY <1>1 DEF ExactInv, SessionExact, Prepared, Key, Asked
<1> QED BY <1>1, <1>2, <1>3 DEF ExactInv

\* An engine whose workers nothing happens to, or that is the section's.
LEMMA EnginesSame ==
  ASSUME ExactInv, UNCHANGED <<options, callVars>>, NEW e \in Calls,
         workers'[e] = workers[e] \/ Busy(e) \/ (Sharded(e) /\ Held(e) => workers[e] # CleanWorkers)
  PROVE  EngineExact(e)'
<1>1. call' = call /\ session' = session /\ options' = options
  BY DEF callVars
<1>2. /\ Sharded(e)' <=> Sharded(e)
      /\ Held(e)' <=> Held(e)
      /\ Busy(e)' <=> Busy(e)
      /\ Abandoned(e)' <=> Abandoned(e)
      /\ CleanWorkers' = CleanWorkers
  BY <1>1 DEF Sharded, Key, Asked, Held, Busy, Abandoned, Failed, CleanWorkers, Slots
<1> QED BY <1>2 DEF ExactInv, EngineExact

\* No vector changes.
LEMMA TransformsSame ==
  ASSUME TransformsExact, h' = h
  PROVE  TransformsExact'
BY DEF TransformsExact, Running, VectorHolds, Vec

\* Whose section it is.
LEMMA SectionEngine ==
  ASSUME ProverInv, ExactInv, section # None
  PROVE  section.engine \in Calls /\ Busy(section.engine)
<1>1. PICK c \in Calls : call[c].pc = "section" /\ section.engine = call[c].engine
  BY DEF ProverInv, SectionOwned
<1>2. CallExact(c)
  BY DEF ExactInv
<1> QED BY <1>1, <1>2 DEF CallExact, Busy

\* The goroutines of a section.
LEMMA SectionStepKeepsExact ==
  ASSUME ProverInv, ExactInv, SectionStep
  PROVE  ExactInv'
<1>1. /\ section # None /\ options' = options /\ call' = call /\ session' = session /\ h' = h
      /\ UNCHANGED <<options, callVars>>
  BY DEF SectionStep, callVars, fftVars
<1>2. PICK i \in Shards : PostSection(i) \/ PostRange(i) \/ TakeReply(i) \/ Expire(i) \/ Receive(i)
  BY DEF SectionStep
<1>3. SectionShaped /\ EnginesShaped /\ SectionHolds /\ TransformsExact
  BY DEF ProverInv, ExactInv
<1>4. section.engine \in Calls /\ Busy(section.engine)
  BY <1>1, SectionEngine
<1>5. section'.planned = section.planned /\ section'.engine = section.engine
  BY <1>1, <1>2, <1>3 DEF SectionShaped, SectionFields, PostSection, PostRange, Posted, TakeReply,
                          Expire, Retry, WaitEnds, Receive
<1>6. \A e \in Calls : e # section.engine => workers'[e] = workers[e]
  BY <1>2, <1>3, <1>4 DEF EnginesShaped, PostSection, PostRange, Posted, TakeReply,
                          Expire, Retry, WaitEnds, Receive
<1>7. SectionHolds'
  <2>1. CASE ~section.planned
    BY <1>5, <2>1 DEF SectionHolds
  <2>2. CASE section.planned
    <3>1. Planned
      BY <1>1, <1>3, <2>2 DEF Planned
    <3>2. ~PostRange(i)
      BY <2>2 DEF PostRange
    <3> QED BY <1>1, <1>2, <1>3, <1>4, <3>1, <3>2, PostSectionHolds, TakeReplyHolds, ExpireHolds,
               ReceiveHolds
  <2> QED BY <2>1, <2>2
<1>8. \A e \in Calls : EngineExact(e)'
  BY <1>1, <1>4, <1>6, EnginesSame
<1>9. TransformsExact'
  BY <1>1, <1>3, TransformsSame
<1>10. options' \in Scenarios /\ (\A c \in Calls : CallExact(c)') /\ SessionExact'
  BY <1>1, <1>5, CallsSame
<1> QED BY <1>7, <1>8, <1>9, <1>10 DEF ExactInv

\* The workers.
LEMMA WorkerStepKeepsExact ==
  ASSUME ProverInv, ExactInv, WorkerStep
  PROVE  ExactInv'
<1>1. /\ options' = options /\ call' = call /\ session' = session /\ h' = h /\ section' = section
      /\ UNCHANGED <<options, callVars>>
  BY DEF WorkerStep, callVars, fftVars, engineVars, WorkerAnswers, WorkerDies, FFTAnswers
<1>2. SectionShaped /\ EnginesShaped /\ SectionHolds /\ TransformsExact
  BY DEF ProverInv, ExactInv
<1>3. TransformsExact'
  BY <1>1, <1>2, TransformsSame
<1>4. options' \in Scenarios /\ (\A c \in Calls : CallExact(c)') /\ SessionExact'
  BY <1>1, CallsSame
<1>5. CASE workers' = workers
  <2>1. \A e \in Calls : EngineExact(e)'
    BY <1>1, <1>5, EnginesSame
  <2>2. SectionHolds'
    BY <1>1, <1>2, <1>5, SectionSame
  <2> QED BY <1>3, <1>4, <2>1, <2>2 DEF ExactInv
<1>6. ASSUME NEW e \in Calls, NEW w \in Slots, WorkerAnswers(e, w) \/ WorkerDies(e, w)
      PROVE  ExactInv'
  <2>1. workers[e][w].inbox # <<>> /\ \A d \in Calls : d # e => workers'[d] = workers[d]
    BY <1>2, <1>6 DEF EnginesShaped, WorkerAnswers, WorkerDies
  <2>2. workers[e] # CleanWorkers
    BY <2>1 DEF CleanWorkers, newWorker
  <2>3. \A d \in Calls : EngineExact(d)'
    BY <1>1, <2>1, <2>2, EnginesSame
  <2>4. SectionHolds'
    <3>1. CASE section # None /\ section.planned /\ section.engine = e
      <4>1. Planned
        BY <1>2, <3>1 DEF Planned
      <4> QED BY <1>1, <1>2, <1>6, <3>1, <4>1, WorkerAnswersHolds, WorkerDiesHolds
    <3>2. CASE section # None /\ ~section.planned
      BY <1>1, <3>2 DEF SectionHolds
    <3>3. CASE section # None => section.engine # e
      <4>1. section # None => workers'[section.engine] = workers[section.engine]
        BY <2>1, <3>3, SectionEngine
      <4> QED BY <1>1, <1>2, <4>1, SectionSame
    <3> QED BY <3>1, <3>2, <3>3
  <2> QED BY <1>3, <1>4, <2>3, <2>4 DEF ExactInv
<1> QED BY <1>5, <1>6 DEF WorkerStep, engineVars

\* Records of vectors.
VectorFields == {"stage", "applied", "worker", "id"}

\* What a vector x may be in a phase.
InPhase(x, phase) ==
  /\ x = [f \in VectorFields |-> x[f]]
  /\ x.applied \in Nat
  /\ x.stage \in {"idle", "done"} => x.applied = phase
  /\ x.stage \in {"take", "wait", "local"} => x.applied + 1 = phase

\* The transforms of a call, by its vectors.
LEMMA TransformsOf ==
  ASSUME NEW c \in Calls, NEW x, NEW vec, NEW phase \in Nat, TransformsExact,
         h' = [h EXCEPT ![c] = x], x = [f \in {"engine", "phase", "vec"} |-> x[f]],
         x.vec = vec, x.phase = phase, vec = [v \in Vectors |-> vec[v]],
         \A v \in Vectors : InPhase(vec[v], phase)
  PROVE  TransformsExact'
<1>1. h = [d \in Calls |-> h[d]]
  BY DEF TransformsExact
<1>2. h' = [d \in Calls |-> h'[d]] /\ h'[c] = x /\ \A d \in Calls : d # c => h'[d] = h[d]
  BY <1>1
<1>3. ASSUME NEW d \in Calls, Running(d)', d # c
      PROVE  /\ h'[d] = [f \in {"engine", "phase", "vec"} |-> h'[d][f]]
             /\ h'[d].phase \in Nat /\ h'[d].vec = [v \in Vectors |-> Vec(d, v)']
             /\ \A v \in Vectors : VectorHolds(d, v)'
  <2>1. h'[d] = h[d] /\ Running(d)
    BY <1>2, <1>3 DEF Running
  <2> QED BY <2>1 DEF TransformsExact, VectorHolds, Vec
<1>4. /\ h'[c] = [f \in {"engine", "phase", "vec"} |-> h'[c][f]]
      /\ h'[c].phase \in Nat /\ h'[c].vec = [v \in Vectors |-> Vec(c, v)']
      /\ \A v \in Vectors : VectorHolds(c, v)'
  BY <1>2 DEF InPhase, VectorHolds, Vec, VectorFields
<1> QED BY <1>2, <1>3, <1>4 DEF TransformsExact

\* The vectors of a running call.
LEMMA VectorsOf ==
  ASSUME TransformsExact, NEW c \in Calls, Running(c)
  PROVE  /\ h = [d \in Calls |-> h[d]] /\ h[c] = [f \in {"engine", "phase", "vec"} |-> h[c][f]]
         /\ h[c].phase \in Nat /\ h[c].vec = [v \in Vectors |-> Vec(c, v)]
         /\ \A v \in Vectors : InPhase(Vec(c, v), h[c].phase)
BY DEF TransformsExact, VectorHolds, InPhase, VectorFields

\* One vector goes on.
LEMMA VectorGoesOn ==
  ASSUME TransformsExact, NEW c \in Calls, Running(c), NEW v \in Vectors, NEW y, NEW p,
         Becomes(c, v, y, p), InPhase(y, h[c].phase)
  PROVE  TransformsExact'
<1>1. /\ h = [d \in Calls |-> h[d]] /\ h[c] = [f \in {"engine", "phase", "vec"} |-> h[c][f]]
      /\ h[c].phase \in Nat /\ h[c].vec = [u \in Vectors |-> Vec(c, u)]
      /\ \A u \in Vectors : InPhase(Vec(c, u), h[c].phase)
  BY VectorsOf
<1> DEFINE vec == [u \in Vectors |-> IF u = v THEN y ELSE Vec(c, u)]
           x == [h[c] EXCEPT !.vec = vec]
<1>2. vec = [h[c].vec EXCEPT ![v] = y]
  BY <1>1
<1>3. h' = [h EXCEPT ![c] = x]
  BY <1>1, <1>2 DEF Becomes
<1>4. x = [f \in {"engine", "phase", "vec"} |-> x[f]] /\ x.vec = vec /\ x.phase = h[c].phase
  BY <1>1
<1>5. vec = [u \in Vectors |-> vec[u]] /\ \A u \in Vectors : InPhase(vec[u], h[c].phase)
  BY <1>1
<1> HIDE DEF x, vec
<1> QED BY <1>1, <1>3, <1>4, <1>5, TransformsOf

\* A vector as an operation makes it.
LEMMA VectorIs ==
  ASSUME NEW stage, NEW applied \in Nat, NEW phase \in Nat,
         \/ stage = "done" /\ applied = phase
         \/ stage = "blocked"
         \/ stage \in {"take", "local"} /\ applied + 1 = phase
         \/ stage = "idle" /\ applied = phase
  PROVE  InPhase(Vector(stage, applied), phase)
BY DEF InPhase, Vector, VectorFields

\* computeH.
LEMMA HStepKeepsTransforms ==
  ASSUME TransformsExact, NEW c \in Calls, HStep(c)
  PROVE  TransformsExact'
<1>1. Running(c)
  BY DEF HStep, StartPhase, EndPhase, Take, TransformReply, TransformExpires, TransformLocally
<1>2. /\ h = [d \in Calls |-> h[d]] /\ h[c] = [f \in {"engine", "phase", "vec"} |-> h[c][f]]
      /\ h[c].phase \in Nat /\ h[c].vec = [u \in Vectors |-> Vec(c, u)]
      /\ \A u \in Vectors : InPhase(Vec(c, u), h[c].phase)
  BY <1>1, VectorsOf
<1> DEFINE phase == h[c].phase
<1>3. CASE StartPhase(c)
  <2>1. PICK stage \in {"take", "local"} :
          h' = [h EXCEPT ![c].phase = @ + 1,
                         ![c].vec = [v \in Vectors |-> Vector(stage, @[v].applied)]]
    BY <1>3 DEF StartPhase
  <2> DEFINE vec == [v \in Vectors |-> Vector(stage, h[c].vec[v].applied)]
             x == [h[c] EXCEPT !.phase = @ + 1, !.vec = vec]
  <2>2. h' = [h EXCEPT ![c] = x]
    BY <1>2, <2>1
  <2>3. x = [f \in {"engine", "phase", "vec"} |-> x[f]] /\ x.vec = vec /\ x.phase = phase + 1
    BY <1>2
  <2>4. ASSUME NEW v \in Vectors PROVE InPhase(vec[v], phase + 1)
    <3>1. Vec(c, v).stage = "idle" /\ InPhase(Vec(c, v), phase)
      BY <1>2, <1>3 DEF StartPhase
    <3>2. Vec(c, v).applied \in Nat /\ Vec(c, v).applied + 1 = phase + 1
      BY <1>2, <3>1 DEF InPhase
    <3>3. vec[v] = Vector(stage, Vec(c, v).applied)
      BY DEF Vec
    <3> QED BY <1>2, <3>2, <3>3, VectorIs
  <2>5. vec = [v \in Vectors |-> vec[v]] /\ phase + 1 \in Nat
    BY <1>2
  <2> HIDE DEF x, vec
  <2> QED BY <2>2, <2>3, <2>4, <2>5, TransformsOf
<1>4. CASE EndPhase(c)
  <2> DEFINE vec == [v \in Vectors |-> Vector("idle", h[c].vec[v].applied)]
             x == [h[c] EXCEPT !.vec = vec]
  <2>1. h' = [h EXCEPT ![c] = x]
    BY <1>2, <1>4 DEF EndPhase
  <2>2. x = [f \in {"engine", "phase", "vec"} |-> x[f]] /\ x.vec = vec /\ x.phase = phase
    BY <1>2
  <2>3. ASSUME NEW v \in Vectors PROVE InPhase(vec[v], phase)
    <3>1. Vec(c, v).stage = "done" /\ InPhase(Vec(c, v), phase)
      BY <1>2, <1>4 DEF EndPhase
    <3>2. Vec(c, v).applied \in Nat /\ Vec(c, v).applied = phase
      BY <1>2, <3>1 DEF InPhase
    <3>3. vec[v] = Vector("idle", Vec(c, v).applied)
      BY DEF Vec
    <3> QED BY <1>2, <3>2, <3>3, VectorIs
  <2>4. vec = [v \in Vectors |-> vec[v]]
    OBVIOUS
  <2> HIDE DEF x, vec
  <2> QED BY <1>2, <2>1, <2>2, <2>3, <2>4, TransformsOf
<1>5. ASSUME NEW v \in Vectors,
             Take(c, v) \/ TransformReply(c, v) \/ TransformExpires(c, v) \/ TransformLocally(c, v)
      PROVE  TransformsExact'
  <2> DEFINE applied == Vec(c, v).applied
  <2>1. applied \in Nat /\ applied + 1 = phase /\ InPhase(Vec(c, v), phase)
        /\ Vec(c, v).stage \in {"take", "wait", "local"}
    BY <1>2, <1>5 DEF InPhase, Take, TransformReply, TransformExpires, TransformLocally
  <2>2. /\ InPhase(Locally(c, v), phase)
        /\ InPhase(Vector("done", applied + 1), phase)
    BY <1>2, <2>1, VectorIs DEF Locally
  <2>3. ASSUME NEW x, InPhase(x, phase), NEW w, NEW id
        PROVE  /\ InPhase([x EXCEPT !.stage = "blocked"], phase)
               /\ x.applied + 1 = phase => InPhase([x EXCEPT !.stage = "wait", !.worker = w, !.id = id], phase)
    BY <2>3 DEF InPhase, VectorFields
  <2>4. ASSUME NEW x, InPhase(x, phase), NEW p, GivesBack(c, v, x, p) PROVE TransformsExact'
    <3>1. InPhase([x EXCEPT !.stage = "blocked"], phase)
      BY <2>3, <2>4
    <3> QED BY <1>1, <2>4, <3>1, VectorGoesOn DEF GivesBack
  <2>5. CASE Take(c, v)
    <3>1. CASE \E p : Becomes(c, v, Locally(c, v), p)
      BY <1>1, <2>2, <3>1, VectorGoesOn
    <3>2. CASE \E p, w, id : Becomes(c, v, [Vec(c, v) EXCEPT !.stage = "wait", !.worker = w, !.id = id], p)
      <4>1. PICK p, w, id : Becomes(c, v, [Vec(c, v) EXCEPT !.stage = "wait", !.worker = w, !.id = id], p)
        BY <3>2
      <4> DEFINE y == [Vec(c, v) EXCEPT !.stage = "wait", !.worker = w, !.id = id]
      <4>2. InPhase(y, phase)
        BY <2>1, <2>3
      <4> HIDE DEF y
      <4>3. Becomes(c, v, y, p)
        BY <4>1 DEF y
      <4> QED BY <1>1, <4>2, <4>3, VectorGoesOn
    <3> QED BY <2>5, <3>1, <3>2 DEF Take
  <2>6. CASE TransformReply(c, v)
    BY <1>1, <2>2, <2>4, <2>6, VectorGoesOn DEF TransformReply
  <2>7. CASE TransformExpires(c, v)
    BY <1>1, <2>2, <2>7, VectorGoesOn DEF TransformExpires
  <2>8. CASE TransformLocally(c, v)
    BY <1>1, <2>2, <2>8, VectorGoesOn DEF TransformLocally
  <2> QED BY <1>5, <2>5, <2>6, <2>7, <2>8
<1> QED BY <1>3, <1>4, <1>5 DEF HStep

\* computeH and the goroutine that spawns its workers.
LEMMA TransformStepKeepsExact ==
  ASSUME ExactInv, NEW c \in Calls, TransformStep(c)
  PROVE  ExactInv'
<1>1. options' = options /\ workers' = workers /\ section' = section /\ UNCHANGED <<options, callVars>>
  BY DEF TransformStep, engineVars
<1>2. TransformsExact'
  <2>1. CASE HStep(c)
    BY <2>1, HStepKeepsTransforms DEF ExactInv
  <2>2. CASE Prespawn(c)
    BY <2>2, TransformsSame DEF ExactInv, Prespawn
  <2> QED BY <2>1, <2>2 DEF TransformStep
<1>3. \A e \in Calls : EngineExact(e)'
  BY <1>1, EnginesSame
<1>4. SectionHolds'
  BY <1>1, SectionSame DEF ExactInv
<1>5. options' \in Scenarios /\ (\A d \in Calls : CallExact(d)') /\ SessionExact'
  BY <1>1, CallsSame
<1> QED BY <1>2, <1>3, <1>4, <1>5 DEF ExactInv

----------------------------------------------------------------------------
\* A section begins.

\* The shards of a plan that are launched at once: each on a slot of its own, and one for
\* every shard that waits.
LEMMA LaunchedShards ==
  ASSUME NEW count \in Nat, options.workers \in Nat \ {0}, NEW key, key.planned
  PROVE  /\ \A i \in 1 .. count : LaunchedAtOnce(i, count, key.planned) =>
              InitialSlot(i, count, key.planned) \in Slots
         /\ \A i, k \in 1 .. count :
              /\ LaunchedAtOnce(i, count, key.planned) /\ LaunchedAtOnce(k, count, key.planned)
              /\ InitialSlot(i, count, key.planned) = InitialSlot(k, count, key.planned)
              => i = k
         /\ \A k \in 1 .. count : \E m \in 1 .. count :
              /\ LaunchedAtOnce(m, count, key.planned)
              /\ options.w7 => InitialSlot(m, count, key.planned) =
                                 workerForShard(k - 1, count, options.workers)
<1> DEFINE Home(i) == workerForShard(i - 1, count, options.workers)
<1>1. CASE ~options.w7
  <2>1. ASSUME NEW i \in 1 .. count
        PROVE  /\ LaunchedAtOnce(i, count, key.planned) <=> i <= options.workers
               /\ InitialSlot(i, count, key.planned) = i - 1 /\ i \in Int
    BY <1>1 DEF LaunchedAtOnce, InitialSlot
  <2>2. \A k \in 1 .. count : 1 \in 1 .. count /\ 1 <= options.workers
    OBVIOUS
  <2>3. ASSUME NEW i \in 1 .. count, LaunchedAtOnce(i, count, key.planned)
        PROVE  InitialSlot(i, count, key.planned) \in Slots
    <3>1. i <= options.workers /\ InitialSlot(i, count, key.planned) = i - 1
      BY <2>1, <2>3
    <3>2. i - 1 \in 0 .. options.workers - 1
      BY <3>1
    <3> QED BY <3>1, <3>2 DEF Slots
  <2>4. \A k \in 1 .. count : 1 \in 1 .. count /\ LaunchedAtOnce(1, count, key.planned)
    BY <2>1, <2>2
  <2>5. ASSUME NEW i \in 1 .. count, NEW k \in 1 .. count,
               InitialSlot(i, count, key.planned) = InitialSlot(k, count, key.planned)
        PROVE  i = k
    <3>1. i - 1 = k - 1
      BY <2>1, <2>5
    <3> QED BY <3>1
  <2> QED BY <1>1, <2>3, <2>4, <2>5
<1>2. CASE options.w7
  <2>1. \A i \in 1 .. count :
          /\ LaunchedAtOnce(i, count, key.planned) <=> \A k \in 1 .. i - 1 : Home(k) # Home(i)
          /\ InitialSlot(i, count, key.planned) = Home(i)
    BY <1>2 DEF LaunchedAtOnce, InitialSlot
  <2>2. \A i \in 1 .. count : Home(i) \in Slots
    <3> TAKE i \in 1 .. count
    <3>1. count \in Nat \ {0} /\ i - 1 \in 0 .. count - 1
      OBVIOUS
    <3> QED BY <3>1, ShardHasWorker DEF Slots
  <2> HIDE DEF Home
  <2>3. ASSUME NEW i \in 1 .. count, NEW k \in 1 .. count, Home(i) = Home(k),
               LaunchedAtOnce(i, count, key.planned), LaunchedAtOnce(k, count, key.planned)
        PROVE  i = k
    <3>1. ASSUME i < k PROVE FALSE
      <4>1. i \in 1 .. k - 1
        BY <3>1
      <4> QED BY <2>1, <2>3, <4>1
    <3>2. ASSUME k < i PROVE FALSE
      <4>1. k \in 1 .. i - 1
        BY <3>2
      <4> QED BY <2>1, <2>3, <4>1
    <3> QED BY <3>1, <3>2
  <2>4. ASSUME NEW k \in 1 .. count
        PROVE  \E m \in 1 .. count : LaunchedAtOnce(m, count, key.planned) /\ Home(m) = Home(k)
    <3> DEFINE T == {m \in 1 .. count : Home(m) = Home(k)}
    <3>1. T \in SUBSET Nat /\ T # {}
      OBVIOUS
    <3>2. PICK m \in T : \A x \in T : m <= x
      <4> HIDE DEF T
      <4> QED BY <3>1, LeastMember
    <3>3. ASSUME NEW x \in 1 .. m - 1 PROVE Home(x) # Home(m)
      <4>1. x \in 1 .. count /\ ~(m <= x)
        BY <3>2
      <4>2. x \notin T
        BY <3>2, <4>1
      <4> QED BY <3>2, <4>1, <4>2
    <3> QED BY <2>1, <3>2, <3>3
  <2>5. ASSUME NEW i \in 1 .. count, LaunchedAtOnce(i, count, key.planned)
        PROVE  InitialSlot(i, count, key.planned) \in Slots
    BY <2>1, <2>2
  <2>6. ASSUME NEW i \in 1 .. count, NEW k \in 1 .. count,
               LaunchedAtOnce(i, count, key.planned), LaunchedAtOnce(k, count, key.planned),
               InitialSlot(i, count, key.planned) = InitialSlot(k, count, key.planned)
        PROVE  i = k
    <3>1. Home(i) = Home(k)
      BY <2>1, <2>6
    <3> QED BY <2>3, <2>6, <3>1
  <2>7. \A k \in 1 .. count : \E m \in 1 .. count :
          LaunchedAtOnce(m, count, key.planned) /\ InitialSlot(m, count, key.planned) = Home(k)
    BY <2>1, <2>4
  <2> QED BY <2>5, <2>6, <2>7 DEF Home
<1> QED BY <1>1, <1>2

\* A section of files that have passed the checks, with n positions.
SectionOf(b, name, n) ==
  /\ Arrived(b, 10)
  /\ name \in DOMAIN b["pk index"].sections
  /\ n = b["pk index"].sections[name].len \div b["pk index"].sections[name].elem

\* The section of checked files that a call begins.
LEMMA SectionBegins ==
  ASSUME NEW c \in Calls, NEW b, NEW e, NEW name, Key(c).planned,
         options \in Scenarios, options' = options, workers' = workers,
         workers[e] = CleanWorkers, NEW n, SectionOf(b, name, n),
         MSMSection(e, name, n, b, Key(c).planned)
  PROVE  SectionHolds'
<1> DEFINE sec == b["pk index"].sections[name]
           ranges == nonEmptyRanges(partitionRanges(n, options.shards))
           count == Len(ranges)
           L(i) == LaunchedAtOnce(i, count, Key(c).planned)
           S(i) == InitialSlot(i, count, Key(c).planned)
           tasks == [i \in 1 .. count |-> IF L(i) THEN Launch(S(i)) ELSE Unlaunched]
<1>1. options.workers \in Nat \ {0} /\ options.shards \in Nat \ {0}
  BY ScenarioAssumption
<1>2. n \in Nat
  <2>1. PICK r \in Releases :
          /\ \A f \in DOMAIN b : b[f] = Content[r][f]
          /\ ValidatePKIndex(BuildPKIndex(r))
    BY ArrivedCoheres DEF SectionOf
  <2>2. DOMAIN b = {File(k) : k \in 1 .. 10}
    BY DEF Arrived, SectionOf
  <2>3. "pk index" \in DOMAIN b
    <3>1. 4 \in 1 .. 10
      OBVIOUS
    <3> QED BY <2>2, <3>1, FileNames
  <2>4. b["pk index"] = BuildPKIndex(r)
    BY <2>1, <2>3, FilesOfRelease
  <2>5. sec.len \in Nat /\ sec.elem \in Nat \ {0}
    BY <2>1, <2>4, SectionTyped DEF SectionOf
  <2> HIDE DEF sec
  <2>6. n = sec.len \div sec.elem
    BY DEF SectionOf, sec
  <2>7. \A x \in Nat, y \in Nat \ {0} : x \div y \in Nat
    OBVIOUS
  <2> QED BY <2>5, <2>6, <2>7
<1>3. Runs(ranges, n)
  BY <1>1, <1>2, ShardsAreRuns
<1>4. /\ section'.engine = e /\ section'.name = name /\ section'.planned = Key(c).planned
      /\ section'.bundle = b /\ section'.ranges = ranges /\ section'.firstErr = "none"
      /\ section'.task = tasks
  BY DEF MSMSection
<1>5. count \in Nat
  BY <1>3 DEF Runs
<1>6. SectionPinned'
  <2>1. Sec' = sec
    BY <1>4 DEF Sec
  <2> HIDE DEF ranges
  <2> QED BY <1>3, <1>4, <2>1 DEF SectionPinned, SectionOf
<1>7. /\ \A i \in 1 .. count : L(i) => S(i) \in Slots
      /\ \A i, k \in 1 .. count : L(i) /\ L(k) /\ S(i) = S(k) => i = k
      /\ \A k \in 1 .. count : \E m \in 1 .. count :
           L(m) /\ (options.w7 => S(m) = workerForShard(k - 1, count, options.workers))
  BY <1>1, <1>5, LaunchedShards
<1> HIDE DEF L, S
<1>8. /\ Shards' = 1 .. count /\ Slots' = Slots
      /\ \A k : HomeSlot(k)' = workerForShard(k - 1, count, options.workers)
  BY <1>4 DEF Shards, Slots, HomeSlot
<1> HIDE DEF ranges, count
<1>9. \A i \in 1 .. count : section'.task[i] = IF L(i) THEN Launch(S(i)) ELSE Unlaunched
  BY <1>4
<1> DEFINE l(s) == Launch(s)
<1>10. ASSUME NEW s
       PROVE  /\ l(s) = [f \in TaskFields |-> l(s)[f]]
              /\ l(s).err = "none" /\ l(s).stage = "post" /\ l(s).slot = s
  BY DEF Launch, Unlaunched, TaskFields
<1>11. /\ Unlaunched = [f \in TaskFields |-> Unlaunched[f]]
       /\ Unlaunched.err = "none" /\ Unlaunched.stage = "new"
  BY DEF Unlaunched, TaskFields
<1>12. \A i \in 1 .. count : section'.task[i] = IF L(i) THEN l(S(i)) ELSE Unlaunched
  BY <1>9
<1> HIDE DEF l
<1>13. \A i \in 1 .. count :
         /\ Stage(i)' = IF L(i) THEN "post" ELSE "new"
         /\ L(i) => Slot(i)' = S(i)
         /\ Active(i)' <=> L(i)
  BY <1>10, <1>11, <1>12 DEF Stage, Slot, Active
<1>14. /\ section'.task = [i \in Shards' |-> section'.task[i]]
       /\ \A i \in Shards' : /\ section'.task[i] = [f \in TaskFields |-> section'.task[i][f]]
                             /\ section'.task[i].err \in {"none", "closed"}
  BY <1>4, <1>8, <1>10, <1>11, <1>12
<1>15. ASSUME NEW ws, ws = CleanWorkers PROVE ShardsRight(ws)'
  <2>1. ws = [w \in Slots' |-> ws[w]] /\ \A w \in Slots' : ws[w] = newWorker
    BY <1>8, <1>15 DEF CleanWorkers
  <2>2. \A i \in Shards' : Stage(i)' \in {"post", "new"}
    BY <1>8, <1>13
  <2>3. \A i \in Shards' : Active(i)' => Slot(i)' \in Slots'
    BY <1>7, <1>8, <1>13
  <2>4. \A i, k \in Shards' : Active(i)' /\ Active(k)' /\ Slot(i)' = Slot(k)' => i = k
    BY <1>7, <1>8, <1>13
  <2>5. \A k \in Shards' : \E m \in Shards' : Active(m)' /\ (options'.w7 => Slot(m)' = HomeSlot(k)')
    BY <1>7, <1>8, <1>13
  <2>6. \A i \in Shards' : Stage(i)' = "wait" => Serving(i, ws[Slot(i)])'
    BY <2>2
  <2> QED BY <2>1, <2>2, <2>3, <2>4, <2>5, <2>6 DEF ShardsRight
<1>16. ShardsRight(workers[section.engine])'
  BY <1>4, <1>15
<1> QED BY <1>4, <1>6, <1>14, <1>16 DEF SectionHolds

----------------------------------------------------------------------------
\* The steps of a call.

\* What a call is asked does not change.
LEMMA AsksSame ==
  ASSUME options' = options, NEW c
  PROVE  /\ Key(c)' = Key(c) /\ Asked(c)' = Asked(c) /\ (Sharded(c)' <=> Sharded(c))
         /\ CleanWorkers' = CleanWorkers
BY DEF Key, Asked, Sharded, CleanWorkers, Slots

\* A step of call c, by what it leaves to be shown.
LEMMA CallMoves ==
  ASSUME ExactInv, NEW c \in Calls, options' = options,
         \A d \in Calls : d # c => call'[d] = call[d],
         \A d \in Calls : d # c => section' \in {section, None} \/ call[d].pc # "section",
         CallExact(c)', SessionExact', \A e \in Calls : EngineExact(e)', SectionHolds', TransformsExact'
  PROVE  ExactInv'
<1>1. ASSUME NEW d \in Calls, d # c PROVE CallExact(d)'
  <2>1. /\ CallExact(d) /\ call'[d] = call[d] /\ \A x : Key(x)' = Key(x)
        /\ Asked(d)' = Asked(d) /\ (Sharded(d)' <=> Sharded(d))
        /\ section' = section \/ section' = None \/ call[d].pc # "section"
    BY <1>1, AsksSame DEF ExactInv
  <2> QED BY <2>1 DEF CallExact
<1> QED BY <1>1 DEF ExactInv

\* A call outside a section that holds the lock, or could take it, sees no section.
LEMMA NoSection ==
  ASSUME ProverInv, NEW c \in Calls, mutex \in {None, c}, call[c].pc # "section"
  PROVE  section = None
<1>1. SUFFICES ASSUME section # None PROVE FALSE
  OBVIOUS
<1>2. PICK d \in Calls : call[d].pc = "section"
  BY <1>1 DEF ProverInv, SectionOwned
<1>3. mutex = d
  BY <1>2 DEF ProverInv, CallHolds, Locked
<1> QED BY <1>2, <1>3, ProverAssumption

\* Only a call that has prepared a session, or that has selected its own, gives its
\* name to an engine in use.
LEMMA EngineName ==
  ASSUME ProverInv, ExactInv, NEW c \in Calls, Held(c), call[c].engine # c
  PROVE  call[c].pc = "ok"
<1>1. session.engine = c => call[c].pc = "ok"
  BY ProverAssumption DEF ExactInv, SessionExact, Prepared
<1>2. ASSUME NEW d \in Calls, call[d].engine = c PROVE session.engine = c
  <2>1. CallHolds(d) /\ call[d].own \in BOOLEAN /\ d # c /\ call[d].engine # None
    BY <1>2, ProverAssumption DEF ProverInv, CallShaped
  <2> QED BY <1>2, <2>1 DEF CallHolds
<1> QED BY <1>1, <1>2 DEF Held

\* The session is that of the same call, or none.
LEMMA SessionSame ==
  ASSUME ExactInv, NEW c \in Calls, options' = options, \A d \in Calls : d # c => call'[d] = call[d],
         \/ session'.engine = None
         \/ /\ session'.engine = session.engine /\ session'.key = session.key
            /\ call[c].pc # "ok" \/ call'[c].pc = "ok"
  PROVE  SessionExact'
<1>1. \A x : Key(x)' = Key(x)
  BY AsksSame
<1> QED BY <1>1 DEF ExactInv, SessionExact, Prepared

\* An engine whose workers the step of a call does not touch.
LEMMA EngineSame ==
  ASSUME ExactInv, NEW c \in Calls, NEW e \in Calls, options' = options,
         \A d \in Calls : d # c => call'[d] = call[d],
         workers'[e] = workers[e], session'.engine = e => session.engine = e, call[c].pc # "failed",
         call'[c].engine = e => call[c].engine = e \/ (session.engine = e /\ ~\E d \in Calls : Failed(d)),
         \/ call[c].pc \notin {"section", "demote", "failing"} \/ call[c].engine # e
         \/ ~Sharded(e) \/ workers[e] = CleanWorkers
         \/ call'[c].pc \in {"section", "demote", "failing"} /\ call'[c].engine = e
  PROVE  EngineExact(e)'
<1>1. (Sharded(e)' <=> Sharded(e)) /\ CleanWorkers' = CleanWorkers
  BY AsksSame
<1> SUFFICES ASSUME Sharded(e), Held(e)', workers[e] # CleanWorkers
             PROVE  Busy(e)' \/ Abandoned(e)'
  BY <1>1 DEF EngineExact
<1>2. Held(e)
  BY DEF Held
<1>3. CASE Busy(e)
  <2>1. PICK x \in Calls : call[x].pc \in {"section", "demote", "failing"} /\ call[x].engine = e
    BY <1>3 DEF Busy
  <2>2. call'[x].pc \in {"section", "demote", "failing"} /\ call'[x].engine = e
    BY <2>1
  <2> QED BY <2>2 DEF Busy
<1>4. CASE Abandoned(e)
  <2>1. PICK d \in Calls : Failed(d)
    BY <1>4 DEF Abandoned
  <2>2. Failed(d)'
    BY <2>1 DEF Failed
  <2>3. \A x \in Calls : call'[x].engine # e
    BY <1>4, <2>1 DEF Abandoned
  <2> QED BY <2>2, <2>3 DEF Abandoned
<1> QED BY <1>1, <1>2, <1>3, <1>4 DEF ExactInv, EngineExact

\* A step that concerns the call alone.
LEMMA QuietExact ==
  ASSUME ProverInv, ExactInv, NEW c \in Calls, options' = options,
         workers' = workers, section' = section, h' = h, session'.engine = session.engine,
         session'.key = session.key, \A d \in Calls : d # c => call'[d] = call[d],
         call'[c].engine = call[c].engine, call[c].pc \notin {"ok", "failed"},
         \/ call[c].pc \notin {"section", "demote", "failing"}
         \/ call'[c].pc \in {"section", "demote", "failing"}
         \/ call[c].engine \in Calls => ~Sharded(call[c].engine),
         CallExact(c)'
  PROVE  ExactInv'
<1>1. SessionExact'
  BY SessionSame
<1>2. \A e \in Calls : EngineExact(e)'
  BY EngineSame
<1>3. SectionHolds' /\ TransformsExact'
  BY SectionSame, TransformsSame DEF ExactInv
<1> QED BY <1>1, <1>2, <1>3, CallMoves

\* What a call knows of its sums stays.
SumsStay(c) == call'[c].exact = call[c].exact /\ call'[c].cause = call[c].cause

\* A call that only goes on.
LEMMA GotoExact ==
  ASSUME CallShaped, NEW c \in Calls, NEW pc, Goto(c, pc)
  PROVE  /\ Turns(c, pc, call[c].bundle, call[c].ccs, call[c].engine, call[c].own, call[c].path,
                  call[c].step)
         /\ SumsStay(c)
<1>1. SumsStay(c)
  BY DEF SumsStay, Goto, CallShaped, HasFields, Fields
<1> QED BY <1>1, TurnsGoto

\* A call that is over, or has failed, has nothing to be exact about.
LEMMA EndExact ==
  ASSUME CallShaped, NEW c \in Calls, NEW outcome \in {"ok", "failed"}, Ends(c, outcome), options' = options
  PROVE  /\ CallExact(c)' /\ call'[c].pc = outcome /\ call'[c].engine = None
         /\ \A d \in Calls : d # c => call'[d] = call[d]
<1>1. Turns(c, outcome, <<>>, None, None, FALSE, None, 1)
  BY TurnsEnd
<1>2. call'[c].exact = TRUE
  BY DEF Ends, CallShaped, NewCall
<1> QED BY <1>1, <1>2 DEF CallExact, Turns

\* The steps before a proof.
LEMMA FetchExact ==
  ASSUME ProverInv, ExactInv, NEW c \in Calls, options' = options, Fetch(c)
  PROVE  ExactInv'
<1>1. CallShaped /\ CallExact(c)
  BY DEF ProverInv, ExactInv
<1>2. /\ call[c].pc = "fetch" /\ workers' = workers /\ section' = section /\ h' = h /\ session' = session
  BY DEF Fetch, engineVars, fftVars
<1>3. ASSUME NEW pc \in {"fetch", "ccs", "failing"}, NEW b, SumsStay(c),
             Turns(c, pc, b, call[c].ccs, call[c].engine, call[c].own, call[c].path, call[c].step)
      PROVE  ExactInv'
  <2>1. CallExact(c)'
    BY <1>1, <1>2, <1>3, AsksSame DEF CallExact, Turns, SumsStay
  <2> QED BY <1>2, <1>3, <2>1, QuietExact DEF Turns
<1>4. CASE Goto(c, "failing")
  <2>1. /\ Turns(c, "failing", call[c].bundle, call[c].ccs, call[c].engine, call[c].own, call[c].path,
                 call[c].step)
        /\ SumsStay(c)
    BY <1>1, <1>4, GotoExact
  <2> QED BY <1>3, <2>1
<1>5. ASSUME NEW pc \in {"fetch", "ccs"}, NEW b, call' = [call EXCEPT ![c].pc = pc, ![c].bundle = b]
      PROVE  ExactInv'
  <2>1. SumsStay(c)
    BY <1>1, <1>5 DEF SumsStay, CallShaped, HasFields, Fields
  <2>2. Turns(c, pc, b, call[c].ccs, call[c].engine, call[c].own, call[c].path, call[c].step)
    BY <1>1, <1>5, TurnsFile
  <2> QED BY <1>3, <2>1, <2>2
<1> QED BY <1>4, <1>5 DEF Fetch

\* A search finds a path or fails.
LEMMA SearchExact ==
  ASSUME ProverInv, ExactInv, NEW c \in Calls, options' = options, Search(c)
  PROVE  ExactInv'
<1>1. CallShaped /\ CallExact(c)
  BY DEF ProverInv, ExactInv
<1>2. /\ call[c].pc = "search" /\ workers' = workers /\ section' = section /\ h' = h /\ session' = session
      /\ Goto(c, "cache") \/ Goto(c, "failing")
  BY DEF Search, engineVars, fftVars
<1>3. PICK pc \in {"cache", "failing"} :
        /\ Turns(c, pc, call[c].bundle, call[c].ccs, call[c].engine, call[c].own, call[c].path, call[c].step)
        /\ SumsStay(c)
  BY <1>1, <1>2, GotoExact
<1>4. CallExact(c)'
  BY <1>1, <1>2, <1>3, AsksSame DEF CallExact, Turns, SumsStay
<1> QED BY <1>2, <1>3, <1>4, QuietExact DEF Turns

\* What is found is kept.
LEMMA CacheExact ==
  ASSUME ProverInv, ExactInv, NEW c \in Calls, options' = options, Cache(c)
  PROVE  ExactInv'
<1>1. CallShaped /\ CallHolds(c)
  BY DEF ProverInv
<1>2. /\ call[c].pc = "cache" /\ workers' = workers /\ section' = section /\ h' = h /\ session' = session
      /\ Ends(c, "ok")
  BY DEF Cache, engineVars, fftVars
<1>3. call[c].engine = None
  BY <1>1, <1>2 DEF CallHolds, Locked
<1>4. /\ CallExact(c)' /\ call'[c].engine = None /\ \A d \in Calls : d # c => call'[d] = call[d]
  BY <1>1, <1>2, EndExact
<1> QED BY <1>2, <1>3, <1>4, QuietExact

\* prove, find-path.
LEMMA PathExact ==
  ASSUME ProverInv, ExactInv, NEW c \in Calls, options' = options, FindPath(c) \/ Find(c)
  PROVE  ExactInv'
<1>1. CallShaped /\ CallExact(c)
  BY DEF ProverInv, ExactInv
<1>2. /\ call[c].pc \in {"path", "find"} /\ workers' = workers /\ section' = section /\ h' = h
      /\ session' = session
  BY DEF FindPath, Find, engineVars, fftVars
<1>3. \/ \E pc \in {"find", "failing"} : Goto(c, pc)
      \/ \E x : call' = [call EXCEPT ![c].pc = "select", ![c].path = x]
  BY DEF FindPath, Find, ExplicitPath, cachedDiscoveryPath, SearchPath
<1>4. PICK pc, x :
        /\ pc \in {"find", "failing", "select"}
        /\ Turns(c, pc, call[c].bundle, call[c].ccs, call[c].engine, call[c].own, x, call[c].step)
        /\ SumsStay(c)
  <2>1. CASE \E pc \in {"find", "failing"} : Goto(c, pc)
    BY <1>1, <2>1, GotoExact
  <2>2. ASSUME NEW x, call' = [call EXCEPT ![c].pc = "select", ![c].path = x]
        PROVE  /\ Turns(c, "select", call[c].bundle, call[c].ccs, call[c].engine, call[c].own, x, call[c].step)
               /\ SumsStay(c)
    <3>1. SumsStay(c)
      BY <1>1, <2>2 DEF SumsStay, CallShaped, HasFields, Fields
    <3> QED BY <1>1, <2>2, <3>1, TurnsPath
  <2> QED BY <1>3, <2>1, <2>2
<1>5. CallExact(c)'
  BY <1>1, <1>2, <1>4, AsksSame DEF CallExact, Turns, SumsStay
<1> QED BY <1>2, <1>4, <1>5, QuietExact DEF Turns

\* A failed proof is tried on the CPU, never one whose sections have plans.
LEMMA ReloadExact ==
  ASSUME ProverInv, ExactInv, NEW c \in Calls, options' = options, WithFallbackReload(c)
  PROVE  ExactInv'
<1>1. CallShaped /\ CallExact(c)
  BY DEF ProverInv, ExactInv
<1>2. /\ call[c].pc = "demote" /\ workers' = workers /\ section' = section /\ h' = h
      /\ session' = session
  BY DEF WithFallbackReload, engineVars, fftVars
<1>3. CASE Goto(c, "failing")
  <2>1. /\ Turns(c, "failing", call[c].bundle, call[c].ccs, call[c].engine, call[c].own, call[c].path, call[c].step)
        /\ SumsStay(c)
    BY <1>1, <1>3, GotoExact
  <2>2. CallExact(c)'
    BY <1>1, <1>2, <2>1, AsksSame DEF CallExact, Turns, SumsStay
  <2> QED BY <1>2, <2>1, <2>2, QuietExact DEF Turns
<1>4. CASE call[c].cause # "closed"
          /\ \/ call' = [call EXCEPT ![c].pc = "cpu", ![c].step = 1]
             \/ \E x : call' = [call EXCEPT ![c].pc = "cpu", ![c].step = 1, ![c].ccs = System(x)]
  <2>1. PICK y : Turns(c, "cpu", call[c].bundle, y, call[c].engine, call[c].own, call[c].path, 1)
    BY <1>1, <1>4, TurnsCPU, TurnsReload
  <2>2. ~Sharded(c)
    BY <1>1, <1>2, <1>4 DEF CallExact
  <2>3. call[c].engine \in Calls => ~Sharded(call[c].engine)
    BY <1>1, <2>2, ProverAssumption DEF CallExact, Sharded
  <2>4. CallExact(c)'
    BY <1>1, <2>1, <2>2, AsksSame DEF CallExact, Turns
  <2> QED BY <1>2, <2>1, <2>3, <2>4, QuietExact DEF Turns
<1> QED BY <1>3, <1>4 DEF WithFallbackReload

\* A proof on the CPU.
LEMMA OnCPUExact ==
  ASSUME ProverInv, ExactInv, NEW c \in Calls, options' = options, ProveOnCPU(c)
  PROVE  ExactInv'
<1>1. CallShaped /\ CallExact(c)
  BY DEF ProverInv, ExactInv
<1>2. /\ call[c].pc = "cpu" /\ workers' = workers /\ section' = section /\ h' = h
      /\ session' = session
  BY DEF ProveOnCPU, engineVars, fftVars
<1>3. ~Sharded(c)
  BY <1>1, <1>2 DEF CallExact
<1>4. ASSUME NEW pc \in {"verify", "failing"}, NEW x,
             Turns(c, pc, call[c].bundle, x, call[c].engine, call[c].own, call[c].path, call[c].step)
      PROVE  ExactInv'
  <2>1. CallExact(c)'
    BY <1>1, <1>3, <1>4, AsksSame DEF CallExact, Turns
  <2> QED BY <1>2, <1>4, <2>1, QuietExact DEF Turns
<1>5. CASE Goto(c, "failing")
  <2>1. Turns(c, "failing", call[c].bundle, call[c].ccs, call[c].engine, call[c].own, call[c].path,
              call[c].step)
    BY <1>1, <1>5, TurnsGoto
  <2> QED BY <1>4, <2>1
<1>6. ASSUME NEW y, NEW x,
             call' = [call EXCEPT ![c].pc = "verify", ![c].ranged = TRUE, ![c].exact = y, ![c].ccs = x]
      PROVE  ExactInv'
  <2>1. Turns(c, "verify", call[c].bundle, x, call[c].engine, call[c].own, call[c].path, call[c].step)
    BY <1>1, <1>6, TurnsOnCPU
  <2> QED BY <1>4, <2>1
<1> QED BY <1>5, <1>6 DEF ProveOnCPU

\* The end of the last section.
LEMMA ProvedExact ==
  ASSUME ProverInv, ExactInv, NEW c \in Calls, options' = options, Proved(c)
  PROVE  ExactInv'
<1>1. CallShaped /\ CallExact(c)
  BY DEF ProverInv, ExactInv
<1>2. /\ call[c].pc = "multiply" /\ workers' = workers /\ section' = section /\ h' = h
      /\ session' = session /\ Goto(c, "verify")
  BY DEF Proved, engineVars, fftVars
<1>3. /\ Turns(c, "verify", call[c].bundle, call[c].ccs, call[c].engine, call[c].own, call[c].path, call[c].step)
      /\ SumsStay(c)
  BY <1>1, <1>2, GotoExact
<1>4. CallExact(c)'
  BY <1>1, <1>2, <1>3, AsksSame DEF CallExact, Turns, SumsStay
<1> QED BY <1>2, <1>3, <1>4, QuietExact DEF Turns

\* An engine that is opened for a call has clean workers.
LEMMA OpensClean ==
  ASSUME EnginesShaped, NEW c \in Calls, options' = options, Opened(c, Key(c)), Sharded(c)
  PROVE  workers'[c] = CleanWorkers
BY DEF EnginesShaped, Opened, IsSharded, Sharded, CleanWorkers

\* The other engines stay as they are.
LEMMA OpensOne ==
  ASSUME EnginesShaped, NEW c, NEW key, Opened(c, key), NEW e \in Calls, e # c
  PROVE  workers'[e] = workers[e]
BY DEF EnginesShaped, Opened

\* Only the engines that are closed lose their workers.
LEMMA ClosesSome ==
  ASSUME EnginesShaped, NEW es, Closed(es), NEW e \in Calls, e \notin es
  PROVE  workers'[e] = workers[e]
BY DEF EnginesShaped, Closed

\* The engine of a call that opens it.
LEMMA OpenedExact ==
  ASSUME EnginesShaped, NEW c \in Calls, options' = options, Opened(c, Key(c))
  PROVE  EngineExact(c)'
<1>1. (Sharded(c)' <=> Sharded(c)) /\ CleanWorkers' = CleanWorkers
  BY AsksSame
<1> QED BY <1>1, OpensClean DEF EngineExact

\* prove, open-ccs, and the end of preflight.
LEMMA OpenCCSExact ==
  ASSUME ProverInv, ExactInv, NEW c \in Calls, options' = options, OpenCCS(c)
  PROVE  ExactInv'
<1>1. CallShaped /\ EnginesShaped /\ CallExact(c) /\ CallHolds(c) /\ SectionHolds /\ TransformsExact
  BY DEF ProverInv, ExactInv
<1>2. call[c].pc = "ccs" /\ mutex = c
  BY <1>1 DEF OpenCCS, CallHolds, Locked
<1>3. ASSUME UNCHANGED <<engineVars, fftVars, session, mutex>>, NEW pc \in {"path", "failing"}, NEW x,
             Turns(c, pc, call[c].bundle, x, call[c].engine, call[c].own, call[c].path, call[c].step),
             SumsStay(c), pc = "path" => Asked(c).kind = "prove" \/ call[c].engine # None
      PROVE  ExactInv'
  <2>1. CallExact(c)'
    BY <1>1, <1>2, <1>3, AsksSame DEF CallExact, Turns, SumsStay
  <2> QED BY <1>2, <1>3, <2>1, QuietExact DEF Turns, engineVars, fftVars
<1>4. ASSUME UNCHANGED <<engineVars, fftVars, session, mutex>>, NEW x,
             call' = [call EXCEPT ![c].pc = "path", ![c].ccs = x],
             Asked(c).kind = "prove" \/ call[c].engine # None
      PROVE  ExactInv'
  <2>1. Turns(c, "path", call[c].bundle, x, call[c].engine, call[c].own, call[c].path, call[c].step)
    BY <1>1, <1>4, TurnsCCS
  <2>2. SumsStay(c)
    BY <1>1, <1>4 DEF SumsStay, CallShaped, HasFields, Fields
  <2> QED BY <1>3, <1>4, <2>1, <2>2
<1>5. CASE UNCHANGED <<engineVars, fftVars, session, mutex>> /\ Goto(c, "failing")
  BY <1>1, <1>3, <1>5, GotoExact
<1>6. ASSUME NEW x,
             session' = [key |-> Key(c), bundle |-> call[c].bundle, ccs |-> System(x), engine |-> c],
             Opened(c, Key(c)), Ends(c, "ok"), UNCHANGED <<section, h>>
      PROVE  ExactInv'
  <2>1. /\ CallExact(c)' /\ call'[c].pc = "ok" /\ call'[c].engine = None
        /\ \A d \in Calls : d # c => call'[d] = call[d]
    BY <1>1, <1>6, EndExact
  <2>2. section = None /\ section' = section /\ h' = h
    BY <1>2, <1>6, NoSection
  <2>3. session'.engine = c /\ session'.key = Key(c)
    BY <1>6
  <2>4. SessionExact'
    BY <2>1, <2>3, AsksSame DEF SessionExact
  <2>5. ASSUME NEW e \in Calls, e # c PROVE EngineExact(e)'
    <3>1. workers'[e] = workers[e]
      BY <1>1, <1>6, <2>5, OpensOne
    <3> QED BY <1>2, <2>1, <2>3, <2>5, <3>1, ProverAssumption, EngineSame
  <2>6. EngineExact(c)'
    BY <1>1, <1>6, OpenedExact
  <2>7. SectionHolds'
    BY <2>2 DEF SectionHolds
  <2>8. TransformsExact'
    BY <1>1, <2>2, TransformsSame
  <2> QED BY <2>1, <2>2, <2>4, <2>5, <2>6, <2>7, <2>8, CallMoves
<1> QED BY <1>4, <1>5, <1>6 DEF OpenCCS

\* prove, probe to prove.
LEMMA SelectExact ==
  ASSUME ProverInv, ExactInv, NEW c \in Calls, options' = options, Select(c)
  PROVE  ExactInv'
<1>1. /\ CallShaped /\ EnginesShaped /\ CallExact(c) /\ CallHolds(c) /\ SectionHolds /\ TransformsExact
      /\ SessionShaped /\ call[c].own \in BOOLEAN
  BY DEF ProverInv, ExactInv, CallShaped
<1>2. call[c].pc = "select" /\ mutex = c /\ section' = section /\ h' = h
  BY <1>1 DEF Select, CallHolds, Locked
<1> DEFINE engine == IF call[c].own THEN c ELSE call[c].engine
           pc == IF IsSharded(Key(c)) THEN "multiply" ELSE "cpu"
<1>3. /\ Turns(c, pc, call[c].bundle, call[c].ccs, engine, call[c].own, call[c].path, call[c].step)
      /\ SumsStay(c)
  <2>1. call' = [call EXCEPT ![c].engine = engine, ![c].pc = pc]
    BY <1>1 DEF Select, CallShaped, HasFields, Fields
  <2> HIDE DEF engine, pc
  <2>2. SumsStay(c)
    BY <1>1, <2>1 DEF SumsStay, CallShaped, HasFields, Fields
  <2> QED BY <1>1, <2>1, <2>2, TurnsEngine
<1>4. session'.engine = session.engine /\ session'.key = session.key
  BY <1>1 DEF Select, SessionShaped, SessionFields
<1>5. engine # None /\ (engine = c \/ (engine = call[c].engine /\ call[c].engine # None))
  BY <1>1, <1>2, ProverAssumption DEF CallExact
<1>6. engine \in Calls /\ Key(engine) = Key(c)
  BY <1>1, <1>5 DEF CallExact
<1>7. (pc = "multiply" /\ ~Key(c).cpu) \/ (pc = "cpu" /\ ~Sharded(c))
  BY DEF IsSharded, Sharded
<1>8. section = None
  BY <1>2, NoSection
<1> HIDE DEF engine, pc
<1>9. CallExact(c)'
  BY <1>1, <1>2, <1>3, <1>6, <1>7, <1>8, AsksSame, ProverAssumption DEF CallExact, Turns, SumsStay
<1>10. SessionExact'
  BY <1>2, <1>3, <1>4, SessionSame DEF Turns
<1>11. ASSUME NEW e \in Calls PROVE EngineExact(e)'
  <2>1. CASE call[c].own /\ e = c
    BY <1>1, <2>1, OpenedExact DEF Select
  <2>2. CASE ~(call[c].own /\ e = c)
    <3>1. workers'[e] = workers[e]
      BY <1>1, <2>2, OpensOne DEF Select
    <3>2. call'[c].engine = e => call[c].engine = e
      BY <1>3, <2>2 DEF Turns, engine
    <3> QED BY <1>2, <1>3, <1>4, <3>1, <3>2, EngineSame DEF Turns
  <2> QED BY <2>1, <2>2
<1>12. SectionHolds'
  BY <1>2, <1>8 DEF SectionHolds
<1>13. TransformsExact'
  BY <1>1, <1>2, TransformsSame
<1> QED BY <1>2, <1>3, <1>9, <1>10, <1>11, <1>12, <1>13, CallMoves DEF Turns

----------------------------------------------------------------------------
\* A call begins.

\* A call begins that holds no lock, and no engine is in use after that.
LEMMA NobodyHolds ==
  ASSUME ProverInv, ExactInv, NEW c \in Calls, options' = options, mutex = None, call[c].pc = "idle",
         \A d \in Calls : d # c => call'[d] = call[d],
         call'[c].engine = None, session'.engine = None, NEW e \in Calls
  PROVE  EngineExact(e)'
<1>1. \A d \in Calls : call[d].engine = None
  BY ProverAssumption DEF ProverInv, CallHolds
<1>2. ~Held(e)'
  BY <1>1, ProverAssumption DEF Held
<1> QED BY <1>2 DEF EngineExact

\* The beginnings of all calls.
LEMMA BeginExact ==
  ASSUME ProverInv, ExactInv, NEW c \in Calls, options' = options, Begin(c)
  PROVE  ExactInv'
<1>1. /\ CallShaped /\ EnginesShaped /\ CallExact(c) /\ CallHolds(c) /\ SectionHolds /\ TransformsExact
      /\ SessionExact
  BY DEF ProverInv, ExactInv
<1>2. call[c].pc = "idle" /\ section' = section /\ h' = h /\ ~\E d \in Calls : Failed(d)
  BY DEF Begin, BeginPreflight, BeginProve, BeginOther
<1>3. call[c].engine = None
  BY <1>1, <1>2 DEF CallHolds, Locked
<1>4. TransformsExact'
  BY <1>1, <1>2, TransformsSame
<1>5. ASSUME mutex = None, session' = NoSession, NEW own \in BOOLEAN,
             Turns(c, "fetch", call[c].bundle, call[c].ccs, call[c].engine, own, call[c].path, call[c].step),
             SumsStay(c), own \/ Asked(c).kind # "prove"
      PROVE  ExactInv'
  <2>1. CallExact(c)'
    BY <1>1, <1>5, AsksSame DEF CallExact, Turns, SumsStay
  <2>2. session'.engine = None
    BY <1>5 DEF NoSession
  <2>3. SessionExact'
    BY <1>5, <2>2, SessionSame DEF Turns
  <2>4. \A e \in Calls : EngineExact(e)'
    BY <1>2, <1>3, <1>5, <2>2, NobodyHolds DEF Turns
  <2>5. section = None
    BY <1>2, <1>5, NoSection
  <2>6. SectionHolds'
    BY <1>2, <2>5 DEF SectionHolds
  <2> QED BY <1>2, <1>4, <1>5, <2>1, <2>3, <2>4, <2>6, CallMoves DEF Turns
<1>6. CASE mutex = None /\ BeginPreflight(c)
  <2>1. /\ Turns(c, "fetch", call[c].bundle, call[c].ccs, call[c].engine, call[c].own, call[c].path, call[c].step)
        /\ SumsStay(c)
    BY <1>1, <1>6, GotoExact DEF BeginPreflight
  <2>2. call[c].own \in BOOLEAN
    BY <1>1 DEF CallShaped
  <2> QED BY <1>5, <1>6, <2>1, <2>2 DEF BeginPreflight
<1>7. CASE mutex = None /\ session' = NoSession /\ Asked(c).kind = "prove"
           /\ call' = [call EXCEPT ![c].pc = "fetch", ![c].own = TRUE]
  <2>1. Turns(c, "fetch", call[c].bundle, call[c].ccs, call[c].engine, TRUE, call[c].path, call[c].step)
    BY <1>1, <1>7, TurnsOwn
  <2>2. SumsStay(c)
    BY <1>1, <1>7 DEF SumsStay, CallShaped, HasFields, Fields
  <2> QED BY <1>5, <1>7, <2>1, <2>2
<1>8. CASE workers' = workers /\ session' = session /\ (Goto(c, "failing") \/ Goto(c, "search"))
  <2>1. PICK pc \in {"failing", "search"} :
          /\ Turns(c, pc, call[c].bundle, call[c].ccs, call[c].engine, call[c].own, call[c].path, call[c].step)
          /\ SumsStay(c)
    BY <1>1, <1>8, GotoExact
  <2>2. CallExact(c)'
    BY <1>1, <2>1, AsksSame DEF CallExact, Turns, SumsStay
  <2> QED BY <1>2, <1>8, <2>1, <2>2, QuietExact DEF Turns
<1>9. CASE /\ mutex = None /\ workers' = workers /\ session' = session
           /\ Prepared /\ session.key = Key(c)
           /\ call' = [call EXCEPT ![c].pc = "ccs", ![c].bundle = session.bundle,
                                   ![c].engine = session.engine]
  <2>1. Turns(c, "ccs", session.bundle, call[c].ccs, session.engine, call[c].own, call[c].path, call[c].step)
    BY <1>1, <1>9, TurnsShare
  <2>2. SumsStay(c)
    BY <1>1, <1>9 DEF SumsStay, CallShaped, HasFields, Fields
  <2>3. session.engine \in Calls /\ Key(session.engine) = Key(c) /\ session.engine # None
    BY <1>1, <1>9 DEF SessionExact, Prepared
  <2>4. CallExact(c)'
    BY <1>1, <2>1, <2>2, <2>3, AsksSame DEF CallExact, Turns, SumsStay
  <2>5. SessionExact'
    BY <1>2, <1>9, <2>1, SessionSame DEF Turns
  <2>6. ASSUME NEW e \in Calls PROVE EngineExact(e)'
    BY <1>2, <1>9, <2>1, EngineSame DEF Turns
  <2>7. SectionHolds'
    BY <1>1, <1>2, <1>9, SectionSame
  <2> QED BY <1>2, <1>4, <2>1, <2>4, <2>5, <2>6, <2>7, CallMoves DEF Turns
<1>10. CASE BeginOther(c) /\ Goto(c, "probed") /\ Opened(c, Key(c))
  <2>1. /\ Turns(c, "probed", call[c].bundle, call[c].ccs, call[c].engine, call[c].own, call[c].path, call[c].step)
        /\ SumsStay(c)
    BY <1>1, <1>10, GotoExact
  <2>2. CallExact(c)'
    BY <1>1, <2>1, AsksSame DEF CallExact, Turns, SumsStay
  <2>3. session' = session
    BY <1>10 DEF BeginOther
  <2>4. SessionExact'
    BY <1>2, <2>1, <2>3, SessionSame DEF Turns
  <2>5. ASSUME NEW e \in Calls, e # c PROVE EngineExact(e)'
    <3>1. workers'[e] = workers[e]
      BY <1>1, <1>10, <2>5, OpensOne
    <3> QED BY <1>2, <2>1, <2>3, <3>1, EngineSame DEF Turns
  <2>6. EngineExact(c)'
    BY <1>1, <1>10, OpenedExact
  <2>7. SectionHolds'
    <3>1. ASSUME section # None PROVE workers'[section.engine] = workers[section.engine]
      <4>1. section.engine \in Calls /\ section.engine # c
        BY <1>2, <1>3, <3>1, SectionEngine, EngineName, ProverAssumption DEF Busy, Held
      <4> QED BY <1>1, <1>10, <4>1, OpensOne
    <3> QED BY <1>1, <1>2, <3>1, SectionSame
  <2> QED BY <1>2, <1>4, <2>1, <2>2, <2>4, <2>5, <2>6, <2>7, CallMoves DEF Turns
<1> QED BY <1>6, <1>7, <1>8, <1>9, <1>10 DEF Begin, BeginProve, BeginOther

----------------------------------------------------------------------------
\* A call ends.

\* VerifyProof and the end of prove.
LEMMA VerifyExact ==
  ASSUME ProverInv, ExactInv, NEW c \in Calls, options' = options, Verify(c)
  PROVE  ExactInv'
<1> DEFINE es == IF call[c].own THEN {c} ELSE {}
<1>1. /\ CallShaped /\ EnginesShaped /\ CallHolds(c) /\ SectionHolds /\ TransformsExact
  BY DEF ProverInv, ExactInv
<1>2. /\ call[c].pc = "verify" /\ section' = section /\ h' = h /\ session' = session
      /\ Closed(es) /\ mutex = c
  BY <1>1 DEF Verify, CallHolds, Locked
<1>3. PICK outcome \in {"ok", "failed"} : Ends(c, outcome)
  BY DEF Verify
<1>4. /\ CallExact(c)' /\ call'[c].engine = None /\ \A d \in Calls : d # c => call'[d] = call[d]
  BY <1>1, <1>3, EndExact
<1>5. SessionExact'
  BY <1>2, <1>4, SessionSame
<1>6. ASSUME NEW e \in Calls PROVE EngineExact(e)'
  <2>1. CASE e \notin es
    <3>1. workers'[e] = workers[e]
      BY <1>1, <1>2, <2>1, ClosesSome
    <3> QED BY <1>2, <1>4, <3>1, ProverAssumption, EngineSame
  <2>2. CASE e = c
    <3>1. \A d \in Calls : d # c => call[d].engine = None
      BY <1>2 DEF ProverInv, CallHolds
    <3>2. session.engine # c
      BY <1>2, ProverAssumption DEF ExactInv, SessionExact, Prepared
    <3>3. ~Held(c)'
      BY <1>2, <1>4, <3>1, <3>2, ProverAssumption DEF Held
    <3> QED BY <2>2, <3>3 DEF EngineExact
  <2> QED BY <2>1, <2>2
<1>7. SectionHolds'
  BY <1>2, NoSection DEF SectionHolds
<1>8. TransformsExact'
  BY <1>1, <1>2, TransformsSame
<1> QED BY <1>2, <1>4, <1>5, <1>6, <1>7, <1>8, CallMoves

\* Every other end of a call.
LEMMA FailExact ==
  ASSUME ProverInv, ExactInv, NEW c \in Calls, options' = options, Fail(c)
  PROVE  ExactInv'
<1> DEFINE es == IF call[c].own /\ call[c].engine # None THEN {c} ELSE {}
<1>1. /\ CallShaped /\ EnginesShaped /\ CallHolds(c) /\ SectionHolds /\ TransformsExact
  BY DEF ProverInv, ExactInv
<1>2. /\ call[c].pc = "failing" /\ section' = section /\ h' = h /\ session' = session
      /\ Closed(es) /\ Ends(c, "failed") /\ (call[c].engine # None => mutex = c)
  BY <1>1 DEF Fail, CallHolds
<1>3. /\ CallExact(c)' /\ call'[c].engine = None /\ \A d \in Calls : d # c => call'[d] = call[d]
      /\ call'[c].pc = "failed"
  BY <1>1, <1>2, EndExact
<1>4. SessionExact'
  BY <1>2, <1>3, SessionSame
<1>5. call[c].engine = None => \A e \in Calls : workers'[e] = workers[e]
  BY <1>1, <1>2, ClosesSome
<1>6. ASSUME NEW e \in Calls PROVE EngineExact(e)'
  <2>1. CASE \E d \in Calls : d # c /\ call[d].engine = e
    <3>1. call[c].engine = None
      <4>1. PICK d \in Calls : d # c /\ call[d].engine = e
        BY <2>1
      <4>2. mutex = d
        BY <4>1, ProverAssumption DEF ProverInv, CallHolds
      <4> QED BY <1>2, <4>1, <4>2
    <3> QED BY <1>2, <1>3, <1>5, <3>1, ProverAssumption, EngineSame
  <2>2. CASE \A d \in Calls : d # c => call[d].engine # e
    <3>1. Failed(c)'
      BY <1>3 DEF Failed
    <3>2. \A d \in Calls : call'[d].engine # e
      BY <1>3, <2>2, ProverAssumption
    <3>3. Abandoned(e)'
      BY <3>1, <3>2 DEF Abandoned
    <3> QED BY <3>3 DEF EngineExact
  <2> QED BY <2>1, <2>2
<1>7. SectionHolds'
  <2>1. CASE call[c].engine = None
    <3>1. section # None => workers'[section.engine] = workers[section.engine]
      BY <1>5, <2>1, SectionEngine
    <3> QED BY <1>1, <1>2, <3>1, SectionSame
  <2>2. CASE call[c].engine # None
    BY <1>2, <2>2, NoSection DEF SectionHolds
  <2> QED BY <2>1, <2>2
<1>8. TransformsExact'
  BY <1>1, <1>2, TransformsSame
<1> QED BY <1>2, <1>3, <1>4, <1>6, <1>7, <1>8, CallMoves

\* probeEngine returns.
LEMMA EndProbeExact ==
  ASSUME ProverInv, ExactInv, NEW c \in Calls, options' = options, EndProbe(c)
  PROVE  ExactInv'
<1>1. /\ CallShaped /\ EnginesShaped /\ CallHolds(c) /\ SectionHolds /\ TransformsExact
  BY DEF ProverInv, ExactInv
<1>2. /\ call[c].pc = "probed" /\ section' = section /\ h' = h /\ session' = session
      /\ Closed({c}) /\ Ends(c, "ok") /\ call[c].engine = None
  BY <1>1 DEF EndProbe, CallHolds, Locked
<1>3. /\ CallExact(c)' /\ call'[c].engine = None /\ \A d \in Calls : d # c => call'[d] = call[d]
  BY <1>1, <1>2, EndExact
<1>4. SessionExact'
  BY <1>2, <1>3, SessionSame
<1>5. ~Held(c)
  BY <1>2, EngineName, ProverAssumption
<1>6. ASSUME NEW e \in Calls PROVE EngineExact(e)'
  <2>1. CASE e # c
    <3>1. workers'[e] = workers[e]
      BY <1>1, <1>2, <2>1, ClosesSome
    <3> QED BY <1>2, <1>3, <3>1, ProverAssumption, EngineSame
  <2>2. CASE e = c
    <3>1. ~Held(c)'
      BY <1>2, <1>3, <1>5, ProverAssumption DEF Held
    <3> QED BY <2>2, <3>1 DEF EngineExact
  <2> QED BY <2>1, <2>2
<1>7. SectionHolds'
  <2>1. ASSUME section # None PROVE workers'[section.engine] = workers[section.engine]
    <3>1. section.engine \in Calls /\ section.engine # c
      BY <1>5, <2>1, SectionEngine DEF Busy, Held
    <3> QED BY <1>1, <1>2, <3>1, ClosesSome
  <2> QED BY <1>1, <1>2, <2>1, SectionSame
<1>8. TransformsExact'
  BY <1>1, <1>2, TransformsSame
<1> QED BY <1>2, <1>3, <1>4, <1>6, <1>7, <1>8, CallMoves

----------------------------------------------------------------------------
\* Sections.

\* A section begins on workers that have nothing left of an earlier one.
LEMMA BeginSectionExact ==
  ASSUME ProverInv, FilesInv, ExactInv, NEW c \in Calls, options' = options, BeginSection(c)
  PROVE  ExactInv'
<1>1. /\ CallShaped /\ CallExact(c) /\ CallHolds(c) /\ TransformsExact /\ CallFiles(c)
      /\ call[c].step \in Nat /\ options \in Scenarios
  BY DEF ProverInv, ExactInv, FilesInv, CallShaped
<1>2. /\ call[c].pc = "multiply" /\ workers' = workers /\ h' = h /\ session' = session /\ mutex = c
      /\ MSMSection(call[c].engine, call[c].step, Scalars(c), call[c].bundle, Key(c).planned)
      /\ Goto(c, "section") /\ call[c].step <= Len(Sections(c))
  BY <1>1 DEF BeginSection, fftVars, CallHolds, Locked
<1>3. /\ Turns(c, "section", call[c].bundle, call[c].ccs, call[c].engine, call[c].own, call[c].path, call[c].step)
      /\ SumsStay(c)
  BY <1>1, <1>2, GotoExact
<1>4. section'.planned = Key(c).planned /\ section'.engine = call[c].engine
  BY <1>2 DEF MSMSection
<1>5. CallExact(c)'
  BY <1>1, <1>2, <1>3, <1>4, AsksSame DEF CallExact, Turns, SumsStay, Sharded
<1>6. SessionExact'
  BY <1>2, <1>3, SessionSame DEF Turns
<1>7. \A e \in Calls : EngineExact(e)'
  BY <1>2, <1>3, EngineSame DEF Turns
<1>8. TransformsExact'
  BY <1>1, <1>2, TransformsSame
<1>9. \A d \in Calls : d # c => call[d].pc # "section"
  BY <1>2 DEF ProverInv, CallHolds, Locked
<1>10. SectionHolds'
  <2>1. CASE ~Key(c).planned
    BY <1>4, <2>1 DEF SectionHolds
  <2>2. CASE Key(c).planned
    <3>1. /\ call[c].engine # None /\ call[c].engine \in Calls /\ ~Key(c).cpu
          /\ Key(call[c].engine) = Key(c)
      BY <1>1, <1>2 DEF CallExact
    <3>2. workers[call[c].engine] = CleanWorkers
      <4>1. Sharded(call[c].engine) /\ Held(call[c].engine)
        BY <2>2, <3>1 DEF Sharded, Held
      <4>2. ~Abandoned(call[c].engine)
        BY DEF Abandoned
      <4>3. ~Busy(call[c].engine)
        <5>1. SUFFICES ASSUME NEW x \in Calls, call[x].engine = call[c].engine,
                              call[x].pc \in {"section", "demote", "failing"}
                       PROVE  FALSE
          BY DEF Busy
        <5>2. mutex = x
          BY <3>1, <5>1 DEF ProverInv, CallHolds
        <5> QED BY <1>2, <5>1, <5>2
      <4> QED BY <3>1, <4>1, <4>2, <4>3 DEF ExactInv, EngineExact
    <3>3. Arrived(call[c].bundle, 10)
      BY <1>1, <1>2, <2>2 DEF CallFiles, Plans, Locked
    <3>4. call[c].step \in DOMAIN Sections(c)
      <4>1. PICK r \in Releases : \A f \in DOMAIN call[c].bundle : call[c].bundle[f] = Content[r][f]
        BY <3>3, ArrivedCoheres
      <4>2. "pk index" \in DOMAIN call[c].bundle
        <5>1. 4 \in 1 .. 10
          OBVIOUS
        <5> QED BY <3>3, <5>1, FileNames DEF Arrived
      <4>3. call[c].bundle["pk index"] = BuildPKIndex(r)
        BY <4>1, <4>2, FilesOfRelease
      <4>4. Len(Sections(c)) \in Nat /\ DOMAIN Sections(c) = 1 .. Len(Sections(c))
        BY <4>3, IndexTyped DEF Sections
      <4>5. call[c].step # 0
        BY <1>1 DEF CallExact
      <4> QED BY <1>1, <1>2, <4>4, <4>5
    <3>5. SectionOf(call[c].bundle, call[c].step, Scalars(c))
      BY <3>3, <3>4 DEF SectionOf, Sections, Scalars
    <3> QED BY <1>1, <1>2, <2>2, <3>2, <3>5, SectionBegins
  <2> QED BY <2>1, <2>2
<1> QED BY <1>3, <1>5, <1>6, <1>7, <1>8, <1>9, <1>10, CallMoves DEF Turns

\* A section returns without an error: every shard is received with the points of its
\* own range, and every worker is as good as new.
LEMMA SectionEnds ==
  ASSUME SectionHolds, section # None, section.planned, SectionOver, section.firstErr = "none"
  PROVE  SectionExact /\ workers[section.engine] = CleanWorkers
<1>1. \A i \in Shards : Stage(i) \in {"new", "received"}
  BY DEF SectionOver, Stage
<1>2. ~Failing
  BY <1>1 DEF Failing
<1>3. ShardsRight(workers[section.engine])
  BY <1>2 DEF SectionHolds
<1>4. \A i \in Shards : ~Active(i)
  BY <1>1 DEF Active
<1>5. \A i \in Shards : Stage(i) = "received"
  BY <1>1, <1>3, <1>4 DEF ShardsRight
<1>6. SectionExact
  BY <1>3, <1>5 DEF ShardsRight, SectionExact
<1>7. \A w \in Slots : workers[section.engine][w] = newWorker
  BY <1>3, <1>5 DEF ShardsRight
<1>8. workers[section.engine] = [w \in Slots |-> workers[section.engine][w]]
  BY <1>3 DEF ShardsRight
<1> QED BY <1>6, <1>7, <1>8 DEF CleanWorkers

\* A section ends: its sum is that of every scalar once, or the proof is given up.
LEMMA EndSectionExact ==
  ASSUME ProverInv, ExactInv, NEW c \in Calls, options' = options, EndSection(c)
  PROVE  ExactInv'
<1>1. /\ CallShaped /\ CallExact(c) /\ CallHolds(c) /\ TransformsExact /\ SectionHolds
      /\ call[c].step \in Nat /\ SessionShaped
  BY DEF ProverInv, ExactInv, CallShaped
<1>2. /\ call[c].pc = "section" /\ workers' = workers /\ section' = None /\ SectionOver
      /\ section # None
  BY DEF EndSection, SectionOver
<1>3. session'.engine = session.engine /\ session'.key = session.key
  BY <1>1 DEF EndSection, SessionShaped, SessionFields
<1>4. SectionHolds'
  BY <1>2 DEF SectionHolds
<1>5. Sharded(c) => section.planned /\ section.engine = call[c].engine
  BY <1>1, <1>2 DEF CallExact
<1>6. CASE section.firstErr # "none" /\ h' = h
           /\ call' = [call EXCEPT ![c].cause = section.firstErr, ![c].pc = "demote"]
  <2>1. Turns(c, "demote", call[c].bundle, call[c].ccs, call[c].engine, call[c].own,
              call[c].path, call[c].step)
    BY <1>1, <1>6, TurnsDemoted
  <2>2. call'[c].exact = call[c].exact /\ call'[c].cause = section.firstErr
    BY <1>1, <1>6 DEF CallShaped, HasFields, Fields
  <2>3. Sharded(c) => section.firstErr = "closed"
    BY <1>1, <1>2, <1>5, <1>6 DEF SectionHolds
  <2>4. CallExact(c)'
    BY <1>1, <1>2, <2>1, <2>2, <2>3, AsksSame DEF CallExact, Turns
  <2>5. SessionExact'
    BY <1>2, <1>3, <2>1, SessionSame DEF Turns
  <2>6. \A e \in Calls : EngineExact(e)'
    BY <1>2, <1>3, <2>1, EngineSame DEF Turns
  <2>7. TransformsExact'
    BY <1>1, <1>6, TransformsSame
  <2> QED BY <1>2, <1>4, <2>1, <2>4, <2>5, <2>6, <2>7, CallMoves DEF Turns
<1>7. ASSUME NEW y, NEW z, NEW x, y = (call[c].exact /\ SectionExact), section.firstErr = "none",
             call' = [call EXCEPT ![c].pc = "multiply", ![c].step = @ + 1, ![c].exact = y,
                                  ![c].ranged = z, ![c].ccs = x],
             h' = h \/ h' = [h EXCEPT ![c] = ComputeH(call[c].engine)]
      PROVE  ExactInv'
  <2>1. Turns(c, "multiply", call[c].bundle, x, call[c].engine, call[c].own, call[c].path,
              call[c].step + 1)
    BY <1>1, <1>7, TurnsSection
  <2>2. call'[c].exact = y
    BY <1>1, <1>7 DEF CallShaped, HasFields, Fields
  <2>3. Sharded(c) => SectionExact /\ workers[call[c].engine] = CleanWorkers
    BY <1>1, <1>2, <1>5, <1>7, SectionEnds
  <2>4. call[c].step + 1 # 0
    BY <1>1
  <2>5. CallExact(c)'
    <3>1. Sharded(c) => call'[c].exact
      BY <1>1, <1>7, <2>2, <2>3 DEF CallExact
    <3> QED BY <1>1, <1>2, <2>1, <2>4, <3>1, AsksSame DEF CallExact, Turns
  <2>6. SessionExact'
    BY <1>2, <1>3, <2>1, SessionSame DEF Turns
  <2>7. ASSUME NEW e \in Calls PROVE EngineExact(e)'
    <3>1. call[c].engine = e => ~Sharded(e) \/ workers[e] = CleanWorkers
      BY <1>1, <2>3, ProverAssumption DEF CallExact, Sharded
    <3> QED BY <1>2, <1>3, <2>1, <3>1, EngineSame DEF Turns
  <2>8. TransformsExact'
    <3>1. CASE h' = h
      BY <1>1, <3>1, TransformsSame
    <3>2. CASE h' = [h EXCEPT ![c] = ComputeH(call[c].engine)]
      <4> DEFINE vec == [v \in Vectors |-> Vector("idle", 0)]
                 t == ComputeH(call[c].engine)
      <4>1. t = [f \in {"engine", "phase", "vec"} |-> t[f]] /\ t.vec = vec /\ t.phase = 0
        BY DEF ComputeH
      <4>2. vec = [v \in Vectors |-> vec[v]] /\ \A v \in Vectors : InPhase(vec[v], 0)
        BY VectorIs
      <4> HIDE DEF vec, t
      <4>3. h' = [h EXCEPT ![c] = t]
        BY <3>2 DEF t
      <4> QED BY <1>1, <4>1, <4>2, <4>3, TransformsOf
    <3> QED BY <1>7, <3>1, <3>2
  <2> QED BY <1>2, <1>4, <2>1, <2>5, <2>6, <2>7, <2>8, CallMoves DEF Turns
<1>8. CASE section.firstErr # "none"
  BY <1>6, <1>8 DEF EndSection
<1>9. CASE section.firstErr = "none"
  <2> DEFINE y == call[c].exact /\ SectionExact
             z == call[c].ranged \/ ~section.planned
             x == IF call[c].step = FirstHSection THEN Release(Key(c), call[c].ccs) ELSE call[c].ccs
  <2>1. /\ call' = [call EXCEPT ![c].pc = "multiply", ![c].step = @ + 1, ![c].exact = y,
                                ![c].ranged = z, ![c].ccs = x]
        /\ h' = h \/ h' = [h EXCEPT ![c] = ComputeH(call[c].engine)]
    BY <1>9 DEF EndSection
  <2> QED BY <1>7, <1>9, <2>1
<1> QED BY <1>8, <1>9

----------------------------------------------------------------------------
\* All steps.

\* A step of a call.
LEMMA CallStepKeepsExact ==
  ASSUME ProverInv, FilesInv, ExactInv, NEW c \in Calls, CallStep(c)
  PROVE  ExactInv'
<1>1. options' = options
  BY DEF CallStep
<1>2. CASE Begin(c) \/ Fetch(c) \/ OpenCCS(c) \/ Search(c) \/ Cache(c)
  BY <1>1, <1>2, BeginExact, FetchExact, OpenCCSExact, SearchExact, CacheExact
<1>3. CASE FindPath(c) \/ Find(c) \/ Select(c) \/ BeginSection(c) \/ EndSection(c)
  BY <1>1, <1>3, PathExact, SelectExact, BeginSectionExact, EndSectionExact
<1>4. CASE \/ WithFallbackReload(c) \/ ProveOnCPU(c) \/ Proved(c) \/ Verify(c) \/ Fail(c)
           \/ EndProbe(c)
  BY <1>1, <1>4, ReloadExact, OnCPUExact, ProvedExact, VerifyExact, FailExact, EndProbeExact
<1> QED BY <1>2, <1>3, <1>4 DEF CallStep

\* A fresh instance that transforms nothing yet.
BlankRun == Blank /\ options \in Scenarios /\ h = [c \in Calls |-> Nothing]

\* There is nothing to be exact about in it.
LEMMA BlankExact == BlankRun => ExactInv
<1> SUFFICES ASSUME BlankRun PROVE ExactInv
  OBVIOUS
<1>1. \A c \in Calls : /\ call[c].pc = "idle" /\ call[c].engine = None /\ ~call[c].own
                       /\ call[c].step = 1 /\ call[c].exact = TRUE
  BY DEF BlankRun, Blank, NewCall
<1>2. \A c \in Calls : CallExact(c)
  BY <1>1 DEF CallExact
<1>3. session.engine = None
  BY DEF BlankRun, Blank, NoSession
<1>4. SessionExact
  BY <1>3 DEF SessionExact, Prepared
<1>5. ASSUME NEW e \in Calls PROVE EngineExact(e)
  <2>1. ~Held(e)
    BY <1>1, <1>3, ProverAssumption DEF Held
  <2> QED BY <2>1 DEF EngineExact
<1>6. SectionHolds
  BY DEF BlankRun, Blank, SectionHolds
<1>7. TransformsExact
  BY DEF BlankRun, TransformsExact, Running
<1> QED BY <1>2, <1>4, <1>5, <1>6, <1>7 DEF BlankRun, ExactInv

\* Every step.
LEMMA NextKeepsExact ==
  ASSUME ProverInv, FilesInv, ExactInv, [Next]_vars
  PROVE  ExactInv'
<1>1. CASE Terminate
  <2>1. BlankRun'
    BY <1>1 DEF Terminate, BlankRun, Blank, ExactInv
  <2> QED BY <2>1, BlankExact, PTL
<1>2. CASE UNCHANGED vars
  <2>1. /\ UNCHANGED <<options, callVars>>
        /\ options' = options /\ workers' = workers /\ section' = section /\ h' = h
    BY <1>2 DEF vars, engineVars, fftVars
  <2>2. options' \in Scenarios /\ (\A c \in Calls : CallExact(c)') /\ SessionExact'
    BY <2>1, CallsSame
  <2>3. \A e \in Calls : EngineExact(e)'
    BY <2>1, EnginesSame
  <2>4. SectionHolds' /\ TransformsExact'
    BY <2>1, SectionSame, TransformsSame DEF ExactInv
  <2> QED BY <2>2, <2>3, <2>4 DEF ExactInv
<1>3. ASSUME NEW c \in Calls, CallStep(c) \/ TransformStep(c) PROVE ExactInv'
  BY <1>3, CallStepKeepsExact, TransformStepKeepsExact
<1>4. CASE SectionStep \/ WorkerStep
  BY <1>4, SectionStepKeepsExact, WorkerStepKeepsExact
<1> QED BY <1>1, <1>2, <1>3, <1>4 DEF Next

\* What the invariant says of a proof that gets to its verification.
LEMMA ExactIsProof == ExactInv => ProofIsExact
<1> SUFFICES ASSUME ExactInv, NEW c \in Calls, call[c].pc = "verify", Key(c).planned, ~Key(c).cpu
             PROVE  call[c].exact /\ VectorsExact(c)
  BY DEF ProofIsExact
<1>1. call[c].exact
  BY DEF ExactInv, CallExact, Sharded
<1>2. VectorsExact(c)
  BY DEF ExactInv, TransformsExact, VectorHolds, VectorsExact, OverH
<1> QED BY <1>1, <1>2

\* On the sharded engine (MSMSection, runPlannedG1Range, fftPool.transform): a proof with
\* section plans that gets to its local verification has multiplied every scalar of every
\* section once with the point that the manifest pins, and has transformed every vector
\* once per phase, whatever failed, expired, came too late or was done again on the way.
THEOREM ProofsAreExact == Spec => []ProofIsExact
<1>1. Init => FilesInv /\ ExactInv
  BY BlankFiles, BlankExact DEF Init, BlankRun, Blank
<1>2. Spec => []FilesInv
  BY <1>1, NextKeepsFiles, ProverIsConsistent, PTL DEF Spec
<1>3. Spec => []ExactInv
  BY <1>1, <1>2, NextKeepsExact, ProverIsConsistent, PTL DEF Spec
<1> QED BY <1>3, ExactIsProof, PTL
=============================================================================
