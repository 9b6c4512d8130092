-------------------------- MODULE SectionScheduler --------------------------
(***************************************************************************)
(* The asynchronous section scheduler of the browser prover                *)
(* (internal/msmengine): a section's multi-scalar multiplication is cut    *)
(* into shards, the shards wait in one bounded queue, each worker slot has *)
(* at most one goroutine that posts a shard to its Web Worker and waits    *)
(* for the reply, and the caller collects one sum per section.  Replies    *)
(* may be lost, late or errors; a failed shard is retried, on a fresh      *)
(* worker where the old one can no longer be trusted; the first failure    *)
(* that is not retried ends every section.                                 *)
(*                                                                         *)
(* A partial sum is the set of scalar positions it adds up; scalars that   *)
(* were zeroed before the kernel read them add up to nothing.              *)
(***************************************************************************)
EXTENDS ShardRanges

CONSTANTS Handles,      \* the sections a proof dispatches
          Workers,        \* number of worker slots, 0 .. Workers - 1
          Engines,        \* how the engine may have been created, see below
          None

\* size[h] scalars are in section h, which is cut into shards; the queue takes
\* shards * multiplier of them (asyncQueueShardMultiplier); a shard is tried
\* attempts times (asyncShardMaxAttempts); with w7, shards stay on the worker
\* of their block.
ASSUME SchedulerAssumption ==
    /\ Workers \in Nat \ {0}
    /\ Engines \subseteq [size : [Handles -> Nat], shards : Nat \ {0},
                          multiplier : Nat \ {0}, attempts : Nat \ {0}, w7 : BOOLEAN]

Stages == {"run", "wait", "store", "count", "settle", "free",
           "error", "replace", "again", "backoff"}

\* A shard to work on, a partial sum with the section it is of, a goroutine.
Task == [handle : Handles, index : Nat, id : Nat, attempt : Nat, affinity : Int]
Sum == Handles \X SUBSET Nat
Goroutines == [task : Task, stage : Stages, cause : {None, "fetch", "fatal", "lost"},
               part : Sum \cup {None}]

ASSUME NoneAssumption == None \notin Goroutines \cup Sum \cup {"fetch", "fatal", "lost"}

VARIABLES engine,       \* the parameters this engine was created with
          queue,        \* shards waiting; request ids give their order
          busy,           \* busy[w]: the slot is taken
          job,            \* job[w]: the goroutine that holds slot w, or None
          terminal,       \* the scheduler has failed; its cancel channel is closed
          closed,         \* the worker pool is closed
          nextRequestID,
          handles,        \* the sections fail() would end
          outcome,        \* a section's collectionState
          pending,        \* shards of a section not completed yet
          parts,          \* parts[h][i]: partial sum of shard i, or None
          result,         \* what a successful collect returned, or None
          freed,          \* a collect dropped the section's scalars and parts
          working,        \* requests the worker of a slot has not answered
          replies         \* the one-element reply channel of that worker

pool == <<closed, working, replies>>
sections == <<handles, outcome, pending, parts, result, freed>>
vars == <<engine, queue, busy, job, terminal, nextRequestID, pool, sections>>

Slots == 0 .. Workers - 1

Size == engine.size
Shards == engine.shards
Multiplier == engine.multiplier
MaxAttempts == engine.attempts
OptW7 == engine.w7
-----------------------------------------------------------------------------
(* How a section is cut, and which slot a shard belongs to. *)

Ranges == [h \in Handles |-> nonEmptyRanges(partitionRanges(Size[h], Shards))]

\* Shards that may be queued and in flight together.
asyncQueueCapacity == Shards * Multiplier

inFlight == Cardinality({w \in Slots : busy[w]})

asyncQueueHasCapacity(incoming) ==
    Cardinality(queue) + inFlight + incoming <= asyncQueueCapacity
-----------------------------------------------------------------------------
(* Sections. *)

\* Mutant of Completed: the last completion stands.
CompletedOverwriting(state, value) == value

\* collectionState.complete: the first completion stands.
Completed(state, value) == IF state = "open" THEN value ELSE state

\* A goroutine: its shard, what it does next, and what its wait ended with.
Job(task, stage) == [task |-> task, stage |-> stage, cause |-> None, part |-> None]

\* pumpLocked: which queued shard each idle slot takes.  Slots are visited in
\* order; each takes the oldest shard left, with OptW7 the oldest of its own.
Taken(q, b) ==
    LET Idle == {w \in Slots : ~b[w]}
        Before(t) == {u \in q : u.id < t.id}
        Choices(w) ==
            IF OptW7
            THEN {t \in q : t.affinity = w /\ \A u \in Before(t) : u.affinity # w}
            ELSE {t \in q : Cardinality(Before(t)) = Cardinality({v \in Idle : v < w})}
    IN [w \in {v \in Idle : Choices(v) # {}} |-> CHOOSE t \in Choices(w) : TRUE]

\* Mutant of pumpLocked: the slot that gets a shard is not marked.
pumpLockedUnmarked(q, b, j) ==
    LET take == Taken(q, b)
    IN /\ queue' = q \ {take[w] : w \in DOMAIN take}
       /\ busy' = b
       /\ job' = [w \in Slots |-> IF w \in DOMAIN take THEN Job(take[w], "run") ELSE j[w]]

\* pumpLocked, on the queue, slots and goroutines as the caller leaves them.
pumpLocked(q, b, j) ==
    LET take == Taken(q, b)
    IN /\ queue' = q \ {take[w] : w \in DOMAIN take}
       /\ busy' = [w \in Slots |-> b[w] \/ w \in DOMAIN take]
       /\ job' = [w \in Slots |-> IF w \in DOMAIN take THEN Job(take[w], "run") ELSE j[w]]

Refuse(h) ==
    /\ outcome' = [outcome EXCEPT ![h] = "refused"]
    /\ UNCHANGED <<queue, busy, job, terminal, nextRequestID, pool,
                   handles, pending, parts, result, freed>>

Enqueue(h) ==
    LET count == Len(Ranges[h])
        tasks == {[handle |-> h, index |-> i, id |-> nextRequestID + i, attempt |-> 1,
                   affinity |-> IF OptW7 THEN workerForShard(i - 1, count, Workers) ELSE -1] :
                     i \in 1 .. count}
    IN /\ handles' = handles \cup {h}
       /\ outcome' = [outcome EXCEPT ![h] = "open"]
       /\ pending' = [pending EXCEPT ![h] = count]
       /\ parts' = [parts EXCEPT ![h] = [i \in 1 .. count |-> None]]
       /\ nextRequestID' = nextRequestID + count
       /\ pumpLocked(queue \cup tasks, busy, job)
       /\ UNCHANGED <<terminal, pool, result, freed>>

\* Mutant of dispatchSection: the scheduler's terminal error is not looked at.
dispatchSectionAfterFailure(h) ==
    /\ outcome[h] = "new"
    /\ Size[h] > 0
    /\ IF asyncQueueHasCapacity(Len(Ranges[h])) THEN Enqueue(h) ELSE Refuse(h)

\* DispatchG1Section, DispatchG2Section.  A section without scalars is
\* complete at once and never reaches the scheduler.
dispatchSection(h) ==
    /\ outcome[h] = "new"
    /\ \/ /\ Ranges[h] = <<>>
          /\ outcome' = [outcome EXCEPT ![h] = "ok"]
          /\ parts' = [parts EXCEPT ![h] = <<>>]
          /\ UNCHANGED <<queue, busy, job, terminal, nextRequestID, pool,
                         handles, pending, result, freed>>
       \/ /\ Ranges[h] # <<>>
          /\ IF ~terminal /\ asyncQueueHasCapacity(Len(Ranges[h]))
             THEN Enqueue(h)
             ELSE Refuse(h)

\* Mutant of Collect: a section that failed is released too.
CollectFreeing(h) ==
    /\ outcome[h] \in {"ok", "error"}
    /\ ~freed[h]
    /\ result' = IF outcome[h] = "ok" THEN [result EXCEPT ![h] = parts[h]] ELSE result
    /\ freed' = [freed EXCEPT ![h] = TRUE]
    /\ parts' = [parts EXCEPT ![h] = <<>>]
    /\ handles' = handles \ {h}
    /\ UNCHANGED <<queue, busy, job, terminal, nextRequestID, pool, outcome, pending>>

\* CollectG1Section, CollectG2Section, once the section is complete.  After an
\* error nothing is released: goroutines of the section may still be running.
\* A second collect of the same section is refused and changes nothing.
Collect(h) ==
    /\ outcome[h] = "ok"
    /\ ~freed[h]
    /\ result' = [result EXCEPT ![h] = parts[h]]
    /\ parts' = [parts EXCEPT ![h] = <<>>]
    /\ freed' = [freed EXCEPT ![h] = TRUE]
    /\ handles' = handles \ {h}
    /\ UNCHANGED <<queue, busy, job, terminal, nextRequestID, pool, outcome, pending>>
-----------------------------------------------------------------------------
(* Failure. *)

\* fail, under the scheduler's lock: only the first failure has an effect.
\* j is the goroutines as the caller leaves them.  The pool is closed after the
\* lock is released (ClosePool).
fail(j) ==
    /\ job' = j
    /\ \/ /\ terminal
          /\ UNCHANGED <<queue, busy, terminal, handles, outcome>>
       \/ /\ ~terminal
          /\ terminal' = TRUE
          /\ queue' = {}
          /\ busy' = [w \in Slots |-> FALSE]
          /\ outcome' = [h \in Handles |-> IF h \in handles
                                             THEN Completed(outcome[h], "error")
                                             ELSE outcome[h]]
          /\ handles' = {}
    /\ UNCHANGED <<nextRequestID, pool, pending, parts, result, freed>>

\* CancelOutstanding: an aborted proof, or Close.  There is no scheduler to
\* cancel before the first section that has shards.
CancelOutstanding ==
    /\ ~terminal
    /\ \E h \in Handles : outcome[h] # "new" /\ Ranges[h] # <<>>
    /\ fail(job)

\* workerPool.close, by whoever failed the scheduler: the workers are
\* terminated and their handlers unhooked; a delivered reply stays readable.
ClosePool ==
    /\ terminal
    /\ ~closed
    /\ closed' = TRUE
    /\ working' = [w \in Slots |-> {}]
    /\ UNCHANGED <<queue, busy, job, terminal, nextRequestID, replies, sections>>
-----------------------------------------------------------------------------
(* The Web Workers. *)

\* The reply channel holds one reply; what does not fit is dropped.
Deliver(w, reply) ==
    replies' = IF replies[w] = None THEN [replies EXCEPT ![w] = reply] ELSE replies

\* The kernel's answer to a request: the partial sum of the scalars it read, a
\* chunk fetch the worker lets the engine retry, or any other failure (digest
\* mismatch, compute error, undecodable partial, missing W7 acknowledgement).
\* A request whose wait has ended may find its scalars zeroed.
WorkerAnswers(w) ==
    \E r \in working[w] :
        /\ working' = [working EXCEPT ![w] = @ \ {r}]
        /\ \E kind \in {"partial", "fetch", "fatal"} :
           \E sum \in {Ranges[r.handle][r.index]} \cup (IF r.intact THEN {} ELSE {{}}) :
                Deliver(w, [kind |-> kind, id |-> r.id,
                            part |-> IF kind = "partial" THEN <<r.handle, sum>> ELSE None])
        /\ UNCHANGED <<queue, busy, job, terminal, nextRequestID, closed, sections>>

\* onerror and init-error: the reply names no request.  The worker may go on
\* with what it has.
WorkerErrors(w) ==
    /\ ~closed
    /\ replies[w] = None
    /\ Deliver(w, [kind |-> "lost", id |-> 0, part |-> None])
    /\ UNCHANGED <<queue, busy, job, terminal, nextRequestID, closed, working, sections>>
-----------------------------------------------------------------------------
(* The goroutine of a slot. *)

At(w, stage) == job[w] # None /\ job[w].stage = stage
Goto(w, stage) == job' = [job EXCEPT ![w].stage = stage]
Ended(w) == [job EXCEPT ![w] = None]

\* run, up to the wait: the shard's scalars are copied out and posted.
Run(w) ==
    /\ At(w, "run")
    /\ IF closed
       THEN fail(Ended(w))
       ELSE /\ working' = [working EXCEPT ![w] = @ \cup
                    {[id |-> job[w].task.id, handle |-> job[w].task.handle,
                      index |-> job[w].task.index, intact |-> TRUE]}]
            /\ Goto(w, "wait")
            /\ UNCHANGED <<queue, busy, terminal, nextRequestID, closed, replies, sections>>

\* The wait is over: the copied scalars are zeroed, and the goroutine goes on
\* with a partial sum or with the reason there is none.
WaitEnds(w, part, cause) ==
    /\ job' = [job EXCEPT ![w].part = part, ![w].cause = cause,
                          ![w].stage = IF cause = None THEN "store" ELSE "error"]
    /\ working' = [working EXCEPT ![w] =
            {IF r.id = job[w].task.id THEN [r EXCEPT !.intact = FALSE] ELSE r : r \in @}]
    /\ UNCHANGED <<queue, busy, terminal, nextRequestID, closed, sections>>

\* A reply arrives.  An error reply is classified by its code alone; a partial
\* sum must carry the id of the request.
TakeReply(w) ==
    /\ At(w, "wait")
    /\ replies[w] # None
    /\ replies' = [replies EXCEPT ![w] = None]
    /\ LET reply == replies[w]
       IN IF reply.kind = "partial"
          THEN IF reply.id = job[w].task.id
               THEN WaitEnds(w, reply.part, None)
               ELSE WaitEnds(w, None, "fatal")
          ELSE WaitEnds(w, None, reply.kind)

\* Mutant of WaitExpires: no deadline.
WaitExpiresOnlyOnCancel(w) ==
    /\ At(w, "wait")
    /\ terminal
    /\ UNCHANGED replies
    /\ WaitEnds(w, None, "fatal")

\* The other ends of the wait: cancellation, and the inactivity or the
\* absolute deadline, after which the worker counts as terminated.
WaitExpires(w) ==
    /\ At(w, "wait")
    /\ UNCHANGED replies
    /\ \/ terminal /\ WaitEnds(w, None, "fatal")
       \/ WaitEnds(w, None, "lost")

\* run, the partial sum: it goes to the shard's place in the section.
Store(w) ==
    /\ At(w, "store")
    /\ parts' = [parts EXCEPT ![job[w].task.handle][job[w].task.index] = job[w].part]
    /\ Goto(w, "count")
    /\ UNCHANGED <<queue, busy, terminal, nextRequestID, pool,
                   handles, outcome, pending, result, freed>>

\* complete, the section's counter.
Count(w) ==
    /\ At(w, "count")
    /\ LET h == job[w].task.handle
       IN /\ pending' = [pending EXCEPT ![h] = @ - 1]
          /\ Goto(w, IF pending[h] = 1 THEN "settle" ELSE "free")
    /\ UNCHANGED <<queue, busy, terminal, nextRequestID, pool,
                   handles, outcome, parts, result, freed>>

\* complete, the last shard of a section.
Settle(w) ==
    /\ At(w, "settle")
    /\ outcome' = [outcome EXCEPT ![job[w].task.handle] = Completed(@, "ok")]
    /\ Goto(w, "free")
    /\ UNCHANGED <<queue, busy, terminal, nextRequestID, pool,
                   handles, pending, parts, result, freed>>

\* complete, the slot: it is given up and the queue is pumped, unless the
\* scheduler has failed.
Free(w) ==
    /\ At(w, "free")
    /\ LET b == [busy EXCEPT ![w] = FALSE]
       IN IF terminal
          THEN busy' = b /\ job' = Ended(w) /\ UNCHANGED queue
          ELSE pumpLocked(queue, b, Ended(w))
    /\ UNCHANGED <<terminal, nextRequestID, pool, sections>>

\* Mutant of Retry: the same worker is asked again under the same request id.
RetrySameRequest(w) ==
    /\ At(w, "error")
    /\ IF job[w].cause = "fatal" \/ job[w].task.attempt >= MaxAttempts
       THEN fail(Ended(w))
       ELSE /\ job' = IF terminal THEN Ended(w)
                      ELSE [job EXCEPT ![w].task.attempt = @ + 1, ![w].stage = "backoff",
                                       ![w].cause = None]
            /\ UNCHANGED <<queue, busy, terminal, nextRequestID, pool, sections>>

\* retry, whether there is another attempt; a worker that counts as terminated
\* is replaced first.
Retry(w) ==
    /\ At(w, "error")
    /\ IF job[w].cause = "fatal" \/ job[w].task.attempt >= MaxAttempts
       THEN fail(Ended(w))
       ELSE /\ job' = IF terminal THEN Ended(w)
                      ELSE [job EXCEPT ![w].stage =
                                IF job[w].cause = "lost" THEN "replace" ELSE "again"]
            /\ UNCHANGED <<queue, busy, terminal, nextRequestID, pool, sections>>

\* workerPool.replace: a new worker with an empty reply channel; the old one is
\* terminated with whatever it was doing.
Replace(w) ==
    /\ At(w, "replace")
    /\ IF closed
       THEN fail(Ended(w))
       ELSE /\ working' = [working EXCEPT ![w] = {}]
            /\ replies' = [replies EXCEPT ![w] = None]
            /\ Goto(w, "again")
            /\ UNCHANGED <<queue, busy, terminal, nextRequestID, closed, sections>>

\* retry, the new request.
Again(w) ==
    /\ At(w, "again")
    /\ \/ /\ terminal
          /\ job' = Ended(w)
          /\ UNCHANGED nextRequestID
       \/ /\ ~terminal
          /\ nextRequestID' = nextRequestID + 1
          /\ job' = [job EXCEPT ![w].task.attempt = @ + 1,
                                ![w].task.id = nextRequestID + 1,
                                ![w].cause = None, ![w].stage = "backoff"]
    /\ UNCHANGED <<queue, busy, terminal, pool, sections>>

\* retry, the backoff timer or the cancellation, whichever is seen first.
Backoff(w) ==
    /\ At(w, "backoff")
    /\ \/ Goto(w, "run")
       \/ terminal /\ job' = Ended(w)
    /\ UNCHANGED <<queue, busy, terminal, nextRequestID, pool, sections>>
-----------------------------------------------------------------------------
Init ==
    /\ engine \in Engines
    /\ queue = {}
    /\ busy = [w \in Slots |-> FALSE]
    /\ job = [w \in Slots |-> None]
    /\ terminal = FALSE
    /\ closed = FALSE
    /\ nextRequestID = 0
    /\ handles = {}
    /\ outcome = [h \in Handles |-> "new"]
    /\ pending = [h \in Handles |-> 0]
    /\ parts = [h \in Handles |-> <<>>]
    /\ result = [h \in Handles |-> None]
    /\ freed = [h \in Handles |-> FALSE]
    /\ working = [w \in Slots |-> {}]
    /\ replies = [w \in Slots |-> None]

Goroutine(w) ==
    /\ UNCHANGED engine
    /\ \/ Run(w) \/ TakeReply(w) \/ WaitExpires(w)
       \/ Store(w) \/ Count(w) \/ Settle(w) \/ Free(w)
       \/ Retry(w) \/ Replace(w) \/ Again(w) \/ Backoff(w)

Shutdown == ClosePool /\ UNCHANGED engine

Next ==
    \/ \E w \in Slots : Goroutine(w)
    \/ Shutdown
    \/ /\ UNCHANGED engine
       /\ \/ \E h \in Handles : dispatchSection(h) \/ Collect(h)
          \/ CancelOutstanding
          \/ \E w \in Slots : WorkerAnswers(w) \/ WorkerErrors(w)

Spec == Init /\ [][Next]_vars

\* The Go scheduler runs every goroutine that is not blocked, and a wait is
\* never blocked for good: its absolute deadline ends it.  Nothing is assumed
\* of the workers.
FairSpec ==
    /\ Spec
    /\ \A w \in Slots : WF_vars(Goroutine(w))
    /\ WF_vars(Shutdown)
-----------------------------------------------------------------------------
\* A task of this engine, numbered and tried as far as the scheduler has come.
ValidTask(t) ==
    /\ t \in Task
    /\ t.index \in 1 .. Len(Ranges[t.handle])
    /\ t.id \in 1 .. nextRequestID
    /\ t.attempt \in 1 .. MaxAttempts
    /\ t.affinity \in {-1} \cup Slots

PerSection(f) == f = [h \in Handles |-> f[h]]

\* The shapes of the scheduler's, the sections' and the workers' state.
TypeOK ==
    /\ engine \in Engines
    /\ IsFiniteSet(queue)
    /\ \A t \in queue : ValidTask(t)
    /\ busy \in [Slots -> BOOLEAN]
    /\ job \in [Slots -> Goroutines \cup {None}]
    /\ \A w \in Slots : job[w] # None => ValidTask(job[w].task)
    /\ terminal \in BOOLEAN /\ closed \in BOOLEAN
    /\ nextRequestID \in Nat
    /\ handles \subseteq Handles
    /\ outcome \in [Handles -> {"new", "open", "ok", "error", "refused"}]
    /\ pending \in [Handles -> Nat]
    /\ \A h \in Handles : pending[h] \in 0 .. Len(Ranges[h])
    /\ freed \in [Handles -> BOOLEAN]
    /\ PerSection(parts) /\ PerSection(result)
    /\ working \in [Slots -> SUBSET [id : 1 .. nextRequestID, handle : Handles,
                                     index : Nat, intact : BOOLEAN]]
    /\ \A w \in Slots : \A r \in working[w] : r.index \in 1 .. Len(Ranges[r.handle])
    /\ replies \in [Slots -> [kind : {"partial", "fetch", "fatal", "lost"},
                              id : 0 .. nextRequestID, part : Sum \cup {None}] \cup {None}]

\* What combineG1 and combineG2 add up is the section: every scalar position
\* exactly once, and nothing of another section.
ExactSum ==
    \A h \in Handles : result[h] # None =>
        /\ \A i \in DOMAIN result[h] : result[h][i] # None /\ result[h][i][1] = h
        /\ \A i, k \in DOMAIN result[h] :
                i # k => result[h][i][2] \cap result[h][k][2] = {}
        /\ UNION {result[h][i][2] : i \in DOMAIN result[h]} = 0 .. Size[h] - 1

\* A slot is marked busy exactly while a goroutine holds it, and every shard of
\* an open section that is not counted yet is in the queue or with a goroutine.
NoShardLost ==
    ~terminal =>
        /\ \A w \in Slots : busy[w] <=> job[w] # None
        /\ \A h \in Handles : pending[h] =
            Cardinality({t \in queue : t.handle = h})
            + Cardinality({w \in Slots : job[w] # None /\ job[w].task.handle = h
                                         /\ job[w].stage \notin {"settle", "free"}})

\* The queue and the shards in flight together never exceed the bound.
QueueBounded == Cardinality(queue) + inFlight <= asyncQueueCapacity

\* The bookkeeping of slots, queue and sections is sound: shapes, the bound of
\* the queue, and no shard that nobody works on.
SchedulerInv == TypeOK /\ QueueBounded /\ NoShardLost

\* After the scheduler fails, no section is left open for a collect to wait on.
FailureSettlesAll == terminal => \A h \in Handles : outcome[h] # "open"

\* A goroutine that still reads a section's scalars or writes its parts never
\* meets a section that a collect has released.
NoUseAfterCollect ==
    \A w \in Slots :
        job[w] # None /\ job[w].stage \in {"run", "wait", "store", "error", "replace",
                                           "again", "backoff"}
            => ~freed[job[w].task.handle]

\* Every open section is one that fail() knows of, until fail() has been there:
\* the inductive strengthening of FailureSettlesAll.
OpenIsRegistered ==
    /\ outcome \in [Handles -> {"new", "open", "ok", "error", "refused"}]
    /\ handles \subseteq Handles
    /\ terminal \in BOOLEAN
    /\ \A h \in Handles : outcome[h] = "open" => h \in handles
    /\ terminal => handles = {}

\* The outcome a section has settled on never changes: a late shard cannot turn
\* a failure into a success, nor a failure elsewhere a success into an error.
OutcomeFinal ==
    [][\A h \in Handles : outcome[h] \in {"ok", "error"} => outcome'[h] = outcome[h]]_vars

\* Every collect returns: an open section is settled, whatever the workers do.
CollectReturns ==
    \A h \in Handles : outcome[h] = "open" ~> outcome[h] \in {"ok", "error"}

-----------------------------------------------------------------------------
(* The inductive invariant. *)

\* A goroutine that still owes the partial sum of its shard.
Owes(w) == job[w] # None /\ job[w].stage \notin {"count", "settle", "free"}

SameShard(t, u) == t.handle = u.handle /\ t.index = u.index

\* A section with shards to add up or added up, not yet collected.
Live(h) == outcome[h] \notin {"new", "refused"} /\ ~freed[h]

Missing(h) == {i \in 1 .. Len(Ranges[h]) : parts[h][i] = None}
Counting(h) == {w \in Slots : At(w, "count") /\ job[w].task.handle = h}

\* A shard and a request id belong to one task in the queue or with a goroutine.
HeldOnce ==
    /\ \A t, u \in queue : t.id = u.id \/ SameShard(t, u) => t = u
    /\ \A t \in queue, w \in Slots :
            Owes(w) => t.id # job[w].task.id /\ ~SameShard(t, job[w].task)
    /\ \A v, w \in Slots : Owes(v) /\ Owes(w) /\ SameShard(job[v].task, job[w].task) => v = w

\* Whatever is queued or owed has no partial sum yet, in a section that is live;
\* the last counted shard leaves nothing pending.
NotSummedTwice ==
    /\ \A t \in queue : Live(t.handle) /\ parts[t.handle][t.index] = None
    /\ \A w \in Slots : Owes(w) =>
            Live(job[w].task.handle) /\ parts[job[w].task.handle][job[w].task.index] = None
    /\ \A w \in Slots : At(w, "count") => Live(job[w].task.handle)
    /\ \A w \in Slots : At(w, "settle") =>
            pending[job[w].task.handle] = 0 /\ outcome[job[w].task.handle] \notin {"new", "refused"}

\* pending is the number of shards without a sum and of sums not counted yet.
PendingIsExact ==
    \A h \in Handles :
        /\ IF Live(h)
           THEN /\ parts[h] \in [1 .. Len(Ranges[h]) -> Sum \cup {None}]
                /\ pending[h] = Cardinality(Missing(h)) + Cardinality(Counting(h))
           ELSE pending[h] = 0
        /\ outcome[h] = "ok" => pending[h] = 0
        /\ freed[h] => outcome[h] = "ok"

\* Every sum that is stored, about to be stored or returned is that of its shard.
SumsAreRight ==
    /\ \A h \in Handles : Live(h) =>
            \A i \in 1 .. Len(Ranges[h]) : parts[h][i] \in {None, <<h, Ranges[h][i]>>}
    /\ \A w \in Slots : At(w, "store") =>
            job[w].part = <<job[w].task.handle, Ranges[job[w].task.handle][job[w].task.index]>>
    /\ \A h \in Handles : result[h] # None =>
            result[h] = [i \in 1 .. Len(Ranges[h]) |-> <<h, Ranges[h][i]>>]

\* A request id that was never posted to the worker of slot w.
Unused(w, id) ==
    /\ \A r \in working[w] : r.id # id
    /\ replies[w] # None => replies[w].id # id

\* Requests are posted under fresh ids, and while a goroutine waits the request
\* with its id is its own and its scalars are intact.
RequestsAreFresh ==
    /\ \A t \in queue, w \in Slots : Unused(w, t.id)
    /\ \A w \in Slots : At(w, "run") \/ At(w, "backoff") => Unused(w, job[w].task.id)
    /\ \A w \in Slots : At(w, "wait") =>
            /\ \A r \in working[w] : r.id = job[w].task.id => SameShard(r, job[w].task) /\ r.intact
            /\ replies[w] # None /\ replies[w].id = job[w].task.id /\ replies[w].kind = "partial" =>
                    replies[w].part = <<job[w].task.handle, Ranges[job[w].task.handle][job[w].task.index]>>

\* A shard is numbered for another attempt only while it has one left.
AttemptsLeft ==
    \A w \in Slots : At(w, "replace") \/ At(w, "again") => job[w].task.attempt < MaxAttempts

\* The inductive invariant behind SchedulerInv, ExactSum and NoUseAfterCollect.
ShardInv ==
    /\ TypeOK
    /\ HeldOnce
    /\ NotSummedTwice
    /\ PendingIsExact
    /\ SumsAreRight
    /\ RequestsAreFresh
    /\ AttemptsLeft
    /\ QueueBounded
    /\ NoShardLost
=============================================================================
