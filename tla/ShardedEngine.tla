--------------------------- MODULE ShardedEngine ---------------------------
(***************************************************************************)
(* The synchronous sections of the sharded engine (internal/msmengine):    *)
(* one multi-scalar multiplication at a time, cut into shards that run on  *)
(* Web Workers.  With a section plan (MSMG1Section, MSMG2Section) a worker *)
(* fetches its points itself, the wait for it has a deadline, and a shard  *)
(* is tried again on the same or on a fresh worker.  Without a plan        *)
(* (MSMG1Ranged, MSMG2Ranged) the main instance fetches the points, waits  *)
(* without a deadline and tries nothing again.                             *)
(*                                                                         *)
(* The id of a request is the index of its shard, so requests of different *)
(* sections and attempts share ids.                                        *)
(*                                                                         *)
(* A partial sum is the set of scalar positions it adds up correctly: a    *)
(* position is missing when its point is not the key's or when its scalar  *)
(* was zeroed before the worker read it.                                   *)
(***************************************************************************)
EXTENDS ShardRanges, ProofAssets

CONSTANTS MaxAttempts,  \* asyncShardMaxAttempts
          None

ASSUME EngineAssumption == MaxAttempts \in Nat \ {0}

VARIABLES options,      \* how engines are created: [workers, shards, w7, ...]
          workers,      \* workers[e]: the Web Workers of an engine by slot, or None
          section       \* the section an engine multiplies, or None

engineVars == <<workers, section>>

Slots == 0 .. options.workers - 1

\* newWorker.  reply is the one-element reply channel.
newWorker == [inbox |-> <<>>, reply |-> None, dead |-> FALSE]

\* A shard: not launched; to be posted; posted; with a result; collected.
Unlaunched == [stage |-> "new", slot |-> 0, attempt |-> 1, part |-> {}, err |-> "none"]
Launch(slot) == [Unlaunched EXCEPT !.stage = "post", !.slot = slot]

Shards == 1 .. Len(section.ranges)
Slot(i) == section.task[i].slot
Worker(i) == workers[section.engine][Slot(i)]
At(i, stage) == section # None /\ i \in Shards /\ section.task[i].stage = stage

----------------------------------------------------------------------------
\* Sections.

\* Slots of the shards that a section launches at once: with a plan one per
\* worker, with OptW7 the first of each worker's block; without a plan all.
InitialSlot(i, count, planned) ==
    IF ~planned THEN (i - 1) % options.workers
    ELSE IF ~options.w7 THEN i - 1
    ELSE workerForShard(i - 1, count, options.workers)

LaunchedAtOnce(i, count, planned) ==
    IF ~planned THEN TRUE
    ELSE IF ~options.w7 THEN i <= options.workers
    ELSE \A k \in 1 .. i - 1 : workerForShard(k - 1, count, options.workers)
                                  # workerForShard(i - 1, count, options.workers)

\* MSMG1Section, MSMG2Section, MSMG1Ranged, MSMG2Ranged, up to the first wait.
\* b is the bundle the points come from.
MSMSection(e, name, n, b, planned) ==
    LET ranges == nonEmptyRanges(partitionRanges(n, options.shards))
        count == Len(ranges)
    IN /\ section = None
       /\ section' = [engine |-> e, name |-> name, planned |-> planned, bundle |-> b,
                      ranges |-> ranges, firstErr |-> "none",
                      task |-> [i \in 1 .. count |->
                          IF LaunchedAtOnce(i, count, planned)
                          THEN Launch(InitialSlot(i, count, planned)) ELSE Unlaunched]]

\* The shard launched on the slot whose result was just received.  Without
\* OptW7 the next shard in line, after a failure too; with it the next of the
\* slot's own block, and none after a failure.
NextOnSlot(i, err) ==
    LET new == {k \in Shards : section.task[k].stage = "new"}
        mine == IF ~options.w7 THEN new
                ELSE IF err # "none" THEN {}
                ELSE {k \in new : workerForShard(k - 1, Len(section.ranges), options.workers) = Slot(i)}
    IN {k \in mine : \A m \in mine : k <= m}

\* The receiving loop of a section takes one result.
Receive(i) ==
    LET err == IF section.firstErr # "none" THEN section.firstErr ELSE section.task[i].err
    IN /\ At(i, "done")
       /\ section' = [section EXCEPT
            !.firstErr = err,
            !.task = [k \in Shards |->
                        IF k = i THEN [@[i] EXCEPT !.stage = "received"]
                        ELSE IF k \in NextOnSlot(i, err) THEN Launch(Slot(i))
                        ELSE @[k]]]
       /\ UNCHANGED workers

\* Every launched shard is received: the section returns.
SectionOver ==
    section # None /\ \A i \in Shards : section.task[i].stage \in {"new", "received"}

\* combineG1, combineG2: every position of the section once, rightly.
SectionExact == \A i \in Shards : section.task[i].part = section.ranges[i]

----------------------------------------------------------------------------
\* A shard's goroutine.

Sec == section.bundle["pk index"].sections[section.name]
Start(range) == Sec.offset + (CHOOSE q \in range : \A k \in range : q <= k) * Sec.elem
End(range) == Start(range) + Cardinality(range) * Sec.elem

\* The points of a shard through G1Range, G2Range: those of whatever key is served.
RangedPoints(i) ==
    {RightPoints(SectionRange(r, Start(section.ranges[i]), End(section.ranges[i])),
                 Sec, section.ranges[i], section.bundle["vk"]) : r \in Releases}

Request(i, points) == [id |-> i - 1, shard |-> i, points |-> points, intact |-> TRUE]

Posted(i, request) ==
    /\ workers' = [workers EXCEPT ![section.engine][Slot(i)].inbox =
                      IF Worker(i).dead THEN @ ELSE Append(@, request)]
    /\ section' = [section EXCEPT !.task[i].stage = "wait"]

\* executeSectionTask with postSectionAndWaitLocked, up to the wait: the worker
\* fetches its own points.
PostSection(i) ==
    /\ At(i, "post") /\ section.planned
    /\ Posted(i, Request(i, None))

\* A goroutine of MSMG1Ranged, MSMG2Ranged up to the wait.  It holds the
\* worker's mutex; the fetch may fail.
PostRange(i) ==
    /\ At(i, "post") /\ ~section.planned
    /\ \A k \in Shards : Slot(k) = Slot(i) => section.task[k].stage # "wait"
    /\ \/ \E points \in RangedPoints(i) : Posted(i, Request(i, points))
       \/ /\ section' = [section EXCEPT !.task[i].stage = "done", !.task[i].err = "open"]
          /\ UNCHANGED workers

\* zeroSAB after the wait: a request that is still with the worker has lost its
\* scalars.
Zeroed(inbox, i) ==
    [k \in DOMAIN inbox |-> IF inbox[k].shard = i THEN [inbox[k] EXCEPT !.intact = FALSE]
                            ELSE inbox[k]]

\* The wait of shard i is over: what becomes of its worker and of the shard.
WaitEnds(i, worker, task) ==
    /\ workers' = [workers EXCEPT ![section.engine][Slot(i)] = worker]
    /\ section' = [section EXCEPT !.task[i] = task]

Done(i, part, err) ==
    [section.task[i] EXCEPT !.stage = "done", !.part = part, !.err = err]

\* Mutant of Retry: the worker is kept.
RetryKeeping(i, worker, cause) ==
    IF section.planned /\ cause \in {"fetch", "lost"} /\ section.task[i].attempt < MaxAttempts
    THEN WaitEnds(i, worker, [section.task[i] EXCEPT !.stage = "post", !.attempt = @ + 1])
    ELSE WaitEnds(i, worker, Done(i, {}, IF section.planned THEN "closed" ELSE "open"))

\* executeSectionTask after a failed wait (sectionWorkerRetry, replace): a fetch
\* the worker says may be repeated, or a worker that is lost and replaced first.
\* The worker of the last attempt is not replaced.  The errors of a section with
\* a plan are fail-closed, those of a range are not.
Retry(i, worker, cause) ==
    IF section.planned /\ cause \in {"fetch", "lost"} /\ section.task[i].attempt < MaxAttempts
    THEN WaitEnds(i, IF cause = "lost" THEN newWorker ELSE worker,
                  [section.task[i] EXCEPT !.stage = "post", !.attempt = @ + 1])
    ELSE WaitEnds(i, worker, Done(i, {}, IF section.planned THEN "closed" ELSE "open"))

\* postSectionAndWaitLockedCancelable, postAndWaitLocked: a reply.  An error is
\* judged before its id is.  A crossed reply, or a fatal one that is a partial
\* which cannot be decoded, is fail-closed always.
TakeReply(i) ==
    /\ At(i, "wait")
    /\ Worker(i).reply # None
    /\ LET reply == Worker(i).reply
           worker == [Worker(i) EXCEPT !.reply = None, !.inbox = Zeroed(@, i)]
       IN IF reply.kind # "partial"
          THEN \/ Retry(i, worker, reply.kind)
               \/ reply.kind = "fatal" /\ WaitEnds(i, worker, Done(i, {}, "closed"))
          ELSE IF reply.id # i - 1 THEN WaitEnds(i, worker, Done(i, {}, "closed"))
          ELSE WaitEnds(i, worker, Done(i, reply.part, "none"))

\* Mutant of Expire: only the cancellation of the asynchronous path ends a wait.
ExpireNever(i) ==
    /\ At(i, "wait") /\ section.planned
    /\ FALSE /\ UNCHANGED engineVars

\* waitForAsyncResultWithProgress: no progress for too long, or the absolute
\* deadline.  The worker counts as lost.
Expire(i) ==
    /\ At(i, "wait") /\ section.planned
    /\ Retry(i, [Worker(i) EXCEPT !.inbox = Zeroed(@, i)], "lost")

----------------------------------------------------------------------------
\* The Web Workers.

\* The reply channel holds one reply; what does not fit is dropped.
Replied(worker, reply) == IF worker.reply = None THEN [worker EXCEPT !.reply = reply] ELSE worker

\* What the worker can make of the chunks a request needs: the positions with the
\* right points, "fetch" when a chunk does not arrive, "fatal" when one is not the
\* pinned chunk.
SectionPoints(request) ==
    LET range == section.ranges[request.shard]
        pins == section.bundle["chunk manifest"].chunks
        need == Overlapping(pins, Start(range), End(range))
        Served(r) == Content[r]["chunk manifest"].chunks
        Points(r) ==
            IF ~\A i \in need : i \in DOMAIN Served(r) THEN <<"fetch", {}>>
            ELSE IF ~\A i \in need : fetchVerifiedChunk(Served(r)[i].digest, pins[i])
            THEN <<"fatal", {}>>
            ELSE <<"partial", RightPoints(
                    fetchSectionPointBytes(pins, [i \in need |-> Served(r)[i].digest],
                                           Start(range), End(range)),
                    Sec, range, section.bundle["vk"])>>
    IN {Points(r) : r \in Releases} \cup {<<"fetch", {}>>}

\* A worker answers its oldest request: shardSectionBytes, or the kernel on the
\* points of a range.  Scalars that are gone leave a sum of nothing.
WorkerAnswers(e, w) ==
    /\ workers[e] # None /\ section # None /\ section.engine = e
    /\ LET worker == workers[e][w]
           request == Head(worker.inbox)
           Answer(kind, part) == [kind |-> kind, id |-> request.id, part |-> part]
           Made == IF request.points = None THEN SectionPoints(request)
                   ELSE {<<"partial", request.points>>}
           Answers == {Answer("fatal", {})} \cup {Answer(m[1], m[2]) : m \in Made}
                      \cup (IF request.intact THEN {} ELSE {Answer("partial", {})})
       IN /\ worker.inbox # <<>>
          /\ request.shard \in Shards
          /\ \E answer \in Answers :
               workers' = [workers EXCEPT ![e][w] =
                             Replied([worker EXCEPT !.inbox = Tail(@)], answer)]
    /\ UNCHANGED section

\* The browser ends a worker, with or without an error event (onerror,
\* init-error).
WorkerDies(e, w) ==
    /\ workers[e] # None
    /\ workers[e][w].inbox # <<>>
    /\ LET gone == [workers[e][w] EXCEPT !.inbox = <<>>, !.dead = TRUE]
       IN \/ workers' = [workers EXCEPT ![e][w] = gone]
          \/ workers' = [workers EXCEPT ![e][w] =
                           Replied(gone, [kind |-> "lost", id |-> 0, part |-> {}])]
    /\ UNCHANGED section
=============================================================================
