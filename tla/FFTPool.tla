------------------------------ MODULE FFTPool ------------------------------
(***************************************************************************)
(* The FFT workers of the sharded engine (internal/msmengine/hfft_js.go):  *)
(* computeH transforms its vectors in phases (TransformHVectors), each     *)
(* vector of a phase in a goroutine of its own on a worker taken from the  *)
(* pool, or locally where that fails.  computeH runs in a goroutine that   *)
(* nobody stops: it may outlive the attempt that started it and meet the   *)
(* next one, or the closing of the pool.                                   *)
(*                                                                         *)
(* A vector is the number of transforms it has been through.               *)
(***************************************************************************)
EXTENDS Integers, Sequences, FiniteSets

CONSTANTS FFTWorkers,  \* workers of a pool (hfftWorkerCount)
          Vectors,     \* vectors of a phase
          Phases,      \* calls of TransformHVectors in computeH
          Nothing

ASSUME PoolAssumption == FFTWorkers # {} /\ IsFiniteSet(FFTWorkers) /\ Phases \in Nat

VARIABLES fft,         \* fft[e]: the pool of an engine
          h            \* h[c]: the computeH goroutine an attempt started, or Nothing

fftVars == <<fft, h>>

\* A pool.  spawned, spawnErr, free, live and nextID are the code's fields; free is
\* the channel's content, open says that the channel is not nil.  running are the
\* workers that were started and not terminated.
NoPool ==
    [exists |-> FALSE, prespawn |-> FALSE, spawned |-> FALSE, spawnErr |-> FALSE,
     open |-> FALSE, free |-> {}, live |-> 0, nextID |-> 0, running |-> {},
     inbox |-> [w \in FFTWorkers |-> <<>>], reply |-> [w \in FFTWorkers |-> Nothing]]

\* newHFFTPool, with the goroutine that spawns the workers ahead of their use.
newHFFTPool == [NoPool EXCEPT !.exists = TRUE, !.prespawn = TRUE]

\* ensureSpawned.
ensureSpawned(p) ==
    IF p.spawnErr \/ p.spawned THEN p
    ELSE [p EXCEPT !.spawned = TRUE, !.open = TRUE, !.free = FFTWorkers, !.running = FFTWorkers,
                   !.live = Cardinality(FFTWorkers)]

\* terminateWorkers: what the workers had is gone; a delivered reply stays.
Terminated(p, ws) ==
    [p EXCEPT !.running = @ \ ws,
              !.inbox = [w \in FFTWorkers |-> IF w \in ws THEN <<>> ELSE @[w]]]

\* retire: the worker leaves the pool; the last one takes the pool with it.
retire(p, w) ==
    LET live == IF p.live > 0 THEN p.live - 1 ELSE 0
    IN [Terminated(p, {w}) EXCEPT !.live = live, !.spawnErr = @ \/ live = 0]

\* Mutant of close: the pool is not marked.
closeUnmarked(p) ==
    [Terminated(p, FFTWorkers) EXCEPT !.open = FALSE, !.free = {}]

\* close.
close(p) ==
    [Terminated(p, FFTWorkers) EXCEPT !.open = FALSE, !.free = {}, !.spawnErr = TRUE]

\* The goroutine of NewShardedWithOptions, whenever it gets to run.
Prespawn(e) ==
    /\ fft[e].exists /\ fft[e].prespawn
    /\ fft' = [fft EXCEPT ![e] = [ensureSpawned(@) EXCEPT !.prespawn = FALSE]]
    /\ UNCHANGED h

----------------------------------------------------------------------------
\* computeH and TransformHVectors.

Vector(stage, applied) == [stage |-> stage, applied |-> applied, worker |-> Nothing, id |-> 0]

\* computeH as an attempt starts it on engine e.
ComputeH(e) == [engine |-> e, phase |-> 0, vec |-> [v \in Vectors |-> Vector("idle", 0)]]

Pool(c) == fft[h[c].engine]
Vec(c, v) == h[c].vec[v]
Running(c) == h[c] # Nothing
OverH(c) == Running(c) /\ h[c].phase = Phases /\ \A v \in Vectors : Vec(c, v).stage = "idle"

\* TransformHVectors begins: without a pool every vector is transformed locally.
StartPhase(c) ==
    /\ Running(c) /\ h[c].phase < Phases
    /\ \A v \in Vectors : Vec(c, v).stage = "idle"
    /\ LET p == IF Pool(c).exists THEN ensureSpawned(Pool(c)) ELSE Pool(c)
           stage == IF p.exists /\ ~p.spawnErr THEN "take" ELSE "local"
       IN /\ fft' = [fft EXCEPT ![h[c].engine] = p]
          /\ h' = [h EXCEPT ![c].phase = @ + 1,
                            ![c].vec = [v \in Vectors |-> Vector(stage, @[v].applied)]]

Becomes(c, v, vector, p) ==
    /\ h' = [h EXCEPT ![c].vec[v] = vector]
    /\ fft' = [fft EXCEPT ![h[c].engine] = p]

Locally(c, v) == Vector("local", Vec(c, v).applied)

\* transform, up to the wait: a drained pool, a free worker, or none in time.
Take(c, v) ==
    /\ Running(c) /\ Vec(c, v).stage = "take"
    /\ LET p == Pool(c) IN
       IF p.live = 0 \/ p.free = {} THEN Becomes(c, v, Locally(c, v), p)
       ELSE \E w \in p.free :
            LET id == p.nextID + 1
                q == [p EXCEPT !.free = @ \ {w}, !.nextID = id,
                               !.inbox[w] = IF w \in p.running THEN Append(@, id) ELSE @]
            IN Becomes(c, v, [Vec(c, v) EXCEPT !.stage = "wait", !.worker = w, !.id = id], q)

\* The deferred end of transform: the worker goes back to the channel.  A send on
\* the nil channel of a closed pool never returns.
GivesBack(c, v, vector, p) ==
    IF p.open THEN Becomes(c, v, vector, [p EXCEPT !.free = @ \cup {Vec(c, v).worker}])
    ELSE Becomes(c, v, [vector EXCEPT !.stage = "blocked"], p)

\* transform, a reply.  An error gives the worker back; a reply to another
\* request retires it; a transformed copy replaces the vector.
TransformReply(c, v) ==
    /\ Running(c) /\ Vec(c, v).stage = "wait"
    /\ LET w == Vec(c, v).worker
           reply == Pool(c).reply[w]
           p == [Pool(c) EXCEPT !.reply[w] = Nothing]
       IN /\ reply # Nothing
          /\ IF reply.err THEN GivesBack(c, v, Locally(c, v), p)
             ELSE IF reply.id # Vec(c, v).id THEN Becomes(c, v, Locally(c, v), retire(p, w))
             ELSE GivesBack(c, v, Vector("done", Vec(c, v).applied + 1), p)

\* transform, hfftTransformTimeout: the worker is retired.
TransformExpires(c, v) ==
    /\ Running(c) /\ Vec(c, v).stage = "wait"
    /\ Pool(c).reply[Vec(c, v).worker] = Nothing
    /\ Becomes(c, v, Locally(c, v), retire(Pool(c), Vec(c, v).worker))

\* hTransformVector on the vector, which a failed transform has not touched.
TransformLocally(c, v) ==
    /\ Running(c) /\ Vec(c, v).stage = "local"
    /\ Becomes(c, v, Vector("done", Vec(c, v).applied + 1), Pool(c))

\* wg.Wait.
EndPhase(c) ==
    /\ Running(c)
    /\ \A v \in Vectors : Vec(c, v).stage = "done"
    /\ h' = [h EXCEPT ![c].vec = [v \in Vectors |-> Vector("idle", @[v].applied)]]
    /\ UNCHANGED fft

\* The goroutines of computeH.
HStep(c) ==
    \/ StartPhase(c) \/ EndPhase(c)
    \/ \E v \in Vectors : Take(c, v) \/ TransformReply(c, v) \/ TransformExpires(c, v)
                          \/ TransformLocally(c, v)

----------------------------------------------------------------------------
\* An FFT worker answers its oldest request, fails to, or reports an error that
\* answers none (onerror).
FFTAnswers(e, w) ==
    LET p == fft[e]
        Says(q, id, err) ==
          [q EXCEPT !.reply[w] = IF @ = Nothing THEN [id |-> id, err |-> err] ELSE @]
    IN /\ w \in p.running
       /\ p.inbox[w] # <<>>
       /\ \/ \E err \in BOOLEAN :
               fft' = [fft EXCEPT ![e] =
                         Says([p EXCEPT !.inbox[w] = Tail(@)], Head(p.inbox[w]), err)]
          \/ fft' = [fft EXCEPT ![e] = Says(p, 0, TRUE)]
       /\ UNCHANGED h
=============================================================================
