---------------------------- MODULE HelperServer ----------------------------
(***************************************************************************)
(* The local proof helper (internal/helper and the serve-helper command):  *)
(* HTTP requests that search for paths, take the proving key from a cache  *)
(* with an idle timer, prove, and stream their progress; clients that go   *)
(* away; and the shutdown of the process.                                  *)
(*                                                                         *)
(* Each handler runs in a goroutine of its own.  The mutex of the cache is *)
(* held across a load, so a load is a state of its own and everything else *)
(* done under the mutex is one step.  The idle timer may fire at any time  *)
(* after it was armed; its callback then waits for the mutex, and a later  *)
(* Reset does not recall it.                                               *)
(***************************************************************************)
EXTENDS KeyDiscovery, FiniteSets

CONSTANTS
  Requests,       \* requests that may arrive
  Disks,          \* key directories: "unusable" when the bundle does not verify; else
                  \* whether its constraint system is "frozen", "absent" or "corrupt"
  Warm,           \* the goroutine of WarmDestinationProver
  None,           \* no owner
  Inputs,         \* what a request may ask: a set of [kind, max, targets]
  ProgressEvery   \* candidates between two progress events

Actors == Requests \cup {Warm}
Kinds == {"single", "batch", "stream"}

ASSUME HelperAssumption ==
  /\ Warm \notin Requests
  /\ Disks \subseteq {"unusable", "frozen", "absent", "corrupt"}
  /\ None \notin Actors
  /\ \A r \in Requests : \A i \in Inputs[r] :
       /\ i \in [kind : Kinds, max : 0 .. MaxUint, targets : Seq(Nat \X Nat)]
       /\ i.targets # <<>>
       /\ i.kind = "single" => Len(i.targets) = 1
  /\ ProgressEvery \in Nat \ {0}

VARIABLES
  disk,     \* key directory: unusable, or what its frozen constraint system is
  req,      \* per request: where its handler is and what the client has seen
  lock,     \* owner of the generator's mutex while it loads, or None
  warm,     \* where the warm-up is: "wait", "loading", "over"
  cache,    \* a proving key and its constraint system are cached
  timer,    \* the idle timer of the cached bundle is armed
  fired,    \* callbacks of the timer that wait for the mutex
  shut,     \* http.Server.Shutdown was called
  exited    \* the process has ended

cacheVars == <<lock, warm, cache, timer, fired>>
serverVars == <<shut, exited>>
vars == <<disk, req, cacheVars, serverVars>>

Codes == {"none", "refused", "result", "path_not_found", "request_cancelled", "proof_failed",
          "cut off"}

\* Progress events in the order in which a request passes their stages.
Stages == <<"open", "locating-keys", "open-keys", "prove", "done">>
Rank(stage) == CHOOSE k \in 1 .. Len(Stages) : Stages[k] = stage

Event(stage, current) == [stage |-> stage, current |-> current]

Idle ==
  [pc |-> "idle", kind |-> "single", max |-> 0, targets |-> <<>>, scan |-> ScanStart,
   found |-> {}, proofs |-> 0, cancelled |-> FALSE,
   lost |-> FALSE, failed |-> FALSE, last |-> Event("open", 0), answer |-> "none",
   late |-> 0]

\* Requests whose handler has not returned.
Active == {r \in Requests : req[r].pc \notin {"idle", "ended"}}

Range(s) == {s[i] : i \in DOMAIN s}

----------------------------------------------------------------------------
\* Writes to a client.

\* destinationProgressWriter.write with the Progress callback of
\* streamDestinationProofs: the request after one event.  A write to a client
\* that is gone may fail, and then cancels the context; after a failure nothing
\* is written.  Requests that do not stream have no callback.
Emitted(q, event) ==
  IF q.kind # "stream" THEN {q}
  ELSE IF q.failed THEN {[q EXCEPT !.cancelled = TRUE]}
  ELSE IF q.lost THEN {q, [q EXCEPT !.failed = TRUE, !.cancelled = TRUE]}
  ELSE {[q EXCEPT !.last = event]}

\* The last write of a handler: result or error, to a client that is there.  Context,
\* connection and writer go with the handler.
Answered(q, code) ==
  [q EXCEPT !.pc = "ended", !.cancelled = FALSE, !.lost = FALSE, !.failed = FALSE,
            !.answer = IF q.lost \/ q.failed THEN @ ELSE code]

Becomes(r, qs) == \E q \in qs : req' = [req EXCEPT ![r] = q]

----------------------------------------------------------------------------
\* Requests.

\* handleProve and handleProveDestination up to the generator: authorisation,
\* decoding and a preflight end the request at once.
Accept(r) ==
  /\ req[r].pc = "idle"
  /\ ~shut
  /\ \/ req' = [req EXCEPT ![r] = Answered(@, "refused")]
     \/ \E i \in Inputs[r] :
          req' = [req EXCEPT ![r].pc = "starting", ![r].kind = i.kind,
                             ![r].max = i.max, ![r].targets = i.targets]
  /\ UNCHANGED <<disk, cacheVars, serverVars>>

\* Mutant of Fails: the error is not returned.
FailsFallingThrough(r, code) == req' = [req EXCEPT ![r].pc = "answering"]

\* errorMapping: the handler answers with the code of the error.
Fails(r, code) == req' = [req EXCEPT ![r] = Answered(@, code)]

\* GenerateProof and GenerateDestinationProofs begin.
Begin(r) ==
  LET q == req[r] IN
  /\ q.pc = "starting"
  /\ IF q.cancelled THEN Fails(r, "request_cancelled")
     ELSE Becomes(r, {[e EXCEPT !.pc = "locating"] : e \in Emitted(q, Event("locating-keys", 0))})
  /\ UNCHANGED <<disk, cacheVars, serverVars>>

\* DiscoverCredentialPaths: one candidate.  The context is looked at first; a
\* candidate that cannot be derived is an error.  The last missing target ends the
\* search; so does the end of the last band.
Locate(r) ==
  LET q      == req[r]
      wanted == Candidate(q.scan) \in Range(q.targets)
      found  == IF wanted THEN q.found \cup {Candidate(q.scan)} ELSE q.found
      scan   == Scanned(q.max, q.scan)
      over   == found = Range(q.targets)
      next   == [q EXCEPT !.scan = scan, !.found = found,
                          !.pc = IF over THEN "located" ELSE "locating"]
      tells  == \/ over
                \/ scan.scanned % ProgressEvery = 0
                \/ EndsBand(q.max, q.scan)
  IN
  /\ q.pc = "locating"
  /\ CASE ScanOver(q.max, q.scan) -> Fails(r, "path_not_found")
       [] ~ScanOver(q.max, q.scan) /\ q.cancelled -> Fails(r, "request_cancelled")
       [] ~ScanOver(q.max, q.scan) /\ ~q.cancelled /\ ~Derivable(q.scan) ->
            Fails(r, "proof_failed")
       [] OTHER -> Becomes(r, IF tells THEN Emitted(next, Event("locating-keys", scan.scanned))
                              ELSE {next})
  /\ UNCHANGED <<disk, cacheVars, serverVars>>

\* The generator announces that it opens the keys.  GenerateProof then loads a
\* bundle of its own; GenerateDestinationProofs goes to the cache.
OpenKeys(r) ==
  LET q == req[r] IN
  /\ q.pc = "located"
  /\ IF q.kind # "single"
     THEN Becomes(r, {[e EXCEPT !.pc = "wait"] : e \in Emitted(q, Event("open-keys", 0))})
     ELSE IF disk # "unusable"
          THEN req' = [req EXCEPT ![r].pc = "computing"]
          ELSE Fails(r, "proof_failed")
  /\ UNCHANGED <<disk, cacheVars, serverVars>>

\* Mutant of NextProof: the context is not looked at between two proofs.
NextProofRegardless(r) ==
  LET q == req[r] IN
  /\ q.pc = "proving"
  /\ IF q.proofs = Len(q.targets)
     THEN Becomes(r, {[e EXCEPT !.pc = "answering"] : e \in Emitted(q, Event("done", q.proofs))})
     ELSE Becomes(r, {[e EXCEPT !.pc = "computing"] : e \in Emitted(q, Event("prove", q.proofs))})
  /\ UNCHANGED <<disk, cacheVars, serverVars>>

\* The loop over the requested proofs looks at the context before each of them.
NextProof(r) ==
  LET q == req[r] IN
  /\ q.pc = "proving"
  /\ IF q.proofs = Len(q.targets)
     THEN Becomes(r, {[e EXCEPT !.pc = "answering"] : e \in Emitted(q, Event("done", q.proofs))})
     ELSE IF q.cancelled THEN Fails(r, "request_cancelled")
     ELSE Becomes(r, {[e EXCEPT !.pc = "computing"] : e \in Emitted(q, Event("prove", q.proofs))})
  /\ UNCHANGED <<disk, cacheVars, serverVars>>

\* prover.Prove and the encodings after it; it is not interrupted.
Compute(r) ==
  LET q == req[r]
      p == [q EXCEPT !.proofs = @ + 1, !.late = IF q.cancelled THEN @ + 1 ELSE @,
                     !.pc = IF q.kind = "single" THEN "answering" ELSE "proving"]
  IN
  /\ q.pc = "computing"
  /\ \/ Becomes(r, Emitted(p, Event("prove", p.proofs)))
     \/ Fails(r, "proof_failed")
  /\ UNCHANGED <<disk, cacheVars, serverVars>>

Answer(r) ==
  /\ req[r].pc = "answering"
  /\ req' = [req EXCEPT ![r] = Answered(@, "result")]
  /\ UNCHANGED <<disk, cacheVars, serverVars>>

\* External: the client closes its connection, and net/http notices and cancels
\* the context of the request.
Disconnect(r) ==
  /\ r \in Active
  /\ ~req[r].lost
  /\ req' = [req EXCEPT ![r].lost = TRUE]
  /\ UNCHANGED <<disk, cacheVars, serverVars>>

NoticeLoss(r) ==
  /\ r \in Active
  /\ req[r].lost /\ ~req[r].cancelled
  /\ req' = [req EXCEPT ![r].cancelled = TRUE]
  /\ UNCHANGED <<disk, cacheVars, serverVars>>

----------------------------------------------------------------------------
\* The key cache.

\* acquireDestinationProver returned a bundle and its constraint system, or an error.
Acquired(a) ==
  IF a = Warm THEN warm' = "over" /\ UNCHANGED req
  ELSE req' = [req EXCEPT ![a].pc = "proving"] /\ UNCHANGED warm

AcquireFailed(a) ==
  IF a = Warm THEN warm' = "over" /\ UNCHANGED req
  ELSE Fails(a, "proof_failed") /\ UNCHANGED warm

Waiting(a) == IF a = Warm THEN warm = "wait" ELSE req[a].pc = "wait"

\* acquireDestinationProver finds the cache filled: the timer starts again.
AcquireCached(a) ==
  /\ Waiting(a)
  /\ lock = None
  /\ cache
  /\ timer' = TRUE
  /\ Acquired(a)
  /\ UNCHANGED <<disk, lock, cache, fired, serverVars>>

\* It finds the cache empty and loads, keeping the mutex.
BeginLoad(a) ==
  /\ Waiting(a)
  /\ lock = None
  /\ ~cache
  /\ lock' = a
  /\ IF a = Warm THEN warm' = "loading" /\ UNCHANGED req
     ELSE req' = [req EXCEPT ![a].pc = "loading"] /\ UNCHANGED warm
  /\ UNCHANGED <<disk, cache, timer, fired, serverVars>>

\* Mutant of Loadable: any failure of the frozen system leads to a compilation.
LoadableMasking == disk # "unusable"

\* loadProver accepts the files its manifest names; LoadOwnershipDestinationCCS must
\* then verify a constraint system that is there.  Without one the circuit is compiled.
Loadable == disk \notin {"unusable", "corrupt"}

\* Mutant of EndLoad: a failed load keeps the mutex.
EndLoadKeepingLock(a) ==
  /\ lock = a
  /\ IF a = Warm THEN warm = "loading" ELSE req[a].pc = "loading"
  /\ lock' = IF Loadable THEN None ELSE lock
  /\ IF Loadable
     THEN cache' = TRUE /\ timer' = TRUE /\ Acquired(a)
     ELSE AcquireFailed(a) /\ UNCHANGED <<cache, timer>>
  /\ UNCHANGED <<disk, fired, serverVars>>

\* The load ends and the mutex is released.
EndLoad(a) ==
  /\ lock = a
  /\ lock' = None
  /\ IF Loadable
     THEN cache' = TRUE /\ timer' = TRUE /\ Acquired(a)
     ELSE AcquireFailed(a) /\ UNCHANGED <<cache, timer>>
  /\ UNCHANGED <<disk, fired, serverVars>>

\* External: the runtime starts the callback of the idle timer.
TimerFires ==
  /\ timer
  /\ timer' = FALSE
  /\ fired' = fired + 1
  /\ UNCHANGED <<disk, req, lock, warm, cache, serverVars>>

\* Mutant of evictDestinationProver: it keeps a bundle whose timer was restarted.
evictDestinationProverUnlessReset ==
  /\ fired > 0
  /\ lock = None
  /\ fired' = fired - 1
  /\ cache' = (cache /\ timer)
  /\ timer' = FALSE
  /\ UNCHANGED <<disk, req, lock, warm, serverVars>>

\* evictDestinationProver drops whatever is cached and stops its timer.
evictDestinationProver ==
  /\ fired > 0
  /\ lock = None
  /\ fired' = fired - 1
  /\ cache' = FALSE
  /\ timer' = FALSE
  /\ UNCHANGED <<disk, req, lock, warm, serverVars>>

----------------------------------------------------------------------------
\* Shutdown.

\* handleShutdown: only the first request starts http.Server.Shutdown.
handleShutdown ==
  /\ ~shut
  /\ shut' = TRUE
  /\ UNCHANGED <<disk, req, cacheVars, exited>>

\* A handler that ends with its process: the client gets no answer.
CutOff(q) ==
  [Idle EXCEPT !.pc = "ended", !.last = q.last,
               !.answer = IF q.lost THEN "none" ELSE "cut off"]

\* Serve returns as soon as Shutdown is called, before the handlers have, and
\* cmdServeHelper with it: the process and its memory are gone.
Exit ==
  /\ shut
  /\ ~exited
  /\ exited' = TRUE
  /\ lock' = None /\ warm' = "over" /\ cache' = FALSE /\ timer' = FALSE /\ fired' = 0
  /\ req' = [r \in Requests |-> IF r \in Active THEN CutOff(req[r]) ELSE req[r]]
  /\ UNCHANGED <<disk, shut>>

----------------------------------------------------------------------------
Init ==
  /\ disk \in Disks
  /\ req = [r \in Requests |-> Idle]
  /\ lock = None
  /\ warm = "wait"
  /\ cache = FALSE
  /\ timer = FALSE
  /\ fired = 0
  /\ shut = FALSE
  /\ exited = FALSE

Handle(r) ==
  \/ Begin(r) \/ Locate(r) \/ OpenKeys(r) \/ NextProof(r) \/ Compute(r) \/ Answer(r)

Acquire(a) == AcquireCached(a) \/ BeginLoad(a) \/ EndLoad(a)

Next ==
  /\ ~exited
  /\ \/ \E r \in Requests : Accept(r) \/ Handle(r) \/ Disconnect(r) \/ NoticeLoss(r)
     \/ \E a \in Actors : Acquire(a)
     \/ TimerFires \/ evictDestinationProver
     \/ handleShutdown \/ Exit

\* A goroutine that can run runs in the end, and an armed timer fires.
Fairness ==
  /\ \A r \in Requests : WF_vars(~exited /\ (Handle(r) \/ Acquire(r)))
  /\ WF_vars(~exited /\ Acquire(Warm))
  /\ WF_vars(~exited /\ TimerFires)
  /\ WF_vars(~exited /\ evictDestinationProver)

Spec == Init /\ [][Next]_vars
FairSpec == Spec /\ Fairness

----------------------------------------------------------------------------
Pcs == {"idle", "starting", "locating", "located", "wait", "loading",
        "proving", "computing", "answering", "ended"}

RequestType ==
  [pc : Pcs, kind : Kinds, max : 0 .. MaxUint, targets : Seq(Nat \X Nat),
   scan : [band : Nat, index : Nat, branch : Nat, scanned : Nat],
   found : SUBSET (Nat \X Nat), proofs : Nat, cancelled : BOOLEAN, lost : BOOLEAN,
   failed : BOOLEAN, last : [stage : Range(Stages), current : Nat], answer : Codes, late : Nat]

RequestOK(q) ==
  /\ q \in RequestType
  /\ q.scan \in Scans(q.max)
  /\ q.found \subseteq Range(q.targets)
  /\ q.proofs <= Len(q.targets)

\* Every handler, the cache and the shutdown are in a state the code knows; in
\* particular a traversal never scans more candidates than it announced.
TypeOK ==
  /\ disk \in Disks
  /\ DOMAIN req = Requests /\ \A r \in Requests : RequestOK(req[r])
  /\ lock \in Actors \cup {None}
  /\ warm \in {"wait", "loading", "over"}
  /\ cache \in BOOLEAN
  /\ timer \in BOOLEAN
  /\ fired \in Nat
  /\ shut \in BOOLEAN
  /\ exited \in BOOLEAN

\* A search that reports no path has tried every candidate it announced, each once, and
\* all of them exist: then some target lies outside the range.  One that goes on to
\* prove has found all its targets.  One that was asked for indexes that do not exist
\* fails only after it has tried every one that does, and misses a target there too.
SearchIsExact ==
  \A r \in Requests :
    LET q == req[r] IN
    /\ q.answer = "path_not_found" =>
         /\ q.max < SoftIndexes
         /\ q.scan.scanned = discoveryTotal(q.max)
         /\ ~(Range(q.targets) \subseteq InRange(q.max))
    /\ q.answer = "proof_failed" /\ q.found # Range(q.targets) =>
         /\ q.max >= SoftIndexes
         /\ q.scan.scanned = Branches * SoftIndexes
         /\ ~(Range(q.targets) \subseteq InRange(q.max))
    /\ q.proofs > 0 => Range(q.targets) \subseteq InRange(q.max)

\* A proof is never made with a constraint system that was compiled because the frozen
\* one did not verify.
CorruptSystemIsNotMasked ==
  \A r \in Requests :
    req[r].proofs > 0 /\ req[r].kind # "single" => disk \in {"frozen", "absent"}

\* A request whose context is cancelled completes at most the proof it is computing.
CancelledWorkIsBounded == \A r \in Requests : req[r].late <= 1

\* What a client may see of a request that becomes n.
ClientSees(q, n) ==
  /\ Rank(q.last.stage) <= Rank(n.last.stage)
  /\ q.last.stage = n.last.stage => q.last.current <= n.last.current
  /\ q.answer # "none" => n.answer = q.answer /\ n.last = q.last
  /\ q.answer # "result" /\ n.answer = "result" =>
       /\ n.proofs = Len(n.targets)
       /\ n.kind = "stream" => n.last = Event("done", Len(n.targets))

\* The client of a stream sees its stages in order and its counters never go back;
\* after the answer it sees nothing, and a result comes after the last proof.
StreamInOrder == [][\A r \in Requests : ClientSees(req[r], req'[r])]_vars

\* Every request that was accepted ends, whoever holds the mutex of the cache.
RequestsEnd ==
  \A r \in Requests : req[r].pc = "starting" ~> req[r].pc = "ended"

\* Once no request comes any more the memory of the proving key is given back.
IdleKeyIsReleased == <>[](~cache)

----------------------------------------------------------------------------
\* The inductive invariant behind the safety properties.

\* The candidates a scan has tried.
Tried(max, s) ==
  {c \in InRange(max) : \/ ScanOver(max, s)
                        \/ c[1] < s.index
                        \/ c[1] = s.index /\ c[2] < s.branch}

\* The traversal is in a band, has counted the candidates before it, and has
\* found the targets among them.  It stops at the first that cannot be derived.
ScanInv(max, s) ==
  IF ScanOver(max, s)
  THEN max < SoftIndexes /\ s.scanned = discoveryTotal(max)
  ELSE /\ s.index \in Bands[max][s.band].start .. Bands[max][s.band].end
       /\ Derivable(s) \/ (s.index = SoftIndexes /\ s.branch = 1)
       /\ s.scanned = Branches * s.index + s.branch - 1

SearchInv(q) ==
  /\ ScanInv(q.max, q.scan)
  /\ q.found = Range(q.targets) \cap Tried(q.max, q.scan)
  /\ q.pc \in {"located", "wait", "loading", "proving", "computing", "answering"} \/ q.proofs > 0
       => q.found = Range(q.targets)
  /\ q.pc = "starting" => q.scan = ScanStart /\ q.targets # <<>>
  /\ q.pc = "locating" => q.found # Range(q.targets)
  /\ q.answer = "path_not_found" => ScanOver(q.max, q.scan) /\ q.found # Range(q.targets)
  /\ q.answer = "proof_failed" /\ q.found # Range(q.targets) =>
       ~ScanOver(q.max, q.scan) /\ ~Derivable(q.scan)

\* A request that took a key from the cache took one that was loaded.
KeyInv(q) ==
  /\ q.kind # "single" /\ (q.proofs > 0 \/ q.pc \in {"proving", "computing", "answering"})
       => Loadable
  /\ q.kind = "single" => q.pc \notin {"wait", "loading", "proving"}

\* After a proof made in vain only the end of the loop is left.
CancelInv(q) ==
  /\ q.late <= 1
  /\ q.late > 0 => \/ q.pc \in {"proving", "answering"} /\ q.cancelled
                   \/ q.pc = "ended"

\* What a client has been told fits where its request is.
ProgressInv(q) ==
  /\ q.pc = "idle" => q = Idle
  /\ q.pc # "ended" => q.answer = "none"
  /\ q.pc # "ended" /\ q.kind # "stream" => q.last = Event("open", 0)
  /\ q.pc \in {"starting", "locating", "located", "wait", "loading"} => q.proofs = 0
  /\ q.kind = "single" /\ q.pc \notin {"idle", "ended"} => Len(q.targets) = 1
  /\ q.kind = "single" /\ q.pc = "computing" => q.proofs = 0
  /\ q.pc = "computing" => q.proofs < Len(q.targets)
  /\ q.pc = "starting" => q.last = Event("open", 0)
  /\ q.pc \in {"locating", "located"} => q.last.stage \in {"open", "locating-keys"}
  /\ q.pc \in {"wait", "loading"} => q.last.stage \in {"open", "locating-keys", "open-keys"}
  /\ q.pc \in {"proving", "computing"} => q.last.stage # "done"
  /\ q.pc # "ended" =>
       /\ q.last.stage = "locating-keys" => q.last.current <= q.scan.scanned
       /\ q.last.stage = "open-keys" => q.last.current = 0
       /\ q.last.stage = "prove" => q.last.current <= q.proofs
  /\ q.pc = "answering" =>
       /\ q.proofs = Len(q.targets)
       /\ q.kind = "stream" => q.lost \/ q.failed \/ q.last = Event("done", q.proofs)

RequestInv(q) == RequestOK(q) /\ SearchInv(q) /\ KeyInv(q) /\ CancelInv(q) /\ ProgressInv(q)

HelperInv ==
  /\ TypeOK
  /\ \A r \in Requests : RequestInv(req[r])
  /\ cache => Loadable
  /\ lock \in Requests => req[lock].pc = "loading"
=============================================================================
