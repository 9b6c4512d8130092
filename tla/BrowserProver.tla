--------------------------- MODULE BrowserProver ---------------------------
(***************************************************************************)
(* The browser prover (cmd/wasm-prover) over the files it is served        *)
(* (ProofAssets), the sharded engine (ShardedEngine) and its FFT workers   *)
(* (FFTPool): the exported calls preflight, prove, discover and probe, the *)
(* prepared session that proofs share, the cache of discovered paths, the  *)
(* constraint system a proof consumes, the retry on the CPU.               *)
(*                                                                         *)
(* Calls answer with promises.  preflight and prove hold preparedMu from   *)
(* beginning to end; discover and probe hold nothing.  The page makes the  *)
(* calls one after another and ends the instance after a failure.          *)
(***************************************************************************)
EXTENDS ShardedEngine, FFTPool

CONSTANTS Calls,         \* calls the page may make; an engine has the name of its call
          Scenarios,     \* what they ask, and how engines are created
          Owned,         \* Owned[m]: the credentials of a master key, with their paths
          FirstHSection, \* computeH starts once this section is multiplied
          LastHSection   \* and is waited for before the one after this

ASSUME ProverAssumption ==
  /\ None = Nothing /\ None \notin Calls
  /\ FirstHSection \in Nat \ {0} /\ LastHSection >= FirstHSection

\* NewShardedWithOptions has one worker at least, and as many shards when none are named.
ASSUME ScenarioAssumption ==
  \A o \in Scenarios : o.workers \in Nat \ {0} /\ o.shards \in Nat \ {0}

VARIABLES call,     \* per call: where it is and what it holds
          session,  \* preparedSession: [key, bundle, ccs, engine], or NoSession
          cache,    \* discoveryCache: [master, paths], paths a function on credentials
          mutex,    \* who holds preparedMu, or None
          gone      \* the page has ended the instance

callVars == <<call, session, cache, mutex, gone>>
vars == <<options, engineVars, fftVars, callVars>>

\* What call c asks: [kind, key, master, target, explicit]; a key is the artifacts
\* and the tuning of a request: [planned, ccsURL, ccsHash, w3, cpu], where ccsHash is
\* None or the digest the request itself names; explicit are the paths the request may
\* name itself, none when it leaves the search to the prover.
Asked(c) == options.calls[c]
Key(c) == Asked(c).key

NewCall ==
  [pc |-> "idle", bundle |-> <<>>, ccs |-> None, engine |-> None, own |-> FALSE,
   path |-> None, step |-> 1, exact |-> TRUE, ranged |-> FALSE, cause |-> "none"]

NoSession == [key |-> None, bundle |-> <<>>, ccs |-> None, engine |-> None]
Prepared == session.engine # None

EmptyCache == [master |-> None, paths |-> <<>>]

\* Constraint systems: what they were decoded from, and whether a proof has
\* released them.
System(content) == [content |-> content, released |-> FALSE]

\* What a fetch of a file may give.
Served(file) == {Content[r][file] : r \in Releases}

ASSUME SystemAssumption ==
  \A x \in {"compiled"} \cup Served("ccs") \cup Served("ccs zst") : System(x) # None

Goto(c, pc) == call' = [call EXCEPT ![c].pc = pc]
Ends(c, outcome) == call' = [call EXCEPT ![c] = [NewCall EXCEPT !.pc = outcome]]
Returned(c) == call[c].pc \in {"ok", "failed"}
Failed(c) == call[c].pc = "failed"

----------------------------------------------------------------------------
\* Engines.

\* SelectWithOptions: sharded when the page shares memory and the device has
\* more than one thread, else the CPU.
IsSharded(key) == ~key.cpu

\* NewShardedWithOptions for engine e; the FFT workers only with OptW8 and
\* hfftMinMSMWorkers workers.
Opened(e, key) ==
  /\ workers' = IF IsSharded(key)
                THEN [workers EXCEPT ![e] = [w \in Slots |-> newWorker]] ELSE workers
  /\ fft' = IF IsSharded(key) /\ options.w8
            THEN [fft EXCEPT ![e] = newHFFTPool] ELSE fft

\* shardedMSM.Close of the engines in es.
Closed(es) ==
  /\ workers' = [e \in Calls |-> IF e \in es THEN None ELSE workers[e]]
  /\ fft' = [e \in Calls |-> IF e \in es /\ fft[e].exists THEN close(fft[e]) ELSE fft[e]]

SessionEngine == {session.engine} \ {None}

----------------------------------------------------------------------------
\* Beginning a call.

\* preflight begins: it closes the session there is.
BeginPreflight(c) ==
  /\ Asked(c).kind = "preflight"
  /\ Closed(SessionEngine)
  /\ session' = NoSession
  /\ Goto(c, "fetch")
  /\ mutex' = c
  /\ UNCHANGED <<section, h, cache>>

\* prove up to open-keys: inputs that do not decode end it.  A session of other
\* artifacts is closed, one of the same is used.
BeginProve(c) ==
  /\ Asked(c).kind = "prove"
  /\ \/ /\ Goto(c, "failing")
        /\ UNCHANGED <<workers, fft, session>>
     \/ /\ Prepared /\ session.key = Key(c)
        /\ call' = [call EXCEPT ![c].pc = "ccs", ![c].bundle = session.bundle,
                                ![c].engine = session.engine]
        /\ UNCHANGED <<workers, fft, session>>
     \/ /\ ~(Prepared /\ session.key = Key(c))
        /\ Closed(SessionEngine)
        /\ session' = NoSession
        /\ call' = [call EXCEPT ![c].pc = "fetch", ![c].own = TRUE]
  /\ mutex' = c
  /\ UNCHANGED <<section, h, cache>>

\* discover and probeEngine take no lock; the engine of a probe is closed at once.
BeginOther(c) ==
  /\ Asked(c).kind \in {"discover", "probe"}
  /\ IF Asked(c).kind = "discover"
     THEN Goto(c, "search") /\ UNCHANGED <<workers, fft>>
     ELSE Goto(c, "probed") /\ Opened(c, Key(c))
  /\ UNCHANGED <<section, h, session, cache, mutex>>

Begin(c) ==
  /\ call[c].pc = "idle"
  /\ ~\E d \in Calls : Failed(d)
  /\ \/ mutex = None /\ (BeginPreflight(c) \/ BeginProve(c))
     \/ BeginOther(c)

----------------------------------------------------------------------------
\* Opening the files.

\* openStreamingArtifacts: the next file arrives, and is checked or ends the call.
Fetch(c) ==
  LET b == call[c].bundle
      files == Fetches(Key(c).planned)
      file == files[Cardinality(DOMAIN b) + 1]
      pc == IF Cardinality(DOMAIN b) + 1 = Len(files) THEN "ccs" ELSE "fetch"
  IN
  /\ call[c].pc = "fetch"
  /\ \/ \E r \in Releases :
          LET raw == Content[r][file] IN
          /\ Checked(b, file, raw)
          /\ call' = [call EXCEPT ![c].pc = pc,
                        ![c].bundle = [f \in DOMAIN b \cup {file} |-> IF f = file THEN raw ELSE b[f]]]
     \/ Goto(c, "failing")
  /\ UNCHANGED <<engineVars, fftVars, session, cache, mutex>>

\* fetchCCSPreferCompressed with fetchCCS: what may have been decoded.  With a
\* chunk manifest the pinned compressed object is preferred; whatever is wrong with
\* it leads to the identity object.
fetchCCS(c) ==
  LET pin == call[c].bundle["chunk manifest"].assets.ccs
  IN Served("ccs") \cup IF Key(c).planned THEN Served("ccs zst") \cap {pin} ELSE {}

\* The digest openConstraintSystem compares with: the signed pin with a chunk manifest,
\* else the one of the request, else the one of the key manifest.
expectedHash(key, b) ==
  IF key.planned THEN b["chunk manifest"].assets.ccs
  ELSE IF key.ccsHash # None THEN key.ccsHash
  ELSE b["manifest"].ccs

\* openConstraintSystem: only the expected content passes; without a URL it is
\* compiled, unless a chunk manifest is in use.
openConstraintSystem(c) ==
  IF Key(c).ccsURL THEN {x \in fetchCCS(c) : x = expectedHash(Key(c), call[c].bundle)}
  ELSE IF Key(c).planned THEN {}
  ELSE {"compiled"}

\* prove, open-ccs, and the end of preflight: the session's constraint system
\* or a fresh one.  preflight then selects the engine and keeps all as the
\* session.
OpenCCS(c) ==
  /\ call[c].pc = "ccs"
  /\ IF call[c].engine # None /\ session.ccs # None
     THEN /\ call' = [call EXCEPT ![c].pc = "path", ![c].ccs = session.ccs]
          /\ UNCHANGED <<engineVars, fftVars, session, mutex>>
     ELSE \/ /\ Goto(c, "failing")
             /\ UNCHANGED <<engineVars, fftVars, session, mutex>>
          \/ \E x \in openConstraintSystem(c) :
             IF Asked(c).kind = "prove"
             THEN /\ call' = [call EXCEPT ![c].pc = "path", ![c].ccs = System(x)]
                  /\ UNCHANGED <<engineVars, fftVars, session, mutex>>
             ELSE /\ session' = [key |-> Key(c), bundle |-> call[c].bundle, ccs |-> System(x),
                                 engine |-> c]
                  /\ Opened(c, Key(c))
                  /\ Ends(c, "ok")
                  /\ mutex' = None
                  /\ UNCHANGED <<section, h>>
  /\ UNCHANGED cache

----------------------------------------------------------------------------
\* Paths.

\* Paths that DiscoverCredentialPaths finds for a master key.
Discovered(master, targets) ==
  [t \in targets \cap DOMAIN Owned[master] |-> Owned[master][t]]

\* discoverCredentialPaths: the search, then cacheDiscoveryPaths.
Search(c) ==
  /\ call[c].pc = "search"
  /\ IF Asked(c).target \in DOMAIN Owned[Asked(c).master] THEN Goto(c, "cache") ELSE Goto(c, "failing")
  /\ UNCHANGED <<engineVars, fftVars, session, cache, mutex>>

\* cacheDiscoveryPaths.
cacheDiscoveryPaths(c) ==
  cache' = [master |-> Asked(c).master,
            paths |-> Discovered(Asked(c).master, {Asked(c).target})]

Cache(c) ==
  /\ call[c].pc = "cache"
  /\ cacheDiscoveryPaths(c)
  /\ Ends(c, "ok")
  /\ UNCHANGED <<engineVars, fftVars, session, mutex>>

\* cachedDiscoveryPath, a hit.
cachedDiscoveryPath(c) ==
  /\ cache.master = Asked(c).master
  /\ Asked(c).target \in DOMAIN cache.paths
  /\ call' = [call EXCEPT ![c].pc = "select", ![c].path = cache.paths[Asked(c).target]]
  /\ UNCHANGED cache

\* prove, find-path, when there is no hit: the paths of another master key are
\* forgotten first.
SearchPath(c) ==
  /\ ~(cache.master = Asked(c).master /\ Asked(c).target \in DOMAIN cache.paths)
  /\ cache' = IF cache.master = Asked(c).master THEN cache ELSE EmptyCache
  /\ Goto(c, "find")

\* ValidateExplicitCredentialPath on the path of a request that has one.
ExplicitPath(c) ==
  /\ \E path \in Asked(c).explicit :
       IF path \in {Owned[Asked(c).master][t] : t \in {Asked(c).target} \cap DOMAIN Owned[Asked(c).master]}
       THEN call' = [call EXCEPT ![c].pc = "select", ![c].path = path]
       ELSE Goto(c, "failing")
  /\ UNCHANGED cache

FindPath(c) ==
  /\ call[c].pc = "path"
  /\ IF Asked(c).explicit # {} THEN ExplicitPath(c)
     ELSE cachedDiscoveryPath(c) \/ SearchPath(c)
  /\ UNCHANGED <<engineVars, fftVars, session, mutex>>

\* prove, the search of its own.
Find(c) ==
  /\ call[c].pc = "find"
  /\ \/ /\ Asked(c).target \in DOMAIN Owned[Asked(c).master]
        /\ cacheDiscoveryPaths(c)
        /\ call' = [call EXCEPT ![c].pc = "select", ![c].path = Owned[Asked(c).master][Asked(c).target]]
     \/ /\ Asked(c).target \notin DOMAIN Owned[Asked(c).master]
        /\ Goto(c, "failing")
        /\ UNCHANGED cache
  /\ UNCHANGED <<engineVars, fftVars, session, mutex>>

----------------------------------------------------------------------------
\* The proof.

Sections(c) == call[c].bundle["pk index"].sections
Scalars(c) == Sections(c)[call[c].step].len \div Sections(c)[call[c].step].elem

\* Mutant of Select: the session keeps the constraint system the proof consumes.
SelectKeepingCCS(c) ==
  /\ call[c].pc = "select"
  /\ IF call[c].own THEN Opened(c, Key(c)) ELSE UNCHANGED <<workers, fft>>
  /\ call' = [call EXCEPT ![c].engine = IF call[c].own THEN c ELSE @,
                          ![c].pc = IF IsSharded(Key(c)) THEN "multiply" ELSE "cpu"]
  /\ UNCHANGED <<section, h, cache, session, mutex>>

\* prove, probe to prove: the session's engine or one of its own.  With OptW3 the
\* proof consumes the constraint system, so the session gives it up.
Select(c) ==
  /\ call[c].pc = "select"
  /\ IF call[c].own THEN Opened(c, Key(c)) ELSE UNCHANGED <<workers, fft>>
  /\ call' = [call EXCEPT ![c].engine = IF call[c].own THEN c ELSE @,
                          ![c].pc = IF IsSharded(Key(c)) THEN "multiply" ELSE "cpu"]
  /\ session' = IF ~call[c].own /\ Key(c).w3 THEN [session EXCEPT !.ccs = None] ELSE session
  /\ UNCHANGED <<section, h, cache, mutex>>

\* What the end of Solve does to the constraint system (ProveAndRelease): an
\* object that others still hold is released for them too.
Release(key, ccs) == IF ccs # None /\ key.w3 THEN [ccs EXCEPT !.released = TRUE] ELSE ccs

\* ProveStream on the sharded engine: the next section begins.  computeH is
\* waited for before the first section that needs it.
BeginSection(c) ==
  /\ call[c].pc = "multiply"
  /\ call[c].step <= Len(Sections(c))
  /\ call[c].step = LastHSection + 1 => OverH(c)
  /\ MSMSection(call[c].engine, call[c].step, Scalars(c), call[c].bundle, Key(c).planned)
  /\ Goto(c, "section")
  /\ UNCHANGED <<workers, fftVars, session, cache, mutex>>

\* The section returns.  The first ends Solve, and computeH starts.
EndSection(c) ==
  LET solved == call[c].step = FirstHSection IN
  /\ call[c].pc = "section"
  /\ SectionOver
  /\ section' = None
  /\ IF section.firstErr # "none"
     THEN /\ call' = [call EXCEPT ![c].cause = section.firstErr, ![c].pc = "demote"]
          /\ UNCHANGED <<session, h>>
     ELSE /\ call' = [call EXCEPT ![c].pc = "multiply", ![c].step = @ + 1,
                                  ![c].exact = @ /\ SectionExact,
                                  ![c].ranged = @ \/ ~section.planned,
                                  ![c].ccs = IF solved THEN Release(Key(c), @) ELSE @]
          /\ session' = IF solved /\ ~call[c].own
                        THEN [session EXCEPT !.ccs = Release(Key(c), @)] ELSE session
          /\ h' = IF solved THEN [h EXCEPT ![c] = ComputeH(call[c].engine)] ELSE h
  /\ UNCHANGED <<workers, fft, cache, mutex>>

\* WithFallbackReload after a failed attempt: a fail-closed error is final.  With
\* OptW3 the retry opens the pinned constraint system again, and never compiles it
\* (reopenPinnedConstraintSystem).
WithFallbackReload(c) ==
  /\ call[c].pc = "demote"
  /\ IF call[c].cause = "closed" THEN Goto(c, "failing")
     ELSE IF ~Key(c).w3
     THEN call' = [call EXCEPT ![c].pc = "cpu", ![c].step = 1]
     ELSE \/ /\ Key(c).ccsURL
             /\ \E x \in openConstraintSystem(c) :
                  call' = [call EXCEPT ![c].pc = "cpu", ![c].step = 1, ![c].ccs = System(x)]
          \/ Goto(c, "failing")
  /\ UNCHANGED <<engineVars, fftVars, session, cache, mutex>>

\* ProveStream on cpuMSM: it reads ranges of whatever key is served, or fails.
ProveOnCPU(c) ==
  /\ call[c].pc = "cpu"
  /\ \/ \E r \in Releases :
          call' = [call EXCEPT ![c].pc = "verify", ![c].ranged = TRUE,
                               ![c].exact = r.key = call[c].bundle["vk"],
                               ![c].ccs = Release(Key(c), @)]
     \/ Goto(c, "failing")
  /\ UNCHANGED <<engineVars, fftVars, session, cache, mutex>>

\* ProveStream is done.
Proved(c) ==
  /\ call[c].pc = "multiply"
  /\ call[c].step = Len(Sections(c)) + 1
  /\ Goto(c, "verify")
  /\ UNCHANGED <<engineVars, fftVars, session, cache, mutex>>

VectorsExact(c) == Running(c) /\ OverH(c) => \A v \in Vectors : Vec(c, v).applied = Phases

\* VerifyProof and the end of prove: what it opened for itself is closed.  The small
\* fields of the key (loadSmallFields) are read by range and pinned by nothing, so
\* a proof with exact sums may fail as well; one for another key's system does.
Verify(c) ==
  /\ call[c].pc = "verify"
  /\ Closed(IF call[c].own THEN {c} ELSE {})
  /\ \/ /\ call[c].exact /\ VectorsExact(c)
        /\ call[c].ccs.content \in {"compiled", call[c].bundle["vk"]}
        /\ Ends(c, "ok")
     \/ Ends(c, "failed")
  /\ mutex' = None
  /\ UNCHANGED <<section, h, session, cache>>

\* Every other end of a call.
Fail(c) ==
  /\ call[c].pc = "failing"
  /\ Closed(IF call[c].own /\ call[c].engine # None THEN {c} ELSE {})
  /\ Ends(c, "failed")
  /\ mutex' = IF mutex = c THEN None ELSE mutex
  /\ UNCHANGED <<section, h, session, cache>>

\* probeEngine returns, and its engine is closed.
EndProbe(c) ==
  /\ call[c].pc = "probed"
  /\ Closed({c})
  /\ Ends(c, "ok")
  /\ UNCHANGED <<section, h, session, cache, mutex>>

\* browser-wasm.ts: the page terminates the client after a failed call, and with
\* it goes everything the instance and its workers hold.
Terminate ==
  /\ \E c \in Calls : Failed(c)
  /\ gone' = TRUE
  /\ workers' = [e \in Calls |-> None] /\ section' = None
  /\ fft' = [e \in Calls |-> NoPool] /\ h' = [c \in Calls |-> Nothing]
  /\ call' = [c \in Calls |-> NewCall]
  /\ session' = NoSession /\ cache' = EmptyCache /\ mutex' = None
  /\ UNCHANGED options

----------------------------------------------------------------------------
Init ==
  /\ options \in Scenarios
  /\ workers = [e \in Calls |-> None]
  /\ section = None
  /\ fft = [e \in Calls |-> NoPool]
  /\ h = [c \in Calls |-> Nothing]
  /\ call = [c \in Calls |-> NewCall]
  /\ session = NoSession
  /\ cache = EmptyCache
  /\ mutex = None
  /\ gone = FALSE

\* One step of call c itself.
CallStep(c) ==
  /\ UNCHANGED <<options, gone>>
  /\ \/ Begin(c) \/ Fetch(c) \/ OpenCCS(c) \/ Search(c) \/ Cache(c) \/ FindPath(c) \/ Find(c)
     \/ Select(c) \/ BeginSection(c) \/ EndSection(c) \/ WithFallbackReload(c)
     \/ ProveOnCPU(c) \/ Proved(c) \/ Verify(c) \/ Fail(c) \/ EndProbe(c)

\* One step of the goroutines of a section.
SectionStep ==
  /\ section # None
  /\ \E i \in Shards : PostSection(i) \/ PostRange(i) \/ TakeReply(i) \/ Expire(i) \/ Receive(i)
  /\ UNCHANGED <<options, fftVars, callVars>>

\* One step of computeH, or of the goroutine that spawns its workers.
TransformStep(c) ==
  /\ HStep(c) \/ Prespawn(c)
  /\ UNCHANGED <<options, engineVars, callVars>>

\* The workers.
WorkerStep ==
  \/ /\ \E e \in Calls : \E w \in Slots : WorkerAnswers(e, w) \/ WorkerDies(e, w)
     /\ UNCHANGED <<options, fftVars, callVars>>
  \/ /\ \E e \in Calls : \E w \in FFTWorkers : FFTAnswers(e, w)
     /\ UNCHANGED <<options, engineVars, callVars>>

Next ==
  /\ ~gone
  /\ \/ \E c \in Calls : CallStep(c) \/ TransformStep(c)
     \/ SectionStep \/ WorkerStep \/ Terminate

Spec == Init /\ [][Next]_vars

\* Goroutines that can run do run, and fetches of the browser end; a call need not
\* be made, and nothing is assumed of the workers or of the page.
FairSpec ==
  /\ Spec
  /\ \A c \in Calls : /\ WF_vars(~gone /\ call[c].pc # "idle" /\ CallStep(c))
                      /\ WF_vars(~gone /\ TransformStep(c))
  /\ WF_vars(~gone /\ SectionStep)

----------------------------------------------------------------------------
\* Files that a call or the session holds after all checks.
Bundles ==
  {call[c].bundle : c \in {d \in Calls : call[d].pc \notin {"idle", "fetch", "failing", "ok", "failed"}
                                        /\ Asked(d).kind \in {"prove", "preflight"} /\ Key(d).planned}}
  \cup (IF Prepared /\ session.key.planned THEN {session.bundle} ELSE {})

\* Whatever mixture of releases the server and its caches hold, the files that pass
\* the checks with a chunk manifest are those of one release, and its chunk table
\* gives every byte of the proving key that some section needs.
CoherentBundle ==
  \A b \in Bundles :
    \E r \in Releases :
      /\ \A f \in DOMAIN b : b[f] = Content[r][f]
      /\ ChunksCover[r]

\* A proof with a chunk manifest on the sharded engine that gets to its local
\* verification has added up every scalar of every section once with the pinned
\* point, and has transformed every vector once per phase: retries, replaced
\* workers, late replies and local fallbacks leave no trace in it.
ProofIsExact ==
  \A c \in Calls :
    call[c].pc = "verify" /\ Key(c).planned /\ ~Key(c).cpu => call[c].exact /\ VectorsExact(c)

\* The constraint system a request is proved with: with a chunk manifest that of the
\* verifying key, whatever the request names.  Without one it is the request that
\* decides: it names the digest itself, or relies on the key manifest, or on the circuit
\* the prover compiles.
OwnSystem(key, b) ==
  CASE key.planned                         -> b["vk"]
    [] ~key.planned /\ ~key.ccsURL         -> "compiled"
    [] ~key.planned /\ key.ccsURL          ->
         IF key.ccsHash # None THEN key.ccsHash ELSE b["manifest"].ccs

\* What goes into a proof is the request's own: Solve never runs on a constraint
\* system that an earlier attempt or proof has released, that an earlier request has
\* named or that a served file has put in the place of its own, and the path is one of
\* the master key of the request.
ProofInputsRight ==
  \A c \in Calls :
    call[c].pc = "cpu" \/ (call[c].pc \in {"multiply", "section"} /\ call[c].step <= FirstHSection) =>
      /\ call[c].ccs # None
      /\ ~call[c].ccs.released
      /\ call[c].ccs.content = OwnSystem(Key(c), call[c].bundle)
      /\ Asked(c).target \in DOMAIN Owned[Asked(c).master]
      /\ call[c].path = Owned[Asked(c).master][Asked(c).target]

\* Engines that somebody will still close.
InUse == SessionEngine \cup {call[c].engine : c \in Calls} \cup {c \in Calls : call[c].pc = "probed"}

\* An engine that nobody holds any more has no worker left, not even one that a
\* late goroutine spawns after the engine was closed.
NoWorkerLeaks ==
  \A e \in Calls : e \notin InUse => workers[e] = None /\ fft[e].running = {}

----------------------------------------------------------------------------
\* The inductive invariant of the last two.

\* Steps of a call that holds preparedMu.
Locked == {"fetch", "ccs", "path", "find", "select", "multiply", "section", "demote", "cpu",
           "verify"}

\* Who holds the lock, and whose engine a call works on: its own, or the session's
\* together with its files.
CallHolds(c) ==
  /\ call[c].pc \in Locked \/ call[c].engine # None => mutex = c
  /\ call[c].engine # None \/ call[c].own => call[c].pc \in Locked \cup {"failing"}
  /\ call[c].pc \in {"fetch", "ccs"} /\ Asked(c).kind # "prove" => call[c].engine = None /\ ~Prepared
  /\ call[c].pc = "fetch" \/ (call[c].own /\ call[c].pc \in {"ccs", "path", "find", "select"}) =>
       call[c].engine = None
  /\ call[c].own => call[c].engine \in {None, c}
  /\ ~call[c].own /\ call[c].engine # None =>
       /\ call[c].engine = session.engine /\ call[c].bundle = session.bundle
       /\ Key(c) = session.key

\* The section that is multiplied is that of a call's engine.
SectionOwned ==
  section # None => \E c \in Calls : call[c].pc = "section" /\ section.engine = call[c].engine

\* A pool that cannot get a worker any more.
Drained(pool) == pool.running = {} /\ (pool.exists => pool.spawnErr)

ClosedEngines ==
  \A e \in Calls :
    /\ ~fft[e].exists => fft[e].running = {}
    /\ e \notin InUse => workers[e] = None /\ Drained(fft[e])

\* A constraint system that Solve may run on for a key with the files b.
Fresh(ccs, key, b) ==
  /\ ccs # None /\ ~ccs.released
  /\ key.planned => key.ccsURL
  /\ ccs.content = IF key.ccsURL THEN expectedHash(key, b) ELSE "compiled"

\* The cache holds paths of the master key it names.
CacheRight ==
  \A t \in DOMAIN cache.paths :
    t \in DOMAIN Owned[cache.master] /\ cache.paths[t] = Owned[cache.master][t]

SessionFresh == session.ccs # None => Fresh(session.ccs, session.key, session.bundle)

\* What a call has gathered: a path of its master key, and a constraint system that
\* is fresh until Solve is over, or for good when nothing is released.
InputsRight(c) ==
  /\ call[c].pc \in {"select", "multiply", "section", "demote", "cpu"} =>
       /\ Asked(c).target \in DOMAIN Owned[Asked(c).master]
       /\ call[c].path = Owned[Asked(c).master][Asked(c).target]
  /\ \/ call[c].pc \in {"path", "find", "select", "cpu"}
     \/ call[c].pc \in {"multiply", "section"} /\ call[c].step <= FirstHSection
     \/ call[c].pc \in {"multiply", "section", "demote"} /\ ~Key(c).w3
     => Fresh(call[c].ccs, Key(c), call[c].bundle)
  /\ call[c].pc \in {"multiply", "section"} /\ ~call[c].own /\ Key(c).w3 => session.ccs = None

\* A call that was begun returns, or the page ends the instance, whatever the
\* workers do, as long as proofs use section plans.
CallsReturn ==
  \A c \in Calls :
    (call[c].pc # "idle" /\ \A d \in Calls : Key(d).planned) ~> (Returned(c) \/ gone)
=============================================================================
