# TLA+ models of proof-tool

This directory models the parts of proof-tool whose correctness depends on order,
concurrency and failure: the multi-party trusted-setup ceremony
(`src/internal/mpcceremony`), the browser prover with its workers and its assets
(`src/cmd/wasm-prover`, `src/internal/msmengine`, `src/internal/proofassets`) and the local
proof helper (`src/internal/helper`). TLC checks every module on small instances; TLAPS
proves the safety properties of the ten modules with state for every value of the constants.
`PROJECT.json` lists components, runs, mutants, the map from definitions to source lines,
findings, hazards and theorems.

## 1. The system

### Ceremony

A ceremony produces Groth16 keys in two phases. A coordinator, participants, public
witnesses, auditors and a release signer each run `mpc-ceremony` on machines of their own,
over a *transcript*: a directory tree of signed records. There is no server. Every command
reads files, checks them, and publishes new ones under fixed names; an operator repeats a
command that failed. What the commands share is the file system.

| Part | State | Operations | Hard behaviour |
|---|---|---|---|
| No-replace publication (`publication.go`, `files.go`) | a destination name, volatile and durable | stage, link, compare, directory fsync, exact retry | kill or power loss between link and fsync, an error from a link that took effect, two publishers |
| Evidence directories (`workflow.go`: beacon, seal, Phase 2 genesis) | one directory with payload, signature, record | make or resume, scan, preflight, three publications, rollback | partial directories, leftovers, rollback against a record already there, overlapping commands |
| Phase closure (`workflow.go`, `publication.go`) | directory `closure` | check lead, stage, guard, rename, sync, recover | clock between guard and rename, closers with different rounds |
| Contribution chain (`workflow.go`, `chain.go`) | candidates, evidence per index, `chain-NNNN.json` | contribute, record erasure, accept, load | two acceptances on one head, old chain files, candidates out of turn, kill between files |
| Two-phase setup (`chain.go`, `finalize.go`, `beacon.go`, `phase1.go`, `phase2.go`) | chains, closures, receipts, beacons, seals, genesis, candidates | accept, close, witness, record beacon, seal, initialize Phase 2, finalize | old chains after a closure, several seals, wrong clocks, a mistaken seal |
| Audit and release (`audit.go`, `finalize.go`) | candidates, audits, evidence bundle, staging and release directories | finalize, audit, assemble, sign release, verify release | inputs that change between the signer's reads |
| Operational evidence (`operational.go`, `operational_bundle.go`) | enrollments, handoffs and receipts, mirrors, witnesses, relays, governance records | verify a bundle | a chronology that no single function checks |
| Decision (`decision.go`, `cmd/mpc-ceremony/decision.go`) | prepared decisions, signatures, evidence tree | prepare, sign, verify | evidence edited between two reads, signatures of several people |

What makes the ceremony correct: a record that was reported exists for ever and is the only
one under its name; nobody can choose a beacon that is already known; the keys come from
exactly the two closed chains; a release carries keys that independent auditors replayed;
a GO stands for the bytes it pins and the people who checked them.

### Provers

| Part | State | Operations | Hard behaviour |
|---|---|---|---|
| Section scheduler (`async_js.go`, `async_contract.go`) | bounded queue, slots, sections, terminal error | dispatch, pump, run, retry, complete, fail, collect, cancel | completion against failure, retry against cancellation, full queue |
| Worker transport and synchronous sections (`sharded_js.go`, `engine.go`, `msm-worker.js`) | pool, one-element reply channels, shards of a section | launch, post, reply, retry, replace, close | late, lost and crossed replies, silent workers, request ids that repeat |
| FFT pool (`hfft_js.go`) | free and live workers | spawn, take, transform, retire, close | close during a spawn or a transform |
| Assets (`proofassets`, `streampk`) | manifests, index, chunk table, key | generate, check, look up a range | files of two releases, sections that cross chunks |
| Browser prover (`cmd/wasm-prover`) | prepared session, discovery cache, constraint system | preflight, discover, prove, fall back, probe | a constraint system consumed by a proof, overlapping calls |
| Local helper (`internal/helper`, `cmd/proof-tool`) | key cache with idle timer, stream, shutdown flag | search, acquire, evict, warm, prove, shut down | timer against request, hang-up against proof, damaged keys |
| Native prover, verifier, circuits, commands, web application, contracts | none shared | one call each | algebra, user interface |

What makes the provers correct: a sum adds every scalar once with its own point; what is
proved is what was asked, with the keys of one release; every call returns; a failure stays
a failure; workers and keys are given back.

## 2. Modules

| Module | Models | State and actions in the code |
|---|---|---|
| `WriteOnce` | abstract specification | a register that takes one value, and the callers told so |
| `FilePublication` | publication of one file | one action per system call of `publishFileWithOps`; `Entries` selects `publishFileNoReplace`, `publishFileNoReplaceOrExact` and the workflow's `writeBytesNoReplaceOrExact` |
| `EvidenceDirectory` | `RecordBeaconFiles` and its siblings | `MakeOrResume` to `Rollback` follow the command; `disk` is the directory's history since the last fsync |
| `PhaseClosure` | `ClosePhaseFiles` | `FindExisting`, `StageRecord`, `Guard`, `Rename`, `SyncParent`, `RecoverExisting`; `Tick` is the clock |
| `ContributionChain` | one phase's chain | `Contribute`, `ContributeOutOfTurn`, `RecordErasure`, and acceptance as `BeginAccept`, `Preflight`, then one `Publish`/`Sync` pair per file; a directory maps the names it holds to their content, and the checks are operators on such a tree |
| `TwoPhaseSetup` | the whole ceremony | one action per command over immutable records |
| `ReleaseAudit` | candidate to release | `SignRelease` as `BeginRelease`, `CopyCandidate`, `CopyAudits`, `CopyEvidence`, `SelfVerify`, `PublishRelease` |
| `OperationalEvidence` | `VerifyOperationalEvidenceBundle` | operators only: one per function that checks a part of a bundle |
| `ProductionDecision` | decision commands, EXTENDS `OperationalEvidence` | `executeDecisionPrepare`, `executeDecisionSign`, `executeDecisionVerify`; the checks of `VerifyProductionDecisionEvidence` are single actions between which `Edit` changes the tree |
| `ShardRanges` | `partition.go`, `shard_affinity.go` | operators: ranges of shards and their slots |
| `SectionScheduler` | asynchronous section scheduler | `dispatchSection`, `Collect`, `CancelOutstanding`; per slot a goroutine whose `stage` is its place in `run`, `complete` and `retry`; workers as `WorkerAnswers`, `WorkerErrors` |
| `ProofAssets` | manifests, index and chunks | operators: what is generated for a release, and every check of the preflight over what was fetched |
| `ShardedEngine` | synchronous sections, EXTENDS `ProofAssets`, `ShardRanges` | `MSMSection`, then per shard `PostSection` or `PostRange`, `TakeReply`, `Expire`, `Retry`, `Receive`; workers answer from the message they hold |
| `FFTPool` | `hfft_js.go` | `ensureSpawned`, `Take`, `TransformReply`, `TransformExpires`, `retire`, `close`, `TransformLocally` |
| `BrowserProver` | `cmd/wasm-prover`, EXTENDS `ShardedEngine`, `FFTPool` | per call a program counter through `preflight`, `prove`, `discoverCredentialPaths`, `probeEngine`; `session`, `cache` and `mutex` are the code's globals |
| `KeyDiscovery` | `discovery.go` | operators: bands of indexes and one step of the scan |
| `HelperServer` | `helper.go`, `server.go`, serve-helper; EXTENDS `KeyDiscovery` | per request a program counter through `GenerateProof` and `GenerateDestinationProofs`, its scan and what its client was told; `lock`, `cache`, `timer`, `fired` are the key cache |
| `*_proofs` | TLAPS proofs | of `FilePublication`, `EvidenceDirectory`, `ProductionDecision`, `SectionScheduler`, `HelperServer` and `BrowserProver` (with its assets); `Phase_proofs` of `ContributionChain` and `PhaseClosure`, `Release_proofs` of `TwoPhaseSetup` and `ReleaseAudit` |
| `MC*` | instances for TLC | model values, constant definitions, symmetry sets |

How they fit together: `FilePublication` and `PhaseClosure` both refine `WriteOnce`, with
the durable content as its value. That is what lets `TwoPhaseSetup` treat a published
record as one atomic, permanent fact, and what `ContributionChain` shows (no fork, a chain
that was extended in turn loads) lets it keep one growing sequence per phase whose prefixes
are the chain files; the contributions of `TwoPhaseSetup` come in the frozen order. `ReleaseAudit` starts where `TwoPhaseSetup` ends and fixes the keys a replay yields;
`ProductionDecision` starts from a signed release. `BrowserProver` composes assets, engine
and FFT pool as one program; its sums come from the synchronous path, and
`SectionScheduler` models the asynchronous one that a tuning option selects.

Operators whose comment begins with *Mutant of* are altered copies of the definition
behind them, each with one plausible mistake. They are used by no specification; for each
checked property `PROJECT.json` names one that makes TLC report the property violated.

### Abstractions

* Hashes and signatures are ideal: a digest is the value digested, so binding is equality.
  Elliptic-curve work is replaced by what it was computed from.
* File system: a file's bytes are synced before its name appears, as the code does. In
  `FilePublication` and `PhaseClosure` a new name is volatile until a directory fsync and
  a power loss may drop it. `EvidenceDirectory` and `ContributionChain`, where several
  names matter, assume a journalled directory: a power loss keeps a prefix of the
  operations since the last fsync.
* In `FilePublication` link(2) may fail although it took effect (`LostAnswers`, as on a network
  file system), and the `os.Lstat` that looks for its effect may fail as well. A history
  variable, `unseen`, names the calls that were blind in this way.
* Candidate directories of `ContributionChain` reach the coordinator from outside. Any
  participant of the roster may have signed one, in turn or not, on any chain that loads (a head
  that does not is rejected with its chain). Each directory is filled once.
* A failed link or rename has no effect in `EvidenceDirectory`, `PhaseClosure` and
  `ContributionChain`; a link that fails and takes effect is studied in `FilePublication`.
* Time: integers. Only `ClosePhaseFiles` reads a clock; all other timestamps are claims
  of operators, chosen from small sets. In `TwoPhaseSetup` the coordinator's clock may be
  wrong by one of `Offsets`.
* `ReleaseAudit` copies a candidate in one step. A copy that mixes files of two candidates
  fails the checksum file in self-verification, so it leads nowhere a whole copy does not.
* `ProductionDecision`: a file is its digest, and `Documents` says what a digest's bytes
  parse to. A bundle's own files are checked in one step, since `verifyArtifactBytes`
  compares each read with the reference in the bundle. The checksum pass
  (`decision.go:1004-1017`) is a step of its own that reads the release as it is then and
  compares it with no pin; `astray` and `drifted` record where reads met other bytes.
* `SectionScheduler`, `ShardedEngine`: a partial sum is the set of scalar positions it adds;
  zeroed scalars add nothing. The inactivity lease and the absolute deadline are one timeout
  that may fire at any time. Digest mismatches, compute errors, undecodable partials and a
  missing W7 acknowledgement are one fatal, fail-closed reply, with and without a section plan,
  since the code treats them alike.
* `ProofAssets`: a file is a record of what the checks read in it. The bytes of a key are
  numbered, so that a point decoded from the wrong place is seen to be wrong.
* `BrowserProver`: gnark's `ProveStream` (external) is modelled from the patch in
  `src/experiments/wasm-prover/patches`: sections in order, `computeH` begun after the first
  and waited for before a later one, the constraint system released after Solve. Assets come from URLs.
* `HelperServer`: tokens, origins and status requests keep no state and are left out. So is a
  search of one given index (`Index`, `discovery.go:226-232`), which is a single band of one.

## 3. Runs

| Run | Question | Bounds and why they suffice |
|---|---|---|
| `file_recovery` | success of the syncing entry points durable, commit state true except for a call that was `unseen`, `WriteOnce` | 2 publishers, 2 contents, 2 calls each, 3 entry points, lost answers: a killed call, a retry and a competitor all meet |
| `file_workflow_durability` | *violation*, finding 1 | 1 publisher, 2 calls |
| `evidence` | record never without payload and signature; a lone coordinator never rolls a durable record back; a repeated command succeeds in the end | 1 coordinator, 2 payloads, 2 timestamps, 4 faults (more than a directory has files); or 2 overlapping coordinators and 1 fault |
| `evidence_concurrent` | *violation*, finding 2 | 2 coordinators, no fault |
| `closure` | witness lead at the rename; closure permanent | 2 closers, 2 rounds, a clock that passes both deadlines |
| `contribution_chain` | no fork, a published chain loads exactly if it was extended in turn, partial evidence can be completed | 2 acceptances, 3 participants of whom 2 are scheduled, 2 candidate directories filled by any of them, 2 acceptance times, of which only the earlier can be followed |
| `two_phase_setup` | keys of closed chains, Phase 2 on derived commons, closures public in time, a closed ceremony can finish, everyone contributed in production | both modes; 1 and 2 participants, of whom a rehearsal needs 1; 2 rounds, clock 3 units slow, 2 seal directories |
| `release_audit` | release verifies, keys were replayed, two auditors | 2 auditors, 2 candidate directories, 2 audit paths, inputs discarded at any moment |
| `decision` | a GO is backed, its pins were seen, checksum files list what is pinned, custody is one sequence, nothing right is refused | 3 heads in 2 phases; every timestamp of a head moved to or just past every other event, 13 wrong names; 2 edits between any two checks, of checksum files too; right and wrong drafts, releases, checksum files and signers |
| `scheduler` | bookkeeping sound, exact sums, failure settles all, no use after collect, outcome final, collects return | 2 workers; queue of 2 so that dispatch is refused, 2 attempts; or block affinity with blocks of 2 and 1 shards and an empty section |
| `helper` | search exact, damage not masked, cancelled work bounded, stream in order, requests end, idle key released | 2 requests (stream, single or batch), 2 soft indexes and a maximum of up to one past them, where derivation fails, 2 branches, bands that meet, keys absent or corrupt |
| `browser_prover` | coherent assets, exact proof, right inputs, no worker left, calls return | 3 calls, 3 releases whose sections cross chunks, 2 shards on 1 or 2 workers, 2 attempts, 1 FFT worker for 2 vectors |

A ceremony ends, a scheduler, a helper and a page come to rest, so `two_phase_setup`,
`scheduler`, `helper` and `browser_prover` do not check for deadlock; the other runs do.

`evidence`, `scheduler`, `decision` and `browser_prover` choose one of several scenarios in
their initial state (how many coordinators, which queue discipline, which draft and tree,
which calls a page makes). A scenario is an input and never changes. Each stresses one part
with bounds that would be too large together.

Each module has one type invariant at most. Those of the modules with proofs are part of the
inductive invariants of section 4; the others (`TypeOK`) are there for the reader.

### Fairness

`evidence` assumes that a running command keeps going and that the operator of a
failed one comes back to each of the inputs used before; nothing is assumed of faults except
that they are finitely many. A directory that holds a signature for one timestamp can only be
completed with that timestamp, so an operator who never returns to it is stuck by design.

`scheduler` assumes that the Go runtime runs a goroutine that can run, and that whoever
failed the scheduler goes on to close the pool. A waiting goroutine can always run in the
end because `waitForAsyncResultWithProgress` has an absolute deadline. `browser_prover`
assumes the same of a call's goroutines as long as the page does not end the instance.
Nothing is assumed of workers, pages or the network.

`helper` assumes that handlers run, that a timer which is due fires and that its callback
runs, while the process lives. Nothing is assumed of clients.

### Findings

1. *Durability of an accepted retry* (`workflow.go:2255`, run `file_workflow_durability`).
   `writeBytesNoReplaceOrExact` reports success for exact bytes it finds without syncing
   the directory. A call killed after its link, a retry and a power loss lose a file that
   was reported. The closure path does re-sync (`workflow.go:1475-1478`).
2. *Rollback of a committed record* (`workflow.go:1662`, run `evidence_concurrent`). Two
   overlapping identical commands: the second one's scan removes the first one's
   temporary, publishes and reports its record; the first one fails and removes the
   directory it had made, although `publication.go:27` says a committed destination is
   never rolled back.

### Observations

Behaviour met while modelling that contradicts no property here, and that a maintainer may
want to know.

*Publication.* `publication.go:24-27` says that a not-committed error happened before the
destination was created. When `link` takes effect, reports an error, and the `os.Lstat` that
follows fails too, the error says not-committed although the destination is there
(`publication.go:234-243`). `CommitStateHonest` leaves this one case out. A retry finds it and is told
that it exists, or that it is exact; a command that rolls its directory back removes it.

*Ceremony.* Acceptance does not look at the frozen order (`workflow.go:934-1112`,
`chain.go:301-380`); contributing and loading do (`workflow.go:664-668`, `chain.go:283-286`). A
candidate that a participant signed out of turn with another tool is accepted and published, its
chain file does not load, and since every file is permanent the phase cannot go on.
`LoadsIfInTurn` says that this is the only way to a chain that does not load. The checksum pass
of a decision compares the files with the checksum files, and neither with the pins: checksum
files that are pinned and wrong pass if the release is something else during that pass, as the
third part of `PinsWereSeen` admits. A NO-GO needs one signature, so a GO and a NO-GO about the same release can both
verify; `decided_at` is only checked for its format. A decision takes exactly two audits in
the order of the transcript, and `bundleAuditArtifacts` numbers them as the operator listed
them: a release with three audits, or with two not in the order of the auditors' ids, never
gets a verifying decision. The first custody of Phase 2 is compared with the creation of the
definition, not with the closure of Phase 1. Acceptance does not look at custody, so a
contribution whose custody is out of order is noticed when its evidence can no longer be
made right. A governance record, a restart included, does not hinder a release.

*Browser.* A section without a plan waits for its worker without a deadline
(`sharded_js.go:1525`), which is why `CallsReturn` speaks of proofs with plans; without one a
worker that died also stays in the pool. Without plans the key's bytes are not pinned, and
only the local verification of the proof notices wrong ones, which is why `ProofIsExact`
speaks of plans too. Synchronous requests are numbered by shard, and only the replacement of
a worker keeps its late reply out of the next section. A transform that ends after its pool
was closed may block on the pool's nil channel. `validatePinnedAssetURL` checks bytes that it
fetched itself. Three comments (`main_js.go:1006-1007`, `1061-1062`, `1106-1107`) say that a
digest mismatch of the compressed constraint system fails closed; `fetchCCS` falls back to
the identity encoding, whose pins are checked, and says so at its own place.

*Helper.* `docs/ownership-proof-system.md:114` calls `POST /shutdown` graceful; the process
ends as soon as `http.Server.Shutdown` has been called (`cmd/proof-tool/main.go:1098-1101`),
so requests in progress may be cut off. The model has that outcome.

## 4. Proofs

*FilePublication* (`FileInv`, `RecoveryInv`). `FileInv` adds to typing that a durable name
is the visible one, that a visible file is the temporary of the call that linked it, and
what each program counter says about the destination; without the second conjunct a late
inspection could not tell its own link from another's. `HonestCommitState` is about every
call but those that could not look at the destination after a failed link, whose file may be
there unreported. From it follow `TypeCorrect`,
`HonestCommitState` and `NoReplacement` for all three entry points. `RecoveryInv` adds that
only the workflow's entry point ever ends in the unsynced comparison; from it follow
`SyncedDurable` and `WriteOnceRefinement`, in which the reports are those of the entry points
of `publication.go`. Finding 1 shows that the workflow's own entry point must be left out of
them. Assumptions: `None` is not a content, `MaxTries` is a natural number.

*EvidenceDirectory* (`EvidenceInv`). Typing holds with any overlap of commands. The rest
(`SoleInv`) is about a coordinator that runs one command at a time: nothing the directory has been
since the last fsync holds a record without the signature and the payload of the same input; a
durable record is in everything since; and a directory that a running command has made and may
still remove holds no record. All states since the last fsync matter because a power loss may keep
any of them; the last part carries the others through a rollback, and is what an overlap breaks, as
finding 2 shows. From it follow `RecordIsAuthenticated` and the action property
`SoleRecordIsPermanent`, for any inputs, repetitions and failures. Assumptions: `None` is not an
input, `NoDir` is not a listing, and faults are counted by natural numbers.

*PhaseClosure* (`ClosureInv`). It adds that a call past its guard is still within `Pause`
of it, that a durable closure is visible and that reports are durable. From it follow
`WitnessLead` and `ClosureRefinement`, under `Pause <= Margin`: no process is held between
guard and rename for longer than `closePublicationSafetyMargin`. The code cannot enforce
that, and the margin exists for it.

*ContributionChain* (`ChainInv`). A power loss may keep any prefix of what was not synced, so
the invariant is about every tree in `disk`, not only the visible one (`TreeInv`): the files of
an index appear in their order, a chain document has its evidence and its prefixes below it,
and all files of an index belong to one acceptable candidate. Along `disk` trees only grow,
which carries a check that an acceptance made once to all later trees. `AcceptorInv` says that
a running acceptance extends a chain that still loads and has passed only files of its own
candidate. Candidates come from anyone of the roster: what carries the frozen order through the
invariant is that a chain below another one loads, and it does because an acceptance loads its
own head. From it follow `ChainsNeverFork`, `InTurnChainsLoad` and `EvidenceCanBeCompleted` for
any roster, schedule and number of coordinators, candidates and times.

*TwoPhaseSetup* (`SetupInv`). Records are permanent once written, so the invariant relates each
record to those it was derived from: a chain and its closure, a beacon and its round, a seal and
the closed chain it replays, Phase 2 and the seal in its genesis, a candidate and all of them.
Clocks enter through the closures only. All five properties of the run follow, among them
`TranscriptReplays`: no sequence of accepted commands ends where finalize must reject.

*ReleaseAudit* (`ReleaseInv`). It says what each stage of a signing run has established about
what it copied, as opposed to the inputs, which may change after each read. The three release
properties follow. `FiniteAssumption` (finitely many auditors) is what makes the count of
distinct auditors meaningful.

*ProductionDecision* (`DecisionInv`). The tree may change between any two checks, so nothing
lasting can be said of it. `DecisionInv` says for each stage of a command what the checks passed
so far have established of the digests the draft pins: the draft is valid and every pinned file
was found, the manifest and the candidate in memory are the pinned ones, the bundle verifies
against the pinned candidate and transcript, the pinned audits pass the pinned candidate. An edit
then disturbs none of it, because every later read compares the digest again, except those of the
checksum pass. Of that pass `SumsRead` says what remains: either some pinned file of the release
was not there as pinned just then, or the checksum files that were read are the pinned ones and
list the pinned files. It also says that a
GO is only signed after its evidence was checked. From it follow `PinnedBytesWereSeen`, for which
`UniqueIsAll` shows that comparing one file per location compares all of a coherent decision,
and `GoIsBackedByItsPeople`. `CustodyIsUnbroken` rests on `PhaseInOrder`, which adds up the
comparisons of the evidence verifiers for any number of participants, mirrors, witnesses and
relays. Assumptions: lists of a bundle are sequences, times and rounds are numbers, ids have an
order, every digest in a tree is of a document, and `AuditorsReplay`: an auditor passes only keys
its own replay yields, which is what `ReleaseAudit` has of `AuditCandidate`.

*SectionScheduler* (`ShardInv`, and `OpenIsRegistered` for failures). A shard is queued, with a
goroutine, waiting for a retry or stored, and exactly one of these holds it (`ShardsAccounted`);
request numbers are not shared; `pending` counts the sums that are missing or not yet counted;
a stored sum is that of its own range. Without the account of holders a late goroutine could
store a second sum after a collect. From it follow `SchedulerIsSound`, `CollectedSumsAreExact`
and `NoGoroutineOutlivesCollect`; from `OpenIsRegistered` alone `FailureSettles` and
`OutcomeStands`. Lemmas about `partitionRanges`, `nonEmptyRanges` and `workerForShard` show that
shards cut a section without gap or overlap and that block affinity uses only slots that exist.
Assumptions: sizes and bounds are positive numbers (`SchedulerAssumption`), `None` is not a
value of the model.

*HelperServer* (`HelperInv`). The search has one lemma of its own (`ScanStep`): one step of the
traversal tries one new candidate inside the range and leaves the count equal to its position,
at the end of a band and at the last index. An index of 2^31 or more has no derivation
(`ckd/public.go:57`), so a search that is asked for one ends with `proof_failed` before the
index can wrap, and by then it has tried every index that exists. It rests on `BandFacts`, that
bands follow one another from 0 to the maximum, and so on `BandEnds` increasing, as the constants
in `discovery.go` do. The rest of `HelperInv` says per request that what it has found is what its
scan has tried, that a key was loadable when it was taken, that a proof made in vain is followed
by none, and how far the client's last event may be behind the work. Every action changes at
most one request, except the end of the process, and is shown legal for that one. From it follow
`SearchesAreExact`, `CorruptionIsReported`, `CancellationStopsWork` and the action property
`StreamsAreInOrder`, for any requests and inputs. `HelperAssumption` says what decoding
guarantees of an input: at least one target, and one for a single proof.

*BrowserProver* (`ProverInv`, `FilesInv`, `ExactInv`). `ProverInv` says that the holder of `preparedMu` is
the only call with an engine; that this engine is its own, or the session's together with the
session's files; that an engine nobody uses has neither workers nor a pool it could get them from
(a transform that was cut off by `close` included); that a constraint system at hand has not been
consumed by a proof and has the content that request and key pin (`expectedHash`: with a chunk
manifest its pin, else the request's `ccs_blake2b256`, else the digest of the key manifest); and
what a call has gathered at each step. From it follow `ProofInputsRight`
and `NoWorkerLeaks`, for any number of calls that interleave at every step. Assumptions: `None`
is no call and no constraint system, and the sections between which `computeH` runs are in order.

`FilesInv` says which files each call and the session have, in the order of the preflight, each
having passed the checks that precede the next fetch. From it follows `CoherentBundle`, in three
parts. A release that passes its own checks has a chunk table that covers the key: the sizes add
up (`Totals`), every chunk but the last is full, and so chunk *i* begins where the code looks it
up; this is an induction over the table (`ValidChunksCover`) by the least place where it would
fail, since the provers cannot instantiate the library's induction theorems. A byte range of the
index, also where it crosses chunks, then decodes to the points of the section
(`PinnedSection`). And each check reads only files fetched before it (`CheckedEarlier`), so that
files of different releases that got so far agree in every digest the signed manifests pin.
Assumptions: `AssetAssumption` (sizes and counts are numbers), `DeploymentAssumption` (a
deployment id names its network, as `isMainnetDeployment` has it) and `TableAssumption` (whatever
places and sizes a chunk table claims, its digests were taken of the pieces of a key in order; the
table's claims are what the theorem shows to be checked).

`ExactInv` is what `ProofIsExact` needs beyond these. Of a section without an error it says
(`ShardsRight`): every slot has one shard at most; a shard that waits has its own request, or the
answer to it, at its worker, or that worker is dead; every other worker is as good as new; a
collected part is that of the shard's range; and a shard that is not launched yet is behind one
that is, on the slot it will get. The last two are why the end of a section leaves neither a
position out nor a late answer for the next section, which has the same request numbers
(`SectionEnds`). Once there is an error the section counts for nothing (`Failing`), and with plans
the error is fail-closed, so the proof is not tried again on the CPU. Between sections `EngineExact`
keeps the workers of a planned engine fresh unless a failed call has left it to nobody. That a
worker can only answer with the pinned points comes from `FilesInv` (`PinnedShards`), that shards
cut a section without gap or overlap from lemmas about `partitionRanges` and `nonEmptyRanges` for
any count and length. For `computeH`, `VectorHolds` counts how often each vector was transformed,
whether its worker answered, expired, answered another request or was replaced by local work.
`ScenarioAssumption` is what `NewShardedWithOptions` makes of its options: at least one worker and
one shard.

Model-checked only:

* `RightEvidenceIsAccepted` of `ProductionDecision`: it is about trees that are right by
  construction of the instance.
* All liveness (`RetryCompletes`, `CollectReturns`, `RequestsEnd`, `IdleKeyIsReleased`,
  `CallsReturn`): the prover has no support for fairness.
* The refutations of findings 1 and 2.

## 5. Plan

Done: the modules above and, but for what is out of the prover's reach, the proofs of their
properties. `RightEvidenceIsAccepted` would need a description of right evidence for any number
of participants in place of the instance's own; it would state of the verifiers what
`CustodyIsUnbroken` states the other way round. A larger map (`executor.go`, `main.go`) would add
command-line handling with no state of its own.

### Not modelled

Circuits and curve arithmetic (treated in `src/formal`), command-line parsing and printing,
canonical encodings and field-by-field validation of records, the parser of constraint
systems, the commands that write a single operational record from what an operator states,
opening of artifacts from a directory (a development build), read-ahead of chunks (it only
warms a cache), traces and progress percentages, the claim server and pages of the web
application, the desktop shell around the helper, on-chain scripts, packaging, scripts and
deployment data. They keep no state of their own across steps, or are not implementation
code of this repository's Go packages.
