------------------------ MODULE MCProductionDecision ------------------------
(***************************************************************************)
(* Two phases with two and one participants; the right bundle and its      *)
(* variants in which one timestamp is moved to (or just after) another or  *)
(* one record names somebody else.  Releases with replayed keys, with      *)
(* other keys, with the audits in another order and with wrong checksums;  *)
(* right and wrong drafts.                                                 *)
(***************************************************************************)
EXTENDS ProductionDecision

Person(n) == [id |-> n, key |-> n]
Auditor1 == Person(3)
Auditor2 == Person(4)
Auditor3 == Person(5)
Mirror1 == Person(21)
Mirror2 == Person(22)
Witness1 == Person(23)
Witness2 == Person(24)
External1 == Person(31)
External2 == Person(32)

MCDefinition ==
  [created |-> 10, coordinator |-> Person(1), releaseSigner |-> Person(2),
   auditors |-> <<Auditor1, Auditor2, Auditor3>>,
   roster |-> <<Person(11), Person(12)>>,
   participants |-> [phase1 |-> <<Person(11), Person(12)>>, phase2 |-> <<Person(12)>>],
   witnessLead |-> 10, genesisTime |-> 0, period |-> 100]

\* The head with index i of a phase; its events are 10 apart from time t on.
Record(id, pred, participant, t) ==
  [id |-> id, pred |-> pred, participant |-> participant,
   contributed |-> t + 20, destroyed |-> t + 30, accepted |-> t + 60]

HeadEvidence(phase, i, record, prefix, t) ==
  LET out == [phase |-> phase, index |-> i, pred |-> record.pred, from |-> Person(1),
              to |-> record.participant, files |-> {record.pred},
              created |-> t, expires |-> t + 15]
      back == [phase |-> phase, index |-> i, pred |-> record.pred, from |-> record.participant,
               to |-> Person(1), files |-> {record.id},
               created |-> t + 40, expires |-> t + 55]
      Stored(by) == [phase |-> phase, index |-> i, head |-> record.id, by |-> by,
                     files |-> {record.id, "verification", "prefix"}, at |-> t + 65]
  IN [head |-> record.id, pred |-> record.pred, prefix |-> prefix,
      out |-> out, outReceipt |-> [handoff |-> out, by |-> out.to, at |-> t + 10],
      return |-> back, returnReceipt |-> [handoff |-> back, by |-> back.to, at |-> t + 50],
      mirrors |-> <<Stored(Mirror1), Stored(Mirror2)>>]

PhaseEvidence(chain, heads, close) ==
  LET Seen(who) == [who |-> who, close |-> close, at |-> close.at + 10]
      Observed(n) == [operator |-> n, randomness |-> close.round, at |-> 100 * close.round - 100]
  IN [chain |-> chain, heads |-> heads, close |-> close, quorum |-> 2,
      witnesses |-> <<Seen(Witness1), Seen(Witness2)>>,
      beacon |-> [close |-> close, recorded |-> 100 * close.round - 90,
                  observations |-> <<Observed(1), Observed(2), Observed(3)>>]]

Chain1 == <<Record("a", "genesis", Person(11), 20), Record("b", "a", Person(12), 90)>>
Chain2 == <<Record("c", "genesis", Person(12), 220)>>
Close1 == [phase |-> "phase1", head |-> "b", at |-> 160, round |-> 3]
Close2 == [phase |-> "phase2", head |-> "c", at |-> 290, round |-> 5]

Enrolment(who, role, index) == [who |-> who, role |-> role, index |-> index, at |-> 10]

Right ==
  [by |-> Person(1),
   enrollments |->
     {Enrolment(Person(1), "coordinator", 1), Enrolment(Person(2), "releaseSigner", 1),
      Enrolment(Auditor1, "auditor", 1), Enrolment(Auditor2, "auditor", 2),
      Enrolment(Auditor3, "auditor", 3),
      Enrolment(Person(11), "participant", 1), Enrolment(Person(12), "participant", 2),
      Enrolment(Mirror1, "mirror", 1), Enrolment(Mirror2, "mirror", 2),
      Enrolment(Witness1, "witness", 1), Enrolment(Witness2, "witness", 2)},
   governance |-> {},
   phase |-> [phase1 |-> PhaseEvidence(Chain1,
                <<HeadEvidence("phase1", 1, Chain1[1], <<Chain1[1]>>, 20),
                  HeadEvidence("phase1", 2, Chain1[2], Chain1, 90)>>, Close1),
              phase2 |-> PhaseEvidence(Chain2,
                <<HeadEvidence("phase2", 1, Chain2[1], Chain2, 220)>>, Close2)],
   assembled |-> 420]

\* Times to move a timestamp to: those of other events, and one later.
Times == {10 * n : n \in 1 .. 17} \cup {10 * n + 1 : n \in 1 .. 17} \cup {35, 105, 200}

Spots == {<<"phase1", 1>>, <<"phase1", 2>>, <<"phase2", 1>>}

Moves == {"out", "outExpires", "outReceipt", "return", "returnExpires", "returnReceipt",
          "mirror", "contributed", "destroyed", "accepted"}

\* One timestamp of a head moved; receipts and prefixes are of the handoffs
\* and the chain that there are.
MovedCustody(right, spot, move, t) ==
  LET p == spot[1]
      i == spot[2]
      head == right.phase[p].heads[i]
      With(new) == [right EXCEPT !.phase[p].heads[i] = new]
      Out(h) == With([head EXCEPT !.out = h, !.outReceipt.handoff = h])
      Back(h) == With([head EXCEPT !.return = h, !.returnReceipt.handoff = h])
      Chained(record) ==
        LET chain == [right.phase[p].chain EXCEPT ![i] = record]
        IN [right EXCEPT
             !.phase[p].chain = chain,
             !.phase[p].heads = [n \in DOMAIN @ |->
                                   [@[n] EXCEPT !.prefix = SubSeq(chain, 1, n)]]]
      record == right.phase[p].chain[i]
  IN CASE move = "out" -> Out([head.out EXCEPT !.created = t])
       [] move = "outExpires" -> Out([head.out EXCEPT !.expires = t])
       [] move = "outReceipt" -> With([head EXCEPT !.outReceipt.at = t])
       [] move = "return" -> Back([head.return EXCEPT !.created = t])
       [] move = "returnExpires" -> Back([head.return EXCEPT !.expires = t])
       [] move = "returnReceipt" -> With([head EXCEPT !.returnReceipt.at = t])
       [] move = "mirror" -> With([head EXCEPT !.mirrors[1].at = t])
       [] move = "contributed" -> Chained([record EXCEPT !.contributed = t])
       [] move = "destroyed" -> Chained([record EXCEPT !.destroyed = t])
       [] move = "accepted" -> Chained([record EXCEPT !.accepted = t])

\* One record names somebody or something else.
Misnamed(right) ==
  LET head == right.phase["phase1"].heads[2]
      With(new) == [right EXCEPT !.phase["phase1"].heads[2] = new]
  IN <<With([head EXCEPT !.mirrors[2].by = Mirror1]),
       With([head EXCEPT !.mirrors[2].by = Auditor1]),
       With([head EXCEPT !.mirrors = <<head.mirrors[1]>>]),
       With([head EXCEPT !.outReceipt.by = Person(11)]),
       With([head EXCEPT !.outReceipt.handoff = right.phase["phase1"].heads[1].out]),
       With([head EXCEPT !.return.from = Person(11), !.returnReceipt.handoff.from = Person(11)]),
       [right EXCEPT !.phase["phase1"].witnesses[2].who = Witness1],
       [right EXCEPT !.phase["phase1"].witnesses[2].who = Mirror1],
       [right EXCEPT !.phase["phase2"].beacon.observations[3].operator = 1],
       [right EXCEPT !.phase["phase2"].beacon.observations[3].randomness = 4],
       [right EXCEPT !.enrollments = {e \in @ : e.who # Auditor3}],
       [right EXCEPT !.governance = {[by |-> Person(12), at |-> 400]}],
       [right EXCEPT !.governance = {[by |-> Mirror1, at |-> 400]}]>>

\* Another timestamp moved.
MovedEnd(right, move, t) ==
  CASE move = "witness" -> [right EXCEPT !.phase["phase1"].witnesses[1].at = t]
    [] move = "relay" -> [right EXCEPT !.phase["phase1"].beacon.observations[2].at = t]
    [] move = "recorded" -> [right EXCEPT !.phase["phase1"].beacon.recorded = t]
    [] move = "assembled" -> [right EXCEPT !.assembled = t]

EndTimes == Times \cup {199, 210, 211, 300, 410, 411, 419, 420, 499, 500}

\* A bundle is named by how it differs from the right one.
AsIs == <<"right", 0, "", 0>>
MCVariants ==
  {AsIs, <<"foreign", 0, "", 0>>}
  \cup {<<spot[1], spot[2], move, t>> : spot \in Spots, move \in Moves, t \in Times}
  \cup {<<"misnamed", n, "", 0>> : n \in DOMAIN Misnamed(Right)}
  \cup {<<"end", 0, move, t>> : move \in {"witness", "relay", "recorded", "assembled"}, t \in EndTimes}

BundleOf(right, v) ==
  CASE v[1] = "right" -> right
    [] v[1] = "misnamed" -> Misnamed(right)[v[2]]
    [] v[1] = "foreign" -> MovedCustody(right, <<"phase1", 1>>, "contributed", 41)
    [] v[1] = "end" -> MovedEnd(right, v[3], v[4])
    [] OTHER -> MovedCustody(right, <<v[1], v[2]>>, v[3], v[4])

MCBundles == [v \in MCVariants |-> BundleOf(Right, v)]

-----------------------------------------------------------------------------
\* The candidate is of the transcript the bundle is about, unless the bundle
\* is foreign.
TranscriptPhases(b) ==
  [p \in {"phase1", "phase2"} |-> [chain |-> b.phase[p].chain, close |-> b.phase[p].close]]

CandidateOf(phases, keys) ==
  [kind |-> "candidate", by |-> Person(1), keys |-> keys, phase |-> phases]
ManifestOf(keys, transcript) ==
  [kind |-> "manifest", by |-> Person(2), keys |-> keys, transcript |-> transcript]
TranscriptOf(phases, keys, audits) ==
  [kind |-> "transcript", keys |-> keys, phase |-> phases, audits |-> audits,
   operational |-> "bundle", at |-> 500]
AuditOf(who) == [kind |-> "audit", by |-> who, keys |-> "replayed", passed |-> TRUE]
ReportOf(who) == [kind |-> "report", by |-> who]

MCRoot ==
  [manifest |-> "manifest", candidate |-> "candidate", transcript |-> "transcript",
   operational |-> "bundle", audit1 |-> "audit1", audit2 |-> "audit2",
   candidateChecksums |-> "sums", releaseChecksums |-> "releaseSums",
   report1 |-> "report1", report2 |-> "report2",
   plan |-> "plan", checklist |-> "checklist", gate |-> "gate", stray |-> "none"]

OtherRoot ==
  [MCRoot EXCEPT !.manifest = "manifestOther", !.candidate = "candidateOther",
                 !.transcript = "transcriptOther", !.candidateChecksums = "sumsOther",
                 !.releaseChecksums = "releaseSumsOther"]
SwappedRoot ==
  [MCRoot EXCEPT !.manifest = "manifestSwap", !.transcript = "transcriptSwap",
                 !.releaseChecksums = "releaseSumsSwap"]

\* Checksums of a release with another manifest.
Resummed == [MCRoot EXCEPT !.manifest = "manifestSwap"]
MissummedRoot == [MCRoot EXCEPT !.releaseChecksums = "releaseSumsNew"]

ChecksumsOf(r, names) == [kind |-> "checksums", of |-> [name \in names |-> r[name]]]

\* The draft that pins what is in a root.
DraftOf(r) ==
  LET Ref(name) == [uri |-> name, name |-> name, digest |-> r[name]]
  IN [outcome |-> "GO",
      manifest |-> Ref("manifest"), candidate |-> Ref("candidate"),
      transcript |-> Ref("transcript"), operational |-> Ref("operational"),
      audits |-> <<[who |-> Auditor1, ref |-> Ref("audit1")],
                   [who |-> Auditor2, ref |-> Ref("audit2")]>>,
      externals |-> <<[who |-> External1, ref |-> Ref("report1")],
                      [who |-> External2, ref |-> Ref("report2")]>>,
      plan |-> Ref("plan"), checklist |-> Ref("checklist"),
      gates |-> <<[status |-> "pass", evidence |-> <<Ref("gate")>>]>>,
      tree |-> <<Ref("manifest"), Ref("candidate"), Ref("transcript"),
                 Ref("operational"), Ref("audit1"), Ref("audit2"),
                 Ref("candidateChecksums"), Ref("releaseChecksums")>>]

Go == DraftOf(MCRoot)

MCDrafts ==
  [go      |-> Go,
   nogo    |-> [Go EXCEPT !.outcome = "NO-GO", !.gates[1].status = "fail"],
   failing |-> [Go EXCEPT !.gates[1].status = "fail"],
   shared  |-> [Go EXCEPT !.checklist.uri = "gate"],
   twice   |-> [Go EXCEPT !.audits[2] = Go.audits[1]],
   third   |-> [Go EXCEPT !.audits[2].who = Auditor3],
   insider |-> [Go EXCEPT !.externals[1].who = Auditor3],
   partial |-> [Go EXCEPT !.tree = Tail(@)],
   other   |-> DraftOf(OtherRoot),
   swapped |-> DraftOf(SwappedRoot),
   missum  |-> DraftOf(MissummedRoot)]

As(role, who) == [role |-> role, id |-> who.id, key |-> who.key]
Signers ==
  {As("coordinator", Person(1)), As("releaseSigner", Person(2)),
   As("auditor", Auditor1), As("auditor", Auditor2)}
Pretenders ==
  {As("auditor", Auditor3), [role |-> "coordinator", id |-> 1, key |-> Auditor1.key]}

World(r, drafts, bundles, n, right) ==
  [root |-> r, drafts |-> drafts, bundles |-> bundles, edits |-> n, right |-> right]

MCWorlds ==
  [evidence |-> World(MCRoot, [go |-> Signers], MCVariants, 0, TRUE),
   edited   |-> World(MCRoot, [go |-> Signers \cup Pretenders], {AsIs}, 2, TRUE),
   both     |-> World(MCRoot, [go |-> Signers,
                               nogo |-> {As("coordinator", Person(1)), As("auditor", Auditor1)}],
                      {AsIs}, 0, FALSE),
   wrong    |-> World(MCRoot,
                      [d \in {"failing", "shared", "twice", "third", "insider", "partial"} |->
                         IF d = "shared" THEN Signers ELSE {As("coordinator", Person(1))}],
                      {AsIs}, 0, FALSE),
   other    |-> World(OtherRoot, [other |-> Signers], {AsIs}, 0, FALSE),
   swapped  |-> World(SwappedRoot, [swapped |-> Signers], {AsIs}, 0, FALSE),
   missum   |-> World(MissummedRoot, [missum |-> Signers], {AsIs}, 1, FALSE)]

Change(name, digest) == [name |-> name, digest |-> digest]
MCEdits ==
  {Change("report1", "revised1"), Change("report1", "report1"),
   Change("candidate", "candidateOther"), Change("candidate", "candidate"),
   Change("operational", "none"), Change("checklist", "none"),
   Change("stray", "gate"), Change("audit2", "audit1"),
   Change("manifest", "manifestSwap"), Change("releaseChecksums", "releaseSumsNew"),
   Change("releaseChecksums", "releaseSums")}

Digests ==
  UNION {{r[name] : name \in DOMAIN r} : r \in {MCRoot, OtherRoot, SwappedRoot, MissummedRoot}}
  \cup {change.digest : change \in MCEdits}

\* The documents that name no contribution
OtherDocuments ==
  [digest \in Digests |->
     CASE digest = "manifest" -> ManifestOf("replayed", "transcript")
       [] digest = "manifestOther" -> ManifestOf("other", "transcriptOther")
       [] digest = "manifestSwap" -> ManifestOf("replayed", "transcriptSwap")
       [] digest = "bundle" -> [kind |-> "operational"]
       [] digest = "audit1" -> AuditOf(Auditor1)
       [] digest = "audit2" -> AuditOf(Auditor2)
       [] digest \in {"report1", "revised1"} -> ReportOf(External1)
       [] digest = "report2" -> ReportOf(External2)
       [] digest = "sums" -> ChecksumsOf(MCRoot, candidateChecksumNames)
       [] digest = "sumsOther" -> ChecksumsOf(OtherRoot, candidateChecksumNames)
       [] digest = "releaseSums" -> ChecksumsOf(MCRoot, releaseChecksumNames)
       [] digest = "releaseSumsOther" -> ChecksumsOf(OtherRoot, releaseChecksumNames)
       [] digest = "releaseSumsSwap" -> ChecksumsOf(SwappedRoot, releaseChecksumNames)
       [] digest = "releaseSumsNew" -> ChecksumsOf(Resummed, releaseChecksumNames)
       [] OTHER -> [kind |-> "other"]]

DocumentsOf(phases) ==
  [OtherDocuments EXCEPT
     !["candidate"] = CandidateOf(phases, "replayed"),
     !["candidateOther"] = CandidateOf(phases, "other"),
     !["transcript"] = TranscriptOf(phases, "replayed", <<"audit1", "audit2">>),
     !["transcriptOther"] = TranscriptOf(phases, "other", <<"audit1", "audit2">>),
     !["transcriptSwap"] = TranscriptOf(phases, "replayed", <<"audit2", "audit1">>)]

MCDocuments ==
  [v \in MCVariants |->
     DocumentsOf(TranscriptPhases(BundleOf(Right, IF v[1] = "foreign" THEN AsIs ELSE v)))]

MCMissing == "none"
=============================================================================
