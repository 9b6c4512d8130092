---------------------------- MODULE Phase_proofs -----------------------------
(***************************************************************************)
(* One phase of the ceremony: its contributions (ContributionChain) and    *)
(* its closure (PhaseClosure), for any number of processes.                *)
(*                                                                         *)
(* Contributions cannot fork, publish chains that load unless they were    *)
(* made out of turn, and can always be resumed.  ChainInv is inductive: it *)
(* is about every tree a power loss may leave, not only the visible one,   *)
(* because that tree becomes the visible one, and about what running       *)
(* acceptances have seen of it.                                            *)
(*                                                                         *)
(* The central step is TreeGrows.  A file is new under its index; by the   *)
(* order of publication nothing behind it is there and all before it is    *)
(* the acceptance's own, so the index belongs to one candidate; and every  *)
(* chain that loads is below the index, so nothing it rests on changes.    *)
(*                                                                         *)
(* A closure commits to one round, with the witness lead, under one        *)
(* assumption about scheduling: a process is not held between its guard    *)
(* and its rename for longer than the safety margin.                       *)
(***************************************************************************)
EXTENDS ContributionChain, PhaseClosure, SequenceTheorems, TLAPS

-----------------------------------------------------------------------------
\* The six files of an index.
LEMMA FileNames ==
  /\ DOMAIN Files = 1..6 /\ Len(Files) = 6
  /\ Files[1] = "payload" /\ Files[2] = "attestation" /\ Files[3] = "erasure"
  /\ Files[4] = "verification" /\ Files[5] = "chainSig" /\ Files[6] = "chain"
  /\ Range(Files) = {"payload", "attestation", "erasure", "verification", "chainSig", "chain"}
<1>1. /\ DOMAIN Files = 1..6 /\ Len(Files) = 6
      /\ Files[1] = "payload" /\ Files[2] = "attestation" /\ Files[3] = "erasure"
      /\ Files[4] = "verification" /\ Files[5] = "chainSig" /\ Files[6] = "chain"
  BY DEF Files
<1>2. Range(Files) = {Files[x] : x \in 1..6}
  BY <1>1 DEF Range
<1> QED
  BY <1>1, <1>2

\* The chain document and its signature are about the whole chain.
LEMMA ChainBytes ==
  ASSUME NEW chain
  PROVE  Bytes(chain, "chain") = chain /\ Bytes(chain, "chainSig") = chain
BY DEF Bytes

\* A chain with one more record.
LEMMA Extended ==
  ASSUME NEW chain, IsChain(chain), NEW r
  PROVE  LET longer == Append(chain, r) IN
         /\ IsChain(longer)
         /\ Len(chain) \in Nat /\ DOMAIN chain = 1..Len(chain)
         /\ Len(longer) = Len(chain) + 1 /\ DOMAIN longer = 1..(Len(chain) + 1)
         /\ Last(longer) = r /\ longer[Len(chain) + 1] = r
         /\ longer # <<>>
         /\ \A i \in 1..Len(chain) : longer[i] = chain[i]
         /\ \A j \in 0..Len(chain) : SubSeq(longer, 1, j) = SubSeq(chain, 1, j)
         /\ SubSeq(longer, 1, Len(chain)) = chain
         /\ SubSeq(longer, 1, Len(chain) + 1) = longer
<1> DEFINE S == Range(chain) \cup {r}
           longer == Append(chain, r)
<1>1. chain \in Seq(S) /\ Len(chain) \in Nat /\ DOMAIN chain = 1..Len(chain)
  BY DEF IsChain, Range
<1>2. longer \in Seq(S) /\ Len(longer) = Len(chain) + 1 /\ longer[Len(chain) + 1] = r
      /\ \A i \in 1..Len(chain) : longer[i] = chain[i]
  BY <1>1
<1>3. DOMAIN longer = 1..(Len(chain) + 1)
  BY <1>1, <1>2
<1>4. Range(longer) = S
  BY <1>1, <1>2, <1>3 DEF Range
<1>5. IsChain(longer)
  BY <1>2, <1>4 DEF IsChain
<1>6. \A j \in 0..Len(chain) : SubSeq(longer, 1, j) = SubSeq(chain, 1, j)
  BY <1>1, <1>2
<1>7. SubSeq(longer, 1, Len(chain) + 1) = longer /\ SubSeq(chain, 1, Len(chain)) = chain
  BY <1>1, <1>2
<1>8. Last(longer) = r
  BY <1>2 DEF Last
<1>9. longer # <<>>
  BY <1>1, <1>2
<1> QED
  BY <1>1, <1>2, <1>3, <1>5, <1>6, <1>7, <1>8, <1>9

-----------------------------------------------------------------------------
(* What a tree holds. *)

\* The indices a chain may have.
LEMMA ScheduleFacts == MaxParticipants \in Nat /\ Indices = 1..MaxParticipants
BY ScheduleAssumption DEF Indices

\* An index with a chain document has all its files: the document comes last.
LEMMA FullIndex ==
  ASSUME NEW tree, TreeInv(tree), NEW i \in Indices, Exists(tree, i, "chain")
  PROVE  DOMAIN tree[i] = Range(Files)
<1>1. \A a \in 1..6 : Exists(tree, i, Files[a])
  BY FileNames DEF TreeInv, InOrder
<1> QED
  BY <1>1, FileNames DEF Exists, TreeInv

\* A chain that loads is as long as its name says, and has its prefixes below it.
LEMMA LoadedChain ==
  ASSUME NEW tree, TreeInv(tree), NEW k \in 0..MaxParticipants, Loads(tree, k)
  PROVE  /\ IsChain(ChainFile(tree, k))
         /\ Len(ChainFile(tree, k)) = k
         /\ DOMAIN ChainFile(tree, k) = 1..k
         /\ \A j \in 1..k : Holds(tree, j, "chain", SubSeq(ChainFile(tree, k), 1, j))
<1>1. CASE k = 0
  <2>1. ChainFile(tree, k) = <<>>
    BY <1>1 DEF ChainFile
  <2>2. IsChain(<<>>) /\ Len(<<>>) = 0 /\ DOMAIN <<>> = 1..0
    BY DEF IsChain
  <2> QED
    BY <1>1, <2>1, <2>2
<1>2. CASE k # 0
  <2>1. k \in Indices /\ Exists(tree, k, "chain") /\ ChainFile(tree, k) = tree[k]["chain"]
    BY <1>2, ScheduleFacts DEF Loads, ChainFile
  <2>2. IsChain(ChainFile(tree, k)) /\ Len(ChainFile(tree, k)) = k
        /\ \A j \in 1..k : Holds(tree, j, "chain", SubSeq(ChainFile(tree, k), 1, j))
    BY <2>1 DEF TreeInv, Rooted
  <2>3. DOMAIN ChainFile(tree, k) = 1..k
    BY <2>2 DEF IsChain
  <2> QED
    BY <2>2, <2>3
<1> QED
  BY <1>1, <1>2

\* The chain that an acceptance publishes.
LEMMA AcceptedChain ==
  ASSUME NEW tree, TreeInv(tree), NEW n \in Indices, NEW d, NEW t,
         Acceptable(tree, d, n - 1, t)
  PROVE  LET chain == ChainFile(tree, n - 1)
             longer == Accepted(tree, d, n - 1, t)
         IN
         /\ n - 1 \in 0..MaxParticipants /\ Loads(tree, n - 1)
         /\ IsChain(longer) /\ Len(longer) = n /\ DOMAIN longer = 1..n /\ longer # <<>>
         /\ longer[n] = ChainRecord(candidate[d], t)
         /\ SubSeq(longer, 1, n - 1) = chain /\ SubSeq(longer, 1, n) = longer
         /\ \A i \in 1..(n - 1) : /\ longer[i] = chain[i]
                                  /\ SubSeq(longer, 1, i - 1) = SubSeq(chain, 1, i - 1)
                                  /\ SubSeq(longer, 1, i) = SubSeq(chain, 1, i)
                                  /\ Holds(tree, i, "chain", SubSeq(longer, 1, i))
<1> DEFINE chain == ChainFile(tree, n - 1)
           r == ChainRecord(candidate[d], t)
<1>1. n - 1 \in 0..MaxParticipants /\ n \in Nat /\ Loads(tree, n - 1)
  BY ScheduleFacts DEF Acceptable
<1>2. /\ IsChain(chain) /\ Len(chain) = n - 1
      /\ \A j \in 1..(n - 1) : Holds(tree, j, "chain", SubSeq(chain, 1, j))
  BY <1>1, LoadedChain
<1>3. Accepted(tree, d, n - 1, t) = Append(chain, r)
  BY DEF Accepted
<1> HIDE DEF chain, r
<1>4. /\ IsChain(Append(chain, r)) /\ Len(Append(chain, r)) = n /\ DOMAIN Append(chain, r) = 1..n
      /\ Append(chain, r) # <<>> /\ Append(chain, r)[n] = r
      /\ SubSeq(Append(chain, r), 1, n - 1) = chain
      /\ SubSeq(Append(chain, r), 1, n) = Append(chain, r)
      /\ \A i \in 1..(n - 1) : Append(chain, r)[i] = chain[i]
      /\ \A j \in 0..(n - 1) : SubSeq(Append(chain, r), 1, j) = SubSeq(chain, 1, j)
  BY <1>1, <1>2, Extended
<1>5. \A i \in 1..(n - 1) : i \in 0..(n - 1) /\ i - 1 \in 0..(n - 1)
  BY <1>1
<1> QED
  BY <1>1, <1>2, <1>3, <1>4, <1>5 DEF chain, r

\* A chain document in a tree extends one that loads, and the next command
\* refuses it only for the order: the files of its own index account for the
\* last record, the ones below for the others.
LEMMA TreeLoads ==
  ASSUME NEW tree, TreeInv(tree), NEW n \in Indices, Exists(tree, n, "chain")
  PROVE  /\ Loads(tree, n - 1)
         /\ Loads(tree, n) <=> InTurn(n, Last(tree[n]["chain"]).attestation.participant)
<1>1. DOMAIN tree[n] = Range(Files)
  BY FullIndex
<1>2. PICK d \in Dirs, t \in AcceptedAt : Completes(tree, d, n, t)
  BY <1>1, FileNames DEF TreeInv
<1> DEFINE chain == ChainFile(tree, n - 1)
           longer == Accepted(tree, d, n - 1, t)
           r == ChainRecord(candidate[d], t)
<1>3. /\ Loads(tree, n - 1) /\ candidate[d] # None
      /\ ValidateAttestationAcceptance(chain, r)
      /\ Validate(longer)
  BY <1>2 DEF Completes, Acceptable, Accepted
<1>4. /\ n \in Nat /\ n > 0 /\ n - 1 \in 0..MaxParticipants /\ n <= MaxParticipants
  BY ScheduleFacts
<1>5. /\ Len(longer) = n /\ DOMAIN longer = 1..n
      /\ longer[n] = r
      /\ SubSeq(longer, 1, n - 1) = chain /\ SubSeq(longer, 1, n) = longer
      /\ \A i \in 1..(n - 1) : /\ longer[i] = chain[i]
                               /\ SubSeq(longer, 1, i - 1) = SubSeq(chain, 1, i - 1)
                               /\ SubSeq(longer, 1, i) = SubSeq(chain, 1, i)
  BY <1>2, AcceptedChain DEF Completes
<1>6. Len(chain) = n - 1 /\ DOMAIN chain = 1..(n - 1)
  BY <1>3, <1>4, LoadedChain
<1>7. \A f \in Range(Files) : Holds(tree, n, f, Bytes(longer, f))
  BY <1>1, <1>2, <1>5 DEF Completes, AbsentOrExact, Exists, Holds
<1>8. tree[n]["chain"] = longer /\ Holds(tree, n, "chainSig", longer)
  BY <1>7, ChainBytes, FileNames DEF Holds
<1>9. Last(longer) = r
  BY <1>5 DEF Last
<1> HIDE DEF chain, longer, r
<1>10. Last(tree[n]["chain"]).attestation = r.attestation
  BY <1>8, <1>9
<1>11. \A i \in 1..(n - 1) : /\ InTurn(i, chain[i].attestation.participant)
                             /\ ValidateAttestationAcceptance(SubSeq(chain, 1, i - 1), chain[i])
                             /\ \A f \in Range(Files) \ {"chainSig", "chain"} :
                                  Holds(tree, i, f, Bytes(SubSeq(chain, 1, i), f))
  <2>1. CASE n = 1
    BY <2>1
  <2>2. CASE n # 1
    <3>1. ValidateAgainstDefinition(chain) /\ VerifyChainFiles(tree, chain)
      BY <1>3, <1>4, <2>2 DEF Loads, chain
    <3> QED
      BY <1>6, <3>1 DEF ValidateAgainstDefinition, VerifyChainFiles
  <2> QED
    BY <2>1, <2>2
<1>12. ASSUME InTurn(n, r.attestation.participant) PROVE ValidateAgainstDefinition(longer)
  <2>1. ASSUME NEW i \in 1..n PROVE InTurn(i, longer[i].attestation.participant)
    <3>1. CASE i = n
      BY <1>5, <1>12, <3>1
    <3>2. CASE i # n
      <4>1. i \in 1..(n - 1)
        BY <1>4, <3>2
      <4> QED
        BY <1>5, <1>11, <4>1
    <3> QED
      BY <3>1, <3>2
  <2> QED
    BY <1>3, <1>5, <2>1 DEF ValidateAgainstDefinition
<1>13. VerifyChainFiles(tree, longer)
  <2> SUFFICES ASSUME NEW i \in 1..n
               PROVE  /\ \A f \in Range(Files) \ {"chainSig", "chain"} :
                             Holds(tree, i, f, Bytes(SubSeq(longer, 1, i), f))
                      /\ ValidateAttestationAcceptance(SubSeq(longer, 1, i - 1), longer[i])
    BY <1>5 DEF VerifyChainFiles
  <2>1. CASE i = n
    BY <1>3, <1>5, <1>7, <2>1
  <2>2. CASE i # n
    <3>1. i \in 1..(n - 1)
      BY <1>4, <2>2
    <3> QED
      BY <1>5, <1>11, <3>1
  <2> QED
    BY <2>1, <2>2
<1>14. ASSUME Loads(tree, n) PROVE InTurn(n, r.attestation.participant)
  <2>1. ValidateAgainstDefinition(longer)
    BY <1>4, <1>8, <1>14 DEF Loads, ChainFile
  <2>2. n \in 1..n
    BY <1>4
  <2> QED
    BY <1>5, <2>1, <2>2 DEF ValidateAgainstDefinition
<1>15. ASSUME InTurn(n, r.attestation.participant) PROVE Loads(tree, n)
  BY <1>4, <1>8, <1>12, <1>13, <1>15 DEF Loads, ChainFile
<1> QED
  BY <1>3, <1>10, <1>14, <1>15

-----------------------------------------------------------------------------
(* One more file. *)

\* Writing a file changes that file and nothing else.
LEMMA NewFile ==
  ASSUME NEW tree, TreeInv(tree), NEW chain, Len(chain) \in Indices, NEW f
  PROVE  LET tree2 == WithFile(tree, chain, f)
             n == Len(chain)
         IN
         /\ DOMAIN tree2 = Indices
         /\ \A i \in Indices : i # n => tree2[i] = tree[i]
         /\ DOMAIN tree2[n] = DOMAIN tree[n] \cup {f}
         /\ tree2[n][f] = Bytes(chain, f)
         /\ \A g \in DOMAIN tree[n] : g # f => tree2[n][g] = tree[n][g]
<1>1. DOMAIN tree = Indices
  BY DEF TreeInv
<1> DEFINE h == [g \in DOMAIN tree[Len(chain)] \cup {f} |->
                   IF g = f THEN Bytes(chain, f) ELSE tree[Len(chain)][g]]
<1>2. WithFile(tree, chain, f) = [tree EXCEPT ![Len(chain)] = h]
  BY DEF WithFile
<1>3. /\ DOMAIN h = DOMAIN tree[Len(chain)] \cup {f}
      /\ h[f] = Bytes(chain, f)
      /\ \A g \in DOMAIN tree[Len(chain)] : g # f => h[g] = tree[Len(chain)][g]
  OBVIOUS
<1> HIDE DEF h
<1> QED
  BY <1>1, <1>2, <1>3

\* A file that was missing under an index takes nothing from the chains that
\* load: they are the ones below it.
LEMMA StillLoads ==
  ASSUME NEW tree, TreeInv(tree), NEW chain, Len(chain) \in Indices,
         NEW f \in Range(Files), ~Exists(tree, Len(chain), f),
         NEW k \in 0..MaxParticipants, Loads(tree, k)
  PROVE  LET tree2 == WithFile(tree, chain, f) IN
         /\ k < Len(chain)
         /\ Loads(tree2, k)
         /\ ChainFile(tree2, k) = ChainFile(tree, k)
         /\ \A j \in 1..k : tree2[j] = tree[j]
<1> DEFINE tree2 == WithFile(tree, chain, f)
           n == Len(chain)
           old == ChainFile(tree, k)
<1>1. n \in 1..MaxParticipants /\ MaxParticipants \in Nat /\ Indices = 1..MaxParticipants
  BY ScheduleFacts
<1>2. /\ DOMAIN old = 1..k
      /\ \A j \in 1..k : Exists(tree, j, "chain")
  BY LoadedChain DEF Holds
<1>3. k < n
  <2>1. \A j \in 1..k : DOMAIN tree[j] = Range(Files)
    BY <1>1, <1>2, FullIndex
  <2>2. n \notin 1..k
    BY <2>1 DEF Exists
  <2> QED
    BY <1>1, <2>2
<1>4. \A j \in 1..k : tree2[j] = tree[j]
  BY <1>1, <1>3, NewFile
<1>5. ChainFile(tree2, k) = old
  BY <1>4 DEF ChainFile
<1> HIDE DEF tree2, n, old
<1>6. Loads(tree2, k)
  <2> SUFFICES ASSUME k > 0
               PROVE  /\ Exists(tree2, k, "chain") /\ Holds(tree2, k, "chainSig", old)
                      /\ ValidateAgainstDefinition(old) /\ VerifyChainFiles(tree2, old)
    BY <1>5 DEF Loads
  <2>1. /\ Exists(tree, k, "chain") /\ Holds(tree, k, "chainSig", old)
        /\ ValidateAgainstDefinition(old) /\ VerifyChainFiles(tree, old)
    BY DEF Loads, old
  <2>2. Exists(tree2, k, "chain") /\ Holds(tree2, k, "chainSig", old)
    BY <1>4, <2>1 DEF Exists, Holds
  <2>3. VerifyChainFiles(tree2, old)
    BY <1>2, <1>4, <2>1 DEF VerifyChainFiles, Exists, Holds
  <2> QED
    BY <2>1, <2>2, <2>3
<1> QED
  BY <1>3, <1>4, <1>5, <1>6 DEF tree2, n, old

\* ... nor from the candidates that could be accepted.
LEMMA StillAcceptable ==
  ASSUME NEW tree, TreeInv(tree), NEW chain, Len(chain) \in Indices,
         NEW f \in Range(Files), ~Exists(tree, Len(chain), f),
         NEW n \in Indices, NEW d, NEW t, Acceptable(tree, d, n - 1, t)
  PROVE  LET tree2 == WithFile(tree, chain, f) IN
         /\ n <= Len(chain)
         /\ Acceptable(tree2, d, n - 1, t)
         /\ Accepted(tree2, d, n - 1, t) = Accepted(tree, d, n - 1, t)
<1> DEFINE tree2 == WithFile(tree, chain, f)
<1>1. n - 1 \in 0..MaxParticipants /\ Loads(tree, n - 1) /\ n \in Nat /\ Len(chain) \in Nat
  BY ScheduleFacts DEF Acceptable
<1>2. n - 1 < Len(chain) /\ Loads(tree2, n - 1) /\ ChainFile(tree2, n - 1) = ChainFile(tree, n - 1)
  BY <1>1, StillLoads
<1> HIDE DEF tree2
<1>3. Acceptable(tree2, d, n - 1, t) /\ Accepted(tree2, d, n - 1, t) = Accepted(tree, d, n - 1, t)
  BY <1>2 DEF Acceptable, Accepted
<1> QED
  BY <1>1, <1>2, <1>3 DEF tree2

\* Publication in order, by an acceptance whose earlier files are its own, keeps
\* the invariant of the tree.
LEMMA TreeGrows ==
  ASSUME NEW tree, TreeInv(tree), NEW n \in Indices, NEW d \in Dirs, NEW t \in AcceptedAt,
         Acceptable(tree, d, n - 1, t), NEW chain, chain = Accepted(tree, d, n - 1, t),
         NEW m \in 1..6, ~Exists(tree, n, Files[m]),
         \A a \in 1..6 : a < m => Holds(tree, n, Files[a], Bytes(chain, Files[a]))
  PROVE  TreeInv(WithFile(tree, chain, Files[m]))
<1> DEFINE f == Files[m]
           tree2 == WithFile(tree, chain, f)
<1>1. /\ IsChain(chain) /\ Len(chain) = n /\ n \in Nat /\ SubSeq(chain, 1, n) = chain
      /\ \A i \in 1..(n - 1) : Holds(tree, i, "chain", SubSeq(chain, 1, i))
  BY AcceptedChain, ScheduleFacts
<1>2. f \in Range(Files) /\ Len(chain) \in Indices /\ ~Exists(tree, Len(chain), f)
  BY <1>1, FileNames
<1>3. /\ DOMAIN tree2 = Indices
      /\ \A i \in Indices : i # n => tree2[i] = tree[i]
      /\ DOMAIN tree2[n] = DOMAIN tree[n] \cup {f}
      /\ tree2[n][f] = Bytes(chain, f)
      /\ \A g \in DOMAIN tree[n] : g # f => tree2[n][g] = tree[n][g]
  <2>1. Len(chain) = n /\ Len(chain) \in Indices
    BY <1>1, <1>2
  <2> HIDE DEF f
  <2>2. /\ DOMAIN tree2 = Indices
        /\ \A i \in Indices : i # Len(chain) => tree2[i] = tree[i]
        /\ DOMAIN tree2[Len(chain)] = DOMAIN tree[Len(chain)] \cup {f}
        /\ tree2[Len(chain)][f] = Bytes(chain, f)
        /\ \A g \in DOMAIN tree[Len(chain)] :
             g # f => tree2[Len(chain)][g] = tree[Len(chain)][g]
    BY <2>1, NewFile
  <2> HIDE DEF tree2
  <2> QED
    BY <2>1, <2>2
<1>4. \A i \in Indices : \A e, u : Acceptable(tree, e, i - 1, u) =>
        /\ i <= n /\ Acceptable(tree2, e, i - 1, u)
        /\ Accepted(tree2, e, i - 1, u) = Accepted(tree, e, i - 1, u)
  BY <1>1, <1>2, StillAcceptable
<1>5. \A a \in 1..6 : Exists(tree, n, Files[a]) => a < m
  BY FileNames DEF TreeInv, InOrder
<1> HIDE DEF f, tree2
<1>6. \A i \in Indices : DOMAIN tree2[i] \subseteq Range(Files)
  BY <1>2, <1>3 DEF TreeInv
<1>7. InOrder(tree2)
  <2> SUFFICES ASSUME NEW i \in Indices, NEW a \in 1..6, NEW b \in 1..6, a < b,
                      Exists(tree2, i, Files[b])
               PROVE  Exists(tree2, i, Files[a])
    BY FileNames DEF InOrder
  <2>1. CASE i # n
    BY <1>3, <2>1, FileNames DEF TreeInv, InOrder, Exists
  <2>2. CASE i = n
    <3>1. CASE b = m
      BY <1>3, <2>2, <3>1 DEF Exists, Holds
    <3>2. CASE b # m
      <4>1. Files[b] # f
        BY <3>2, FileNames DEF f
      <4>2. Exists(tree, n, Files[b])
        BY <1>3, <2>2, <4>1 DEF Exists
      <4>3. Exists(tree, n, Files[a])
        BY <4>2, FileNames DEF TreeInv, InOrder
      <4> QED
        BY <1>3, <2>2, <4>3 DEF Exists
    <3> QED
      BY <3>1, <3>2
  <2> QED
    BY <2>1, <2>2
<1>8. \A g \in DOMAIN tree2[n] : tree2[n][g] = Bytes(chain, g)
  <2>1. \A g \in DOMAIN tree[n] : tree[n][g] = Bytes(chain, g) /\ g # f
    <3> SUFFICES ASSUME NEW g \in DOMAIN tree[n] PROVE tree[n][g] = Bytes(chain, g) /\ g # f
      OBVIOUS
    <3>1. g \in Range(Files)
      BY DEF TreeInv
    <3>2. PICK a \in 1..6 : g = Files[a]
      BY <3>1, FileNames
    <3>3. a < m
      BY <1>5, <3>2 DEF Exists
    <3> QED
      BY <1>2, <1>1, <3>2, <3>3 DEF Holds, Exists
  <2> QED
    BY <1>3, <2>1
<1>9. Rooted(tree2)
  <2> SUFFICES ASSUME NEW i \in Indices, Exists(tree2, i, "chain")
               PROVE  /\ IsChain(tree2[i]["chain"])
                      /\ Len(tree2[i]["chain"]) = i
                      /\ \A j \in 1..i : Holds(tree2, j, "chain", SubSeq(tree2[i]["chain"], 1, j))
    BY DEF Rooted
  <2>1. CASE i = n
    <3>1. tree2[n]["chain"] = chain
      BY <1>8, <2>1, ChainBytes DEF Exists
    <3>2. \A j \in 1..(n - 1) : j \in Indices /\ j # n
      BY <1>1, ScheduleFacts
    <3>3. \A j \in 1..(n - 1) : Holds(tree2, j, "chain", SubSeq(chain, 1, j))
      BY <1>1, <1>3, <3>2 DEF Holds, Exists
    <3>4. Holds(tree2, n, "chain", SubSeq(chain, 1, n))
      BY <1>1, <2>1, <3>1 DEF Holds
    <3>5. \A j \in 1..n : j = n \/ j \in 1..(n - 1)
      BY <1>1
    <3> QED
      BY <1>1, <2>1, <3>1, <3>3, <3>4, <3>5
  <2>2. CASE i # n
    <3>1. tree2[i] = tree[i] /\ Exists(tree, i, "chain")
      BY <1>3, <2>2 DEF Exists
    <3>2. /\ IsChain(tree[i]["chain"]) /\ Len(tree[i]["chain"]) = i
          /\ \A j \in 1..i : Holds(tree, j, "chain", SubSeq(tree[i]["chain"], 1, j))
      BY <3>1 DEF TreeInv, Rooted
    <3>3. \A j \in 1..i : j \in Indices
      BY ScheduleFacts
    <3>4. \A j \in 1..i : j # n
      <4>1. ASSUME NEW j \in 1..i, j = n PROVE FALSE
        <5>1. DOMAIN tree[n] = Range(Files)
          BY <3>2, <4>1, FullIndex DEF Holds
        <5> QED
          BY <1>1, <1>2, <5>1 DEF Exists
      <4> QED
        BY <4>1
    <3> QED
      BY <1>3, <3>1, <3>2, <3>3, <3>4 DEF Holds, Exists
  <2> QED
    BY <2>1, <2>2
<1>10. \A i \in Indices :
         DOMAIN tree2[i] # {} => \E e \in Dirs, u \in AcceptedAt : Completes(tree2, e, i, u)
  <2> SUFFICES ASSUME NEW i \in Indices, DOMAIN tree2[i] # {}
               PROVE  \E e \in Dirs, u \in AcceptedAt : Completes(tree2, e, i, u)
    OBVIOUS
  <2>1. CASE i = n
    <3>1. Acceptable(tree2, d, n - 1, t) /\ Accepted(tree2, d, n - 1, t) = chain
      BY <1>4
    <3>2. Completes(tree2, d, n, t)
      BY <1>1, <1>8, <3>1 DEF Completes, AbsentOrExact, Exists
    <3> QED
      BY <2>1, <3>2
  <2>2. CASE i # n
    <3>1. PICK e \in Dirs, u \in AcceptedAt : Completes(tree, e, i, u)
      BY <1>3, <2>2 DEF TreeInv
    <3>2. /\ Acceptable(tree2, e, i - 1, u)
          /\ Accepted(tree2, e, i - 1, u) = Accepted(tree, e, i - 1, u)
          /\ Len(Accepted(tree, e, i - 1, u)) = i
      BY <1>4, <3>1, AcceptedChain DEF Completes
    <3>3. Completes(tree2, e, i, u)
      BY <1>3, <2>2, <3>1, <3>2 DEF Completes, AbsentOrExact, Exists
    <3> QED
      BY <3>3
  <2> QED
    BY <2>1, <2>2
<1> QED
  BY <1>3, <1>6, <1>7, <1>9, <1>10 DEF TreeInv, tree2, f

-----------------------------------------------------------------------------
(* Candidates. *)

\* A candidate that could be accepted does not change any more.
CandidatesStay ==
  \A d \in Dirs : candidate[d] # None /\ candidate[d].destroyedAt # None =>
    candidate'[d] = candidate[d]

\* A candidate that is acceptable stays so, with the same record.
LEMMA AcceptableStays ==
  ASSUME CandidatesStay, NEW tree, NEW d \in Dirs, NEW k, NEW t, Acceptable(tree, d, k, t)
  PROVE  Acceptable(tree, d, k, t)' /\ Accepted(tree, d, k, t)' = Accepted(tree, d, k, t)
<1>1. candidate'[d] = candidate[d]
  BY DEF CandidatesStay, Acceptable
<1> QED
  BY <1>1 DEF Acceptable, Accepted

\* The invariant of a tree survives what participants do to candidates.
LEMMA TreeStays ==
  ASSUME CandidatesStay, NEW tree, TreeInv(tree)
  PROVE  TreeInv(tree)'
<1>1. \A i \in Indices : DOMAIN tree[i] # {} =>
        (\E d \in Dirs, t \in AcceptedAt : Completes(tree, d, i, t)')
  <2> SUFFICES ASSUME NEW i \in Indices, DOMAIN tree[i] # {}
               PROVE  \E d \in Dirs, t \in AcceptedAt : Completes(tree, d, i, t)'
    OBVIOUS
  <2>1. PICK d \in Dirs, t \in AcceptedAt : Completes(tree, d, i, t)
    BY DEF TreeInv
  <2>2. /\ Acceptable(tree, d, i - 1, t)'
        /\ Accepted(tree, d, i - 1, t)' = Accepted(tree, d, i - 1, t)
    BY <2>1, AcceptableStays DEF Completes
  <2>3. Completes(tree, d, i, t)'
    BY <2>1, <2>2 DEF Completes
  <2> QED
    BY <2>3
<1> QED
  BY <1>1 DEF TreeInv

\* The tree that processes see is one of the history.
LEMMA VisibleTree ==
  ASSUME ChainInv
  PROVE  /\ Visible \in Range(disk) /\ TreeInv(Visible)
         /\ disk \in Seq(Range(disk)) /\ disk # <<>>
<1>1. disk \in Seq(Range(disk)) /\ disk # <<>>
  BY DEF ChainInv
<1>2. Len(disk) \in DOMAIN disk
  BY <1>1
<1>3. Visible \in Range(disk)
  BY <1>2 DEF Visible, Last, Range
<1> QED
  BY <1>1, <1>3 DEF ChainInv

\* The commands of the participants: only candidates change.
LEMMA CandidateStep ==
  ASSUME ChainInv, CandidatesInv', CandidatesStay, UNCHANGED <<disk, next, file, linked>>
  PROVE  ChainInv'
<1>1. \A s \in Range(disk') : TreeInv(s)'
  BY TreeStays DEF ChainInv
<1>2. PICK s : s = Visible
  OBVIOUS
<1>3. Visible' = s
  BY <1>2 DEF Visible
<1>4. ASSUME NEW c \in Acceptors PROVE AcceptorInv(c)'
  <2>1. AcceptorInv(c)
    BY DEF ChainInv
  <2>2. CASE next[c] = <<>>
    BY <2>1, <2>2 DEF AcceptorInv
  <2>3. CASE next[c] # <<>>
    <3>1. PICK d \in Dirs, t \in AcceptedAt :
            /\ Acceptable(s, d, Len(next[c]) - 1, t)
            /\ next[c] = Accepted(s, d, Len(next[c]) - 1, t)
      BY <1>2, <2>1, <2>3 DEF AcceptorInv
    <3>2. PICK k : k = Len(next[c]) - 1
      OBVIOUS
    <3>3. Acceptable(s, d, k, t)' /\ Accepted(s, d, k, t)' = next[c]
      BY <3>1, <3>2, AcceptableStays
    <3>4. /\ Acceptable(Visible, d, Len(next[c]) - 1, t)'
          /\ next'[c] = Accepted(Visible, d, Len(next[c]) - 1, t)'
      BY <1>3, <3>2, <3>3
    <3> QED
      BY <1>2, <1>3, <2>1, <2>3, <3>4 DEF AcceptorInv
  <2> QED
    BY <2>2, <2>3
<1> QED
  BY <1>1, <1>4 DEF ChainInv

\* A contribution, in turn or not, fills a directory that held no candidate.
LEMMA MakeCandidateStep ==
  ASSUME ChainInv, NEW d \in Dirs, NEW p \in Participants, NEW k \in 0..MaxParticipants,
         NEW t \in ContributedAt, MakeCandidate(d, p, k, t)
  PROVE  ChainInv'
<1> DEFINE v == [attestation |-> Attestation(d, p, k, t), destroyedAt |-> None]
<1>1. /\ candidate[d] = None /\ candidate' = [candidate EXCEPT ![d] = v]
      /\ k < MaxParticipants
      /\ UNCHANGED <<disk, next, file, linked>>
  BY DEF MakeCandidate
<1>2. k + 1 \in Indices
  BY <1>1, ScheduleFacts
<1>3. /\ v = [attestation |-> v.attestation, destroyedAt |-> v.destroyedAt]
      /\ v.attestation.output = d /\ v.attestation.index = k + 1
      /\ v.attestation.participant = p /\ v.attestation.contributedAt = t
      /\ v.destroyedAt = None
  BY DEF Attestation
<1> HIDE DEF v
<1>4. /\ DOMAIN candidate' = Dirs /\ candidate'[d] = v
      /\ \A e \in Dirs : e # d => candidate'[e] = candidate[e]
  BY <1>1 DEF ChainInv, CandidatesInv
<1>5. CandidatesInv'
  <2> SUFFICES ASSUME NEW e \in Dirs, candidate'[e] # None
               PROVE  /\ candidate'[e] = [attestation |-> candidate'[e].attestation,
                                          destroyedAt |-> candidate'[e].destroyedAt]
                      /\ candidate'[e].attestation.output = e
                      /\ candidate'[e].attestation.index \in Indices
                      /\ candidate'[e].attestation.participant \in Participants
                      /\ candidate'[e].attestation.contributedAt \in ContributedAt
                      /\ candidate'[e].destroyedAt \in DestroyedAt \cup {None}
    BY <1>4 DEF CandidatesInv
  <2>1. CASE e = d
    BY <1>1, <1>2, <1>3, <1>4, <2>1
  <2>2. CASE e # d
    BY <1>4, <2>2 DEF ChainInv, CandidatesInv
  <2> QED
    BY <2>1, <2>2
<1>6. CandidatesStay
  BY <1>1, <1>4 DEF CandidatesStay
<1> QED
  BY <1>1, <1>5, <1>6, CandidateStep

\* An erasure record completes a candidate that nobody could accept before.
LEMMA RecordErasureStep ==
  ASSUME ChainInv, NEW d \in Dirs, NEW t \in DestroyedAt, RecordErasure(d, t)
  PROVE  ChainInv'
<1> DEFINE v == [attestation |-> candidate[d].attestation, destroyedAt |-> t]
<1>1. /\ candidate[d] # None /\ candidate[d].destroyedAt = None
      /\ candidate' = [candidate EXCEPT ![d].destroyedAt = t]
      /\ UNCHANGED <<disk, next, file, linked>>
  BY DEF RecordErasure
<1>2. candidate[d] = [attestation |-> candidate[d].attestation,
                      destroyedAt |-> candidate[d].destroyedAt]
  BY <1>1 DEF ChainInv, CandidatesInv
<1>3. v = [candidate[d] EXCEPT !.destroyedAt = t]
  BY <1>2
<1>4. /\ DOMAIN candidate' = Dirs /\ candidate'[d] = v
      /\ \A e \in Dirs : e # d => candidate'[e] = candidate[e]
  BY <1>1, <1>3 DEF ChainInv, CandidatesInv
<1>5. /\ v.attestation = candidate[d].attestation /\ v.destroyedAt = t
      /\ v = [attestation |-> v.attestation, destroyedAt |-> v.destroyedAt]
  OBVIOUS
<1> HIDE DEF v
<1>6. CandidatesInv'
  <2> SUFFICES ASSUME NEW e \in Dirs, candidate'[e] # None
               PROVE  /\ candidate'[e] = [attestation |-> candidate'[e].attestation,
                                          destroyedAt |-> candidate'[e].destroyedAt]
                      /\ candidate'[e].attestation.output = e
                      /\ candidate'[e].attestation.index \in Indices
                      /\ candidate'[e].attestation.participant \in Participants
                      /\ candidate'[e].attestation.contributedAt \in ContributedAt
                      /\ candidate'[e].destroyedAt \in DestroyedAt \cup {None}
    BY <1>4 DEF CandidatesInv
  <2>1. CASE e = d
    BY <1>1, <1>4, <1>5, <2>1 DEF ChainInv, CandidatesInv
  <2>2. CASE e # d
    BY <1>4, <2>2 DEF ChainInv, CandidatesInv
  <2> QED
    BY <2>1, <2>2
<1>7. CandidatesStay
  BY <1>1, <1>4 DEF CandidatesStay
<1> QED
  BY <1>1, <1>6, <1>7, CandidateStep

-----------------------------------------------------------------------------
(* Acceptances. *)

\* A step of acceptance c that adds no file.
LEMMA QuietStep ==
  ASSUME ChainInv, UNCHANGED candidate, disk' = disk \/ disk' = <<Visible>>,
         NEW c \in Acceptors, NEW chain, NEW m \in 0..6, NEW l \in BOOLEAN,
         next' = [next EXCEPT ![c] = chain], file' = [file EXCEPT ![c] = m],
         linked' = [linked EXCEPT ![c] = l],
         chain = <<>> => m = 0,
         m = 0 => ~l,
         chain # <<>> =>
           /\ IsChain(chain)
           /\ Len(chain) \in Indices
           /\ \E d \in Dirs, t \in AcceptedAt :
                /\ Acceptable(Visible, d, Len(chain) - 1, t)
                /\ chain = Accepted(Visible, d, Len(chain) - 1, t)
           /\ \A a \in 1..m : a < m \/ l =>
                Holds(Visible, Len(chain), Files[a], Bytes(chain, Files[a]))
  PROVE  ChainInv' /\ Visible' = Visible
<1>1. /\ next \in [Acceptors -> Range(next)] /\ file \in [Acceptors -> 0..6]
      /\ linked \in [Acceptors -> BOOLEAN]
  BY FileNames DEF ChainInv
<1>2. /\ DOMAIN next' = Acceptors /\ next' = [b \in Acceptors |-> next'[b]]
      /\ next'[c] = chain /\ file'[c] = m /\ linked'[c] = l
      /\ file' \in [Acceptors -> 0..6] /\ linked' \in [Acceptors -> BOOLEAN]
      /\ \A b \in Acceptors : b # c => /\ next'[b] = next[b] /\ file'[b] = file[b]
                                      /\ linked'[b] = linked[b]
  BY <1>1
<1>3. next' \in [Acceptors -> Range(next')]
  BY <1>2 DEF Range
<1>4. /\ Visible' = Visible /\ Range(disk') \subseteq Range(disk)
      /\ disk' \in Seq(Range(disk')) /\ disk' # <<>>
  <2>1. CASE disk' = disk
    BY <2>1, VisibleTree DEF Visible
  <2>2. CASE disk' = <<Visible>>
    <3>1. DOMAIN disk' = {1} /\ disk'[1] = Visible /\ Len(disk') = 1 /\ disk' # <<>>
      BY <2>2
    <3>2. Range(disk') = {Visible}
      BY <3>1 DEF Range
    <3>3. disk' \in Seq({Visible})
      BY <2>2
    <3>4. Visible' = Visible
      BY <3>1 DEF Visible, Last
    <3> QED
      BY <3>1, <3>2, <3>3, <3>4, VisibleTree
  <2> QED
    BY <2>1, <2>2
<1>5. CandidatesStay /\ CandidatesInv'
  BY DEF CandidatesStay, CandidatesInv, ChainInv
<1>6. \A s \in Range(disk') : TreeInv(s)'
  BY <1>4, <1>5, TreeStays DEF ChainInv
<1>7. \A d, k, t : /\ Acceptable(Visible, d, k, t)' <=> Acceptable(Visible, d, k, t)
                   /\ Accepted(Visible, d, k, t)' = Accepted(Visible, d, k, t)
  BY <1>4 DEF Acceptable, Accepted
<1>8. AcceptorInv(c)'
  BY <1>2, <1>4, <1>7 DEF AcceptorInv
<1>9. ASSUME NEW b \in Acceptors, b # c PROVE AcceptorInv(b)'
  <2>1. AcceptorInv(b) /\ next'[b] = next[b] /\ file'[b] = file[b] /\ linked'[b] = linked[b]
    BY <1>2, <1>9 DEF ChainInv
  <2> QED
    BY <1>4, <1>7, <2>1 DEF AcceptorInv
<1> QED
  BY <1>2, <1>3, <1>4, <1>5, <1>6, <1>8, <1>9, FileNames DEF ChainInv

\* An acceptance begins on a chain that loads, with a candidate for the next index.
LEMMA BeginAcceptStep ==
  ASSUME ChainInv, NEW c \in Acceptors, NEW d \in Dirs, NEW k \in 0..MaxParticipants,
         NEW t \in AcceptedAt, BeginAccept(c, d, k, t)
  PROVE  ChainInv'
<1> DEFINE chain == Accepted(Visible, d, k, t)
<1>1. /\ next[c] = <<>> /\ Acceptable(Visible, d, k, t)
      /\ next' = [next EXCEPT ![c] = chain] /\ file' = [file EXCEPT ![c] = 0]
      /\ UNCHANGED <<candidate, disk, linked>>
  BY DEF BeginAccept
<1>2. TreeInv(Visible) /\ AcceptorInv(c) /\ CandidatesInv /\ linked \in [Acceptors -> BOOLEAN]
  BY VisibleTree DEF ChainInv
<1>3. k + 1 \in Indices
  <2>1. /\ candidate[d] # None
        /\ ChainRecord(candidate[d], t).attestation.index = Len(ChainFile(Visible, k)) + 1
        /\ Loads(Visible, k)
    BY <1>1 DEF Acceptable, ValidateAttestationAcceptance
  <2>2. Len(ChainFile(Visible, k)) = k
    BY <1>2, <2>1, LoadedChain
  <2>3. ChainRecord(candidate[d], t).attestation = candidate[d].attestation
    BY DEF ChainRecord
  <2> QED
    BY <1>2, <2>1, <2>2, <2>3 DEF CandidatesInv
<1>4. PICK n \in Indices : n = k + 1
  BY <1>3
<1>5. k = n - 1
  BY <1>4
<1>6. IsChain(chain) /\ Len(chain) = n /\ chain # <<>>
  BY <1>1, <1>2, <1>5, AcceptedChain
<1>7. ~linked[c] /\ linked' = [linked EXCEPT ![c] = FALSE]
  <2>1. ~linked[c] /\ linked' = linked
    BY <1>1, <1>2 DEF AcceptorInv
  <2>2. linked[c] = FALSE
    BY <1>2, <2>1
  <2> QED
    BY <1>2, <2>1, <2>2
<1>8. PICK m \in 0..6 : m = 0
  OBVIOUS
<1>9. Acceptable(Visible, d, Len(chain) - 1, t) /\ chain = Accepted(Visible, d, Len(chain) - 1, t)
  BY <1>1, <1>5, <1>6
<1>10. \A a \in 1..m : FALSE
  BY <1>8
<1>11. file' = [file EXCEPT ![c] = m]
  BY <1>1, <1>8
<1>12. Len(chain) \in Indices
  BY <1>6
<1> HIDE DEF chain
<1> QED
  BY <1>1, <1>6, <1>7, <1>8, <1>9, <1>10, <1>11, <1>12, QuietStep, ZenonT(60)

\* A command ends, or goes on to the next file once the current one is its own.
LEMMA MoveStep ==
  ASSUME ChainInv, NEW c \in Acceptors, UNCHANGED candidate,
         disk' = disk \/ disk' = <<Visible>>,
         \/ Return(c)
         \/ /\ Advance(c) /\ next[c] # <<>>
            /\ file[c] # 0 =>
                 Holds(Visible, Len(next[c]), Files[file[c]], Bytes(next[c], Files[file[c]]))
  PROVE  ChainInv'
<1>1. PICK z \in 0..6 : z = 0
  OBVIOUS
<1>2. CASE Return(c)
  <2>1. /\ next' = [next EXCEPT ![c] = <<>>] /\ file' = [file EXCEPT ![c] = z]
        /\ linked' = [linked EXCEPT ![c] = FALSE]
    BY <1>1, <1>2 DEF Return
  <2>2. PICK none : none = <<>>
    OBVIOUS
  <2> QED
    BY <1>1, <2>1, <2>2, QuietStep
<1>3. CASE ~Return(c)
  <2>1. /\ next[c] # <<>> /\ file[c] # 6 /\ file' = [file EXCEPT ![c] = @ + 1]
        /\ linked' = [linked EXCEPT ![c] = FALSE] /\ next' = next
        /\ file[c] # 0 =>
             Holds(Visible, Len(next[c]), Files[file[c]], Bytes(next[c], Files[file[c]]))
    BY <1>3, FileNames DEF Advance
  <2>2. /\ file[c] \in 0..6 /\ DOMAIN next = Acceptors /\ AcceptorInv(c)
        /\ next = [b \in Acceptors |-> next[b]]
    BY FileNames DEF ChainInv
  <2>3. PICK m : m = file[c] + 1
    OBVIOUS
  <2>4. m \in 0..6 /\ m # 0 /\ file' = [file EXCEPT ![c] = m]
    BY <2>1, <2>2, <2>3
  <2>5. next' = [next EXCEPT ![c] = next[c]]
    BY <2>1, <2>2
  <2>6. /\ IsChain(next[c]) /\ Len(next[c]) \in Indices
        /\ \E d \in Dirs, t \in AcceptedAt :
             /\ Acceptable(Visible, d, Len(next[c]) - 1, t)
             /\ next[c] = Accepted(Visible, d, Len(next[c]) - 1, t)
        /\ \A a \in 1..file[c] : a < file[c] =>
             Holds(Visible, Len(next[c]), Files[a], Bytes(next[c], Files[a]))
    BY <2>1, <2>2 DEF AcceptorInv
  <2>7. \A a \in 1..m : a < m =>
          Holds(Visible, Len(next[c]), Files[a], Bytes(next[c], Files[a]))
    <3> SUFFICES ASSUME NEW a \in 1..m, a < m
                 PROVE  Holds(Visible, Len(next[c]), Files[a], Bytes(next[c], Files[a]))
      OBVIOUS
    <3>1. a \in 1..file[c] /\ (a < file[c] \/ (a = file[c] /\ file[c] # 0))
      BY <2>2, <2>3
    <3> QED
      BY <2>1, <2>6, <3>1
  <2> QED
    BY <2>1, <2>4, <2>5, <2>6, <2>7, QuietStep
<1> QED
  BY <1>2, <1>3

\* The preflight publishes nothing.
LEMMA PreflightStep ==
  ASSUME ChainInv, NEW c \in Acceptors, Preflight(c)
  PROVE  ChainInv'
BY MoveStep DEF Preflight

\* A killed command leaves the tree as it is.
LEMMA KillStep ==
  ASSUME ChainInv, NEW c \in Acceptors, Kill(c)
  PROVE  ChainInv'
BY MoveStep DEF Kill

\* An fsync forgets older trees, or the command ends.
LEMMA SyncStep ==
  ASSUME ChainInv, NEW c \in Acceptors, Sync(c)
  PROVE  ChainInv'
<1>1. next[c] # <<>>
  BY DEF ChainInv, AcceptorInv, Sync
<1> QED
  BY <1>1, MoveStep DEF Sync

\* A new file: the history gains the tree that has it, and what other running
\* acceptances rely on is still there.
LEMMA LinkStep ==
  ASSUME ChainInv, NEW c \in Acceptors, file[c] # 0, ~linked[c],
         ~Exists(Visible, Len(next[c]), Files[file[c]]),
         disk' = Append(disk, WithFile(Visible, next[c], Files[file[c]])),
         linked' = [linked EXCEPT ![c] = TRUE], UNCHANGED <<candidate, next, file>>
  PROVE  ChainInv'
<1> DEFINE chain == next[c]
           m == file[c]
           tree2 == WithFile(Visible, chain, Files[m])
<1>1. TreeInv(Visible) /\ AcceptorInv(c) /\ m \in 1..6
      /\ linked \in [Acceptors -> BOOLEAN]
  BY VisibleTree, FileNames DEF ChainInv
<1>2. chain # <<>> /\ IsChain(chain) /\ Len(chain) \in Indices
  BY <1>1 DEF AcceptorInv
<1>3. PICK d \in Dirs, t \in AcceptedAt :
        /\ Acceptable(Visible, d, Len(chain) - 1, t)
        /\ chain = Accepted(Visible, d, Len(chain) - 1, t)
  BY <1>1, <1>2 DEF AcceptorInv
<1>4. \A a \in 1..6 : a < m => Holds(Visible, Len(chain), Files[a], Bytes(chain, Files[a]))
  <2>1. \A a \in 1..6 : a < m => a \in 1..m
    BY <1>1
  <2>2. \A a \in 1..m : a < m => Holds(Visible, Len(chain), Files[a], Bytes(chain, Files[a]))
    BY <1>1, <1>2 DEF AcceptorInv
  <2> QED
    BY <2>1, <2>2
<1>5. TreeInv(tree2)
  <2>1. PICK n \in Indices : n = Len(chain)
    BY <1>2
  <2> HIDE DEF chain, m
  <2> QED
    BY <1>1, <1>3, <1>4, <2>1, TreeGrows DEF m, chain
<1>6. /\ DOMAIN tree2[Len(chain)] = DOMAIN Visible[Len(chain)] \cup {Files[m]}
      /\ tree2[Len(chain)][Files[m]] = Bytes(chain, Files[m])
      /\ \A i \in Indices : i # Len(chain) => tree2[i] = Visible[i]
      /\ \A g \in DOMAIN Visible[Len(chain)] : g # Files[m] =>
           tree2[Len(chain)][g] = Visible[Len(chain)][g]
  <2> HIDE DEF chain, m
  <2>1. TreeInv(Visible) /\ Len(chain) \in Indices
    BY <1>1, <1>2
  <2> QED
    BY <2>1, NewFile
<1>7. \A i \in Indices : \A g, bytes : Holds(Visible, i, g, bytes) => Holds(tree2, i, g, bytes)
  BY <1>6 DEF Holds, Exists
<1>8. Holds(tree2, Len(chain), Files[m], Bytes(chain, Files[m]))
  BY <1>6 DEF Holds, Exists
<1>9. \A n \in Indices : \A e, u : Acceptable(Visible, e, n - 1, u) =>
        /\ Acceptable(tree2, e, n - 1, u)
        /\ Accepted(tree2, e, n - 1, u) = Accepted(Visible, e, n - 1, u)
  BY <1>1, <1>2, FileNames, StillAcceptable
<1> HIDE DEF chain, m, tree2
<1>10. /\ Visible' = tree2 /\ Range(disk') = Range(disk) \cup {tree2}
       /\ disk' \in Seq(Range(disk')) /\ disk' # <<>>
  <2>1. disk' = Append(disk, tree2) /\ IsChain(disk)
    BY VisibleTree DEF tree2, chain, m, IsChain
  <2>2. /\ IsChain(disk') /\ disk' # <<>> /\ Last(disk') = tree2
        /\ DOMAIN disk = 1..Len(disk) /\ Len(disk) \in Nat
        /\ DOMAIN disk' = 1..(Len(disk) + 1) /\ disk'[Len(disk) + 1] = tree2
        /\ \A i \in 1..Len(disk) : disk'[i] = disk[i]
    BY <2>1, Extended
  <2>3. Range(disk') = Range(disk) \cup {tree2}
    BY <2>2 DEF Range
  <2> QED
    BY <2>2, <2>3 DEF Visible, IsChain
<1>11. CandidatesStay /\ CandidatesInv'
  BY DEF CandidatesStay, CandidatesInv, ChainInv
<1>12. \A s \in Range(disk') : TreeInv(s)'
  BY <1>5, <1>10, <1>11, TreeStays DEF ChainInv
<1>13. linked' \in [Acceptors -> BOOLEAN] /\ linked'[c]
       /\ \A b \in Acceptors : b # c => linked'[b] = linked[b]
  BY <1>1
<1>14. \A e, k, u : /\ Acceptable(Visible, e, k, u)' <=> Acceptable(tree2, e, k, u)
                    /\ Accepted(Visible, e, k, u)' = Accepted(tree2, e, k, u)
  BY <1>10 DEF Acceptable, Accepted
<1>15. ASSUME NEW b \in Acceptors PROVE AcceptorInv(b)'
  <2>1. AcceptorInv(b) /\ next' = next /\ file' = file
    BY DEF ChainInv
  <2>2. CASE next[b] = <<>>
    <3>1. b # c
      BY <1>2, <2>2 DEF chain
    <3> QED
      BY <1>13, <2>1, <2>2, <3>1 DEF AcceptorInv
  <2>3. CASE next[b] # <<>>
    <3>1. IsChain(next[b]) /\ Len(next[b]) \in Indices
      BY <2>1, <2>3 DEF AcceptorInv
    <3>2. \E e \in Dirs, u \in AcceptedAt :
            /\ Acceptable(tree2, e, Len(next[b]) - 1, u)
            /\ next[b] = Accepted(tree2, e, Len(next[b]) - 1, u)
      BY <1>9, <2>1, <2>3, <3>1 DEF AcceptorInv
    <3>3. \A a \in 1..file[b] : a < file[b] \/ linked'[b] =>
            Holds(tree2, Len(next[b]), Files[a], Bytes(next[b], Files[a]))
      <4>1. CASE b # c
        BY <1>7, <1>13, <2>1, <2>3, <3>1, <4>1 DEF AcceptorInv
      <4>2. CASE b = c
        <5>1. \A a \in 1..file[c] : a \in 1..6 /\ (a < m \/ a = m)
          BY <1>1 DEF m
        <5> QED
          BY <1>2, <1>4, <1>7, <1>8, <4>2, <5>1 DEF chain, m
      <4> QED
        BY <4>1, <4>2
    <3>4. file[b] = 0 => ~linked'[b]
      BY <1>13, <2>1 DEF AcceptorInv
    <3> QED
      BY <1>10, <1>14, <2>1, <2>3, <3>1, <3>2, <3>3, <3>4 DEF AcceptorInv
  <2> QED
    BY <2>2, <2>3
<1> QED
  BY <1>10, <1>11, <1>12, <1>13, <1>15 DEF ChainInv

\* The three outcomes of one publication.
LEMMA PublishStep ==
  ASSUME ChainInv, NEW c \in Acceptors, Publish(c)
  PROVE  ChainInv'
<1>1. file[c] # 0 /\ ~linked[c] /\ UNCHANGED candidate /\ next[c] # <<>>
  BY DEF Publish, ChainInv, AcceptorInv
<1>2. CASE Return(c) /\ UNCHANGED disk
  BY <1>1, <1>2, MoveStep
<1>3. CASE Advance(c) /\ UNCHANGED disk
           /\ Holds(Visible, Len(next[c]), Files[file[c]], Bytes(next[c], Files[file[c]]))
  BY <1>1, <1>3, MoveStep
<1>4. CASE /\ ~Exists(Visible, Len(next[c]), Files[file[c]])
           /\ disk' = Append(disk, WithFile(Visible, next[c], Files[file[c]]))
           /\ linked' = [linked EXCEPT ![c] = TRUE] /\ UNCHANGED <<next, file>>
  BY <1>1, <1>4, LinkStep
<1> QED
  BY <1>2, <1>3, <1>4 DEF Publish

\* A power loss keeps one of the trees and ends every command.
LEMMA PowerLossStep ==
  ASSUME ChainInv, PowerLoss
  PROVE  ChainInv'
<1>1. PICK s \in Range(disk) : disk' = <<s>>
  BY DEF PowerLoss, Range
<1>2. DOMAIN disk' = {1} /\ disk'[1] = s /\ disk' # <<>> /\ disk' \in Seq({s})
  BY <1>1
<1>3. Range(disk') = {s}
  BY <1>2 DEF Range
<1>4. CandidatesStay /\ CandidatesInv'
  BY DEF CandidatesStay, CandidatesInv, ChainInv, PowerLoss
<1>5. TreeInv(s)'
  BY <1>1, <1>4, TreeStays DEF ChainInv
<1>6. /\ next' = [c \in Acceptors |-> <<>>]
      /\ file' = [c \in Acceptors |-> 0]
      /\ linked' = [c \in Acceptors |-> FALSE]
  BY DEF PowerLoss
<1>7. next' \in [Acceptors -> Range(next')] /\ file' \in [Acceptors -> 0..6]
      /\ linked' \in [Acceptors -> BOOLEAN]
  BY <1>6 DEF Range
<1>8. \A c \in Acceptors : AcceptorInv(c)'
  BY <1>6 DEF AcceptorInv
<1> QED
  BY <1>2, <1>3, <1>4, <1>5, <1>7, <1>8, FileNames DEF ChainInv

-----------------------------------------------------------------------------
(* The invariant. *)

\* An empty tree and no command.
LEMMA InitChainInv == Init => ChainInv
<1> SUFFICES ASSUME Init PROVE ChainInv
  OBVIOUS
<1>1. CandidatesInv
  BY DEF Init, CandidatesInv
<1>2. PICK s : s = [i \in Indices |-> <<>>]
  OBVIOUS
<1>3. DOMAIN disk = {1} /\ disk[1] = s /\ disk # <<>> /\ disk \in Seq({s})
  BY <1>2 DEF Init
<1>4. Range(disk) = {s}
  BY <1>3 DEF Range
<1>5. DOMAIN s = Indices /\ \A i \in Indices : DOMAIN s[i] = {}
  BY <1>2
<1>6. TreeInv(s)
  BY <1>5 DEF TreeInv, InOrder, Rooted, Exists
<1>7. /\ next = [c \in Acceptors |-> <<>>]
      /\ file = [c \in Acceptors |-> 0]
      /\ linked = [c \in Acceptors |-> FALSE]
  BY DEF Init
<1>8. next \in [Acceptors -> Range(next)] /\ file \in [Acceptors -> 0..6]
      /\ linked \in [Acceptors -> BOOLEAN]
  BY <1>7 DEF Range
<1>9. \A c \in Acceptors : AcceptorInv(c)
  BY <1>7 DEF AcceptorInv
<1> QED
  BY <1>1, <1>3, <1>4, <1>6, <1>8, <1>9, FileNames DEF ChainInv

\* Every step keeps the invariant.
LEMMA NextChainInv == ChainInv /\ [Next]_vars => ChainInv'
<1> SUFFICES ASSUME ChainInv, [Next]_vars PROVE ChainInv'
  OBVIOUS
<1>1. ASSUME NEW d \in Dirs, NEW p \in Participants, NEW k \in 0..MaxParticipants,
             NEW t \in ContributedAt, Contribute(d, p, k, t) \/ ContributeOutOfTurn(d, p, k, t)
      PROVE  ChainInv'
  BY <1>1, MakeCandidateStep DEF Contribute, ContributeOutOfTurn
<1>2. ASSUME NEW d \in Dirs, NEW t \in DestroyedAt, RecordErasure(d, t) PROVE ChainInv'
  BY <1>2, RecordErasureStep
<1>3. ASSUME NEW c \in Acceptors, NEW d \in Dirs, NEW k \in 0..MaxParticipants,
             NEW t \in AcceptedAt, BeginAccept(c, d, k, t)
      PROVE  ChainInv'
  BY <1>3, BeginAcceptStep
<1>4. ASSUME NEW c \in Acceptors, Preflight(c) \/ Publish(c) \/ Sync(c) \/ Kill(c) PROVE ChainInv'
  BY <1>4, PreflightStep, PublishStep, SyncStep, KillStep
<1>5. CASE PowerLoss
  BY <1>5, PowerLossStep
<1>6. CASE UNCHANGED vars
  <2>1. CandidatesInv' /\ CandidatesStay /\ UNCHANGED <<disk, next, file, linked>>
    BY <1>6 DEF vars, CandidatesInv, CandidatesStay, ChainInv
  <2> QED
    BY <2>1, CandidateStep
<1> QED
  BY <1>1, <1>2, <1>3, <1>4, <1>5, <1>6 DEF Next

\* In every tree that a power loss may leave, and for every running acceptance,
\* files and candidates fit together, whatever the schedule and however many
\* coordinators accept at once.
THEOREM EvidenceFits == Spec => []ChainInv
<1>1. ChainInv /\ [Next]_vars => ChainInv'
  BY NextChainInv
<1> QED
  BY <1>1, InitChainInv, PTL DEF Spec

\* The published chain documents of a phase are prefixes of one another.
THEOREM ChainsNeverFork == Spec => []NoFork
<1>1. ASSUME ChainInv PROVE NoFork
  <2> SUFFICES ASSUME NEW j \in Indices, NEW k \in Indices, j < k,
                      Exists(Visible, j, "chain"), Exists(Visible, k, "chain")
               PROVE  IsPrefix(Visible[j]["chain"], Visible[k]["chain"])
    BY DEF NoFork
  <2>1. Rooted(Visible)
    BY <1>1, VisibleTree DEF TreeInv
  <2>2. j \in Nat /\ k \in Nat /\ j \in 1..k
    BY ScheduleFacts
  <2>3. /\ IsChain(Visible[j]["chain"]) /\ Len(Visible[j]["chain"]) = j
        /\ Len(Visible[k]["chain"]) = k
        /\ Visible[j]["chain"] = SubSeq(Visible[k]["chain"], 1, j)
    BY <2>1, <2>2 DEF Rooted, Holds
  <2>4. SubSeq(Visible[j]["chain"], 1, j) = Visible[j]["chain"]
    BY <2>2, <2>3 DEF IsChain
  <2> QED
    BY <2>2, <2>3, <2>4 DEF IsPrefix
<1> QED
  BY <1>1, EvidenceFits, PTL

\* A chain document that processes see extends one that every command loads,
\* and is itself loaded exactly if it was extended in the frozen order,
\* whoever of the roster signed the candidates.
THEOREM InTurnChainsLoad == Spec => []LoadsIfInTurn
<1>1. ASSUME ChainInv PROVE LoadsIfInTurn
  <2>1. TreeInv(Visible)
    BY <1>1, VisibleTree
  <2> QED
    BY <2>1, TreeLoads DEF LoadsIfInTurn
<1> QED
  BY <1>1, EvidenceFits, PTL

\* Partial evidence under an index can always be completed.
THEOREM EvidenceCanBeCompleted == Spec => []Resumable
<1>1. ASSUME ChainInv PROVE Resumable
  BY <1>1, VisibleTree DEF TreeInv, Resumable
<1> QED
  BY <1>1, EvidenceFits, PTL

-----------------------------------------------------------------------------
\* The closure of the phase.

\* A drand round has a time; the proofs need nothing else of the schedule.
LEMMA RoundTimeType == \A r \in Rounds : RoundTime(r) \in Nat
  BY RoundsAssumption DEF RoundTime

\* The empty phase directory satisfies ClosureInv.
LEMMA InitClosureInv == ClosureInit => ClosureInv
  BY LeadAssumption, NoneAssumption
  DEF ClosureInit, ClosureInv, ClosureTypeOK, CallsInTime, DurableIsVisible, ReportedIsDurable,
      LeadAtCommit, ClosureSteps, ClosureResults

\* Every step of a close command, the clock, kills and power losses preserve
\* ClosureInv when no process is held longer than the margin.
LEMMA NextClosureInv == Pause <= Margin => (ClosureInv /\ [ClosureNext]_closureVars => ClosureInv')
<1> SUFFICES ASSUME Pause <= Margin, ClosureInv, [ClosureNext]_closureVars PROVE ClosureInv'
  OBVIOUS
<1> USE LeadAssumption, NoneAssumption, RoundTimeType
    DEF ClosureInv, ClosureTypeOK, CallsInTime, DurableIsVisible, ReportedIsDurable,
        LeadAtCommit, ClosureSteps, ClosureResults
<1>1. ASSUME NEW p \in Closers, NEW r \in Rounds, Begin(p, r)
      PROVE  ClosureInv'
  BY <1>1 DEF Begin
<1>2. ASSUME NEW p \in Closers, FindExisting(p)
      PROVE  ClosureInv'
  BY <1>2 DEF FindExisting, Goto, EndCall
<1>3. ASSUME NEW p \in Closers, RecoverExisting(p)
      PROVE  ClosureInv'
  BY <1>3 DEF RecoverExisting, EndCall
<1>4. ASSUME NEW p \in Closers, StageRecord(p)
      PROVE  ClosureInv'
  BY <1>4 DEF StageRecord, EndCall
<1>5. ASSUME NEW p \in Closers, InspectTrees(p)
      PROVE  ClosureInv'
  BY <1>5 DEF InspectTrees, SameTree, Goto, EndCall
<1>6. ASSUME NEW p \in Closers, Guard(p)
      PROVE  ClosureInv'
  BY <1>6 DEF Guard, ValidateCloseCommitTime, EndCall
<1>7. ASSUME NEW p \in Closers, Rename(p)
      PROVE  ClosureInv'
  <2>1. CASE EndCall(p, "failed") /\ UNCHANGED <<closure, now, durable>>
    BY <2>1 DEF EndCall
  <2>2. CASE closure = NoClosure /\ Goto(p, "sync") /\ UNCHANGED <<now, durable>>
             /\ closure' = [round |-> round[p], closedAt |-> closedAt[p], committedAt |-> now]
    <3>1. pc[p] = "rename" /\ round[p] \in Rounds
      BY <1>7 DEF Rename
    <3>2. closure' \in Closures /\ closure' # NoClosure
      BY <2>2, <3>1 DEF Closures
    <3>3. RoundTime(round[p]) - now >= MinLead
      BY <3>1
    <3>4. durable = NoClosure /\ acked = {}
      BY <2>2
    <3> QED
      BY <2>2, <3>1, <3>2, <3>3, <3>4 DEF Goto
  <2> QED
    BY <1>7, <2>1, <2>2 DEF Rename
<1>8. ASSUME NEW p \in Closers, SyncParent(p)
      PROVE  ClosureInv'
  BY <1>8 DEF SyncParent, EndCall
<1>9. ASSUME NEW p \in Closers, KillCloser(p)
      PROVE  ClosureInv'
  BY <1>9 DEF KillCloser, EndCall
<1>10. CASE Tick
  BY <1>10 DEF Tick
<1>11. CASE LosePower
  BY <1>11 DEF LosePower
<1>12. CASE UNCHANGED closureVars
  BY <1>12 DEF closureVars
<1> QED
  BY <1>1, <1>2, <1>3, <1>4, <1>5, <1>6, <1>7, <1>8, <1>9, <1>10, <1>11, <1>12
  DEF ClosureNext, Call

\* ClosureInv holds throughout.
LEMMA ClosureInvariant == Pause <= Margin => (ClosureSpec => []ClosureInv)
<1> SUFFICES ASSUME Pause <= Margin PROVE ClosureSpec => []ClosureInv
  OBVIOUS
<1>1. ClosureInv /\ [ClosureNext]_closureVars => ClosureInv'
  BY NextClosureInv
<1> QED
  BY InitClosureInv, <1>1, PTL DEF ClosureSpec

\* The closure is committed at least the signed witness lead before its
\* round, whatever closers race for the name.
THEOREM WitnessLead == Pause <= Margin => (ClosureSpec => []LeadAtCommit)
<1>1. ClosureInv => LeadAtCommit
  BY DEF ClosureInv
<1> QED
  BY <1>1, ClosureInvariant, PTL

\* Closing a phase is a write-once register over beacon rounds.
THEOREM ClosureRefinement == Pause <= Margin => (ClosureSpec => ImplementsWriteOnce)
<1> SUFFICES ASSUME Pause <= Margin PROVE ClosureSpec => Abstract!Spec
  BY DEF ImplementsWriteOnce
<1>1. ClosureInit => Abstract!Init
  BY DEF ClosureInit, Abstract!Init
<1>2. ClosureInv /\ ClosureInv' /\ [ClosureNext]_closureVars => [Abstract!Next]_(Abstract!vars)
  <2> SUFFICES ASSUME ClosureInv, ClosureInv', [ClosureNext]_closureVars
               PROVE  [Abstract!Next]_(Abstract!vars)
    OBVIOUS
  <2> USE DEF Abstract!Next, Abstract!vars
  <2>1. /\ durable \in Closures \cup {NoClosure} /\ durable' \in Closures \cup {NoClosure}
        /\ \A c \in Closures : c.round \in Rounds /\ c # NoClosure /\ c.round # NoClosure
        /\ durable # NoClosure => closure = durable
    BY NoneAssumption DEF ClosureInv, ClosureTypeOK, Closures, DurableIsVisible
  <2>2. ASSUME NEW p \in Closers, RecoverExisting(p) \/ SyncParent(p)
        PROVE  [Abstract!Next]_(Abstract!vars)
    <3>1. closure # NoClosure /\ closure.round = round[p]
      BY <2>2 DEF RecoverExisting, SyncParent, ClosureInv, CallsInTime
    <3>2. CASE EndCall(p, "ok") /\ durable' = closure /\ durable = NoClosure
      <4>1. acked' = acked \cup {round[p]} /\ durable' # NoClosure
            /\ durable'.round = round[p] /\ round[p] \in Rounds
        BY <2>1, <3>1, <3>2 DEF EndCall
      <4>2. Abstract!Publish(round[p])
        BY <3>2, <4>1 DEF Abstract!Publish
      <4> QED
        BY <4>1, <4>2
    <3>3. CASE EndCall(p, "ok") /\ durable' = closure /\ durable # NoClosure
      <4>1. acked' = acked \cup {durable.round} /\ durable' = durable
        BY <2>1, <3>1, <3>3 DEF EndCall
      <4>2. Abstract!Report
        BY <2>1, <3>3, <4>1 DEF Abstract!Report
      <4> QED
        BY <4>2
    <3>4. CASE durable' = durable /\ (EndCall(p, "failed") \/ EndCall(p, "committed"))
      BY <3>4 DEF EndCall
    <3> QED
      BY <2>2, <3>2, <3>3, <3>4 DEF RecoverExisting, SyncParent
  <2>3. CASE LosePower
    <3>1. acked' = acked /\ durable' \in {closure, durable}
      BY <2>3 DEF LosePower
    <3>2. CASE durable' = durable
      BY <3>1, <3>2
    <3>3. CASE durable' # durable
      <4>1. durable = NoClosure /\ durable' # NoClosure
        BY <2>1, <3>1, <3>3
      <4>2. Abstract!Publish(durable'.round)
        BY <2>1, <3>1, <4>1 DEF Abstract!Publish
      <4> QED
        BY <2>1, <4>1, <4>2
    <3> QED
      BY <3>2, <3>3
  <2>4. ASSUME NEW p \in Closers,
               Call(p) \/ FindExisting(p) \/ StageRecord(p) \/ InspectTrees(p)
                 \/ Guard(p) \/ Rename(p) \/ KillCloser(p)
        PROVE  UNCHANGED <<durable, acked>>
    BY <2>4
    DEF Call, Begin, FindExisting, StageRecord, InspectTrees, Guard, Rename, KillCloser,
        Goto, EndCall
  <2>5. CASE Tick
    BY <2>5 DEF Tick
  <2>6. CASE UNCHANGED closureVars
    BY <2>6 DEF closureVars
  <2>7. UNCHANGED <<durable, acked>> => UNCHANGED Abstract!vars
    OBVIOUS
  <2> QED
    BY <2>2, <2>3, <2>4, <2>5, <2>6, <2>7 DEF ClosureNext
<1>3. ClosureSpec => []ClosureInv
  BY ClosureInvariant
<1> QED
  BY <1>1, <1>2, <1>3, PTL DEF ClosureSpec, Abstract!Spec
=============================================================================
