------------------------- MODULE HelperServer_proofs -------------------------
(***************************************************************************)
(* The local proof helper: its search is exact, its progress streams are   *)
(* in order, cancelled work is bounded and a corrupt constraint system is  *)
(* not masked, for every set of requests, every bands, every number of     *)
(* branches and of soft indexes.  All follow from HelperInv.  What is      *)
(* particular to a step is shown of the one request it changes (Legal);    *)
(* StateStep carries it to the whole state.                                *)
(***************************************************************************)
EXTENDS HelperServer, WellFoundedInduction, TLAPS

-----------------------------------------------------------------------------
(* The search. *)

\* A set of numbers that is not empty has a least member.
LEMMA Least ==
  ASSUME NEW T \in SUBSET Nat, T # {}
  PROVE  \E x \in T : \A y \in T : x <= y
<1>1. PICK x \in T : \A y \in T : ~ (<<y, x>> \in OpToRel(<, Nat))
  BY NatLessThanWellFounded, WFMin, Zenon
<1>2. \A y \in T : ~ (y < x)
  BY <1>1 DEF OpToRel
<1> QED
  BY <1>2

\* The bands of a search up to max follow one another from 0 to max.
LEMMA BandFacts ==
  ASSUME NEW max \in 0 .. MaxUint
  PROVE  LET b == Bands[max] IN
         /\ Len(b) \in 1 .. Len(BandEnds) + 1 /\ DOMAIN b = 1 .. Len(b)
         /\ b[1].start = 0 /\ b[Len(b)].end = max
         /\ \A k \in 1 .. Len(b) : /\ b[k].start \in Nat /\ b[k].end \in Nat
                                   /\ b[k].start <= b[k].end /\ b[k].end <= max
         /\ \A k \in 1 .. Len(b) - 1 : b[k + 1].start = b[k].end + 1
<1> DEFINE n == Len(BandEnds)
           T == {k \in 1 .. n + 1 : BandEnd(max, k) = max}
           P(k) == BandEnd(max, k) = max /\ \A j \in 1 .. k - 1 : BandEnd(max, j) # max
           count == CHOOSE k \in 1 .. n + 1 : P(k)
<1>1. /\ n \in Nat /\ max \in Nat /\ max <= MaxUint /\ MaxUint \in Nat
      /\ \A k \in 1 .. n : BandEnds[k] \in Nat
      /\ \A k \in 1 .. n - 1 : BandEnds[k] < BandEnds[k + 1]
  BY DiscoveryAssumption
<1>2. \E k \in 1 .. n + 1 : P(k)
  <2>1. n + 1 \in T
    BY <1>1 DEF BandEnd
  <2>2. PICK k \in T : \A y \in T : k <= y
    <3>1. T \in SUBSET Nat /\ T # {}
      BY <1>1, <2>1
    <3> HIDE DEF T
    <3> QED
      BY <3>1, Least
  <2>3. \A j \in 1 .. k - 1 : j \in 1 .. n + 1 /\ j < k
    BY <1>1
  <2>4. \A j \in 1 .. k - 1 : j \notin T
    BY <1>1, <2>2, <2>3
  <2> QED
    BY <2>2, <2>3, <2>4
<1>3. count \in 1 .. n + 1 /\ P(count)
  BY <1>2
<1>4. Bands[max] = [k \in 1 .. count |->
                      [start |-> IF k = 1 THEN 0 ELSE BandEnd(max, k - 1) + 1,
                       end |-> BandEnd(max, k)]]
  BY DEF Bands, discoveryIndexBands
<1> HIDE DEF count
<1>5. PICK c : c = count
  OBVIOUS
<1>6. c \in 1 .. n + 1 /\ c \in Nat /\ BandEnd(max, c) = max
      /\ \A j \in 1 .. c - 1 : BandEnd(max, j) # max
  <2>1. c \in 1 .. n + 1 /\ P(c)
    BY <1>3, <1>5
  <2> QED
    BY <1>1, <2>1
<1> HIDE DEF T, P
<1>7. \A j \in 1 .. c - 1 : /\ j \in 1 .. n /\ BandEnd(max, j) = BandEnds[j] /\ BandEnds[j] < max
                            /\ BandEnd(max, j) \in Nat
  BY <1>1, <1>6 DEF BandEnd
<1>8. /\ DOMAIN Bands[max] = 1 .. c /\ Len(Bands[max]) = c
      /\ \A k \in 1 .. c : /\ Bands[max][k].start = IF k = 1 THEN 0 ELSE BandEnd(max, k - 1) + 1
                           /\ Bands[max][k].end = BandEnd(max, k)
  BY <1>4, <1>5, <1>6
<1>9. ASSUME NEW k \in 1 .. c
      PROVE  /\ Bands[max][k].start \in Nat /\ Bands[max][k].end \in Nat
             /\ Bands[max][k].start <= Bands[max][k].end /\ Bands[max][k].end <= max
  <2>1. CASE k = 1 /\ c = 1
    BY <1>1, <1>6, <1>8, <2>1
  <2>2. CASE k = 1 /\ c # 1
    <3>1. k \in 1 .. c - 1
      BY <1>6, <2>2
    <3>2. Bands[max][k].start = 0 /\ Bands[max][k].end = BandEnd(max, k)
      BY <1>8, <2>2
    <3>3. BandEnd(max, k) \in Nat /\ BandEnd(max, k) < max
      BY <1>7, <3>1
    <3> QED
      BY <1>1, <3>2, <3>3
  <2>3. CASE k # 1 /\ k = c
    <3>1. k - 1 \in 1 .. c - 1
      BY <1>6, <2>3
    <3>2. BandEnd(max, k - 1) \in Nat /\ BandEnd(max, k - 1) < max
      BY <1>7, <3>1
    <3>3. Bands[max][k].start = BandEnd(max, k - 1) + 1 /\ Bands[max][k].end = max
      BY <1>6, <1>8, <2>3
    <3> QED
      BY <1>1, <3>2, <3>3
  <2>4. CASE k # 1 /\ k # c
    <3>1. k - 1 \in 1 .. c - 1 /\ k \in 1 .. c - 1 /\ k \in Nat
      BY <1>6, <2>4
    <3>2. BandEnds[k - 1] < BandEnds[k]
      <4>1. k - 1 \in 1 .. n - 1 /\ (k - 1) + 1 = k
        BY <1>1, <1>7, <3>1
      <4> QED
        BY <1>1, <4>1
    <3> QED
      BY <1>1, <1>7, <1>8, <2>4, <3>1, <3>2, SMTT(60)
  <2> QED
    BY <2>1, <2>2, <2>3, <2>4
<1>10. \A k \in 1 .. c - 1 : Bands[max][k + 1].start = Bands[max][k].end + 1
  <2>1. \A k \in 1 .. c - 1 : k + 1 \in 1 .. c /\ k \in 1 .. c /\ k + 1 # 1 /\ (k + 1) - 1 = k
    BY <1>6
  <2> QED
    BY <1>8, <2>1
<1>11. 1 \in 1 .. c /\ c \in 1 .. c
  BY <1>6
<1> QED
  BY <1>6, <1>8, <1>9, <1>10, <1>11

\* Positions of a traversal.
ScanType == [band : Nat, index : Nat, branch : Nat, scanned : Nat]

\* Products of the number of branches and an index.
LEMMA Times ==
  ASSUME NEW a \in Nat
  PROVE  /\ \A x \in Nat : a * x \in Nat /\ a * (x + 1) = a * x + a
         /\ \A x, y \in Nat : x <= y => a * x <= a * y
OBVIOUS

\* One candidate that exists: it is in the range and was not tried before, and nothing
\* else is tried.  No seam between two bands loses one.
LEMMA ScanStep ==
  ASSUME NEW max \in 0 .. MaxUint, NEW s \in ScanType, s \in Scans(max),
         ScanInv(max, s), ~ScanOver(max, s), Derivable(s)
  PROVE  /\ Scanned(max, s) \in ScanType /\ Scanned(max, s) \in Scans(max)
         /\ ScanInv(max, Scanned(max, s))
         /\ Scanned(max, s).scanned = s.scanned + 1
         /\ Tried(max, Scanned(max, s)) = Tried(max, s) \cup {Candidate(s)}
         /\ Candidate(s) \in InRange(max)
<1> DEFINE b == Bands[max]
           n == Scanned(max, s)
<1>1. /\ MaxUint \in Nat /\ max \in Nat /\ max <= MaxUint
      /\ Branches \in Nat /\ Branches > 0 /\ Len(BandEnds) \in Nat
      /\ SoftIndexes \in Nat /\ SoftIndexes <= MaxUint
  BY DiscoveryAssumption
<1>2. /\ Len(b) \in 1 .. Len(BandEnds) + 1
      /\ b[Len(b)].end = max
      /\ \A k \in 1 .. Len(b) : /\ b[k].start \in Nat /\ b[k].end \in Nat
                                /\ b[k].start <= b[k].end /\ b[k].end <= max
      /\ \A k \in 1 .. Len(b) - 1 : b[k + 1].start = b[k].end + 1
  BY BandFacts
<1>3. /\ s.band \in 1 .. Len(BandEnds) + 2 /\ s.index \in Nat /\ s.branch \in 1 .. Branches
      /\ s.scanned \in Nat /\ s.band <= Len(b)
  BY <1>1, <1>2 DEF ScanType, Scans, ScanOver
<1>4. /\ s.band \in 1 .. Len(b)
      /\ s.index \in b[s.band].start .. b[s.band].end
      /\ s.scanned = Branches * s.index + s.branch - 1
  BY <1>1, <1>2, <1>3 DEF ScanInv
<1>5. /\ n.band = (IF EndsBand(max, s) THEN s.band + 1 ELSE s.band)
      /\ n.index = (IF s.branch < Branches THEN s.index
                    ELSE IF EndsBand(max, s) /\ s.band < Len(b)
                         THEN b[s.band + 1].start
                         ELSE s.index + 1)
      /\ n.branch = (IF s.branch < Branches THEN s.branch + 1 ELSE 1)
      /\ n.scanned = s.scanned + 1
      /\ n = [band |-> n.band, index |-> n.index, branch |-> n.branch, scanned |-> n.scanned]
  BY DEF Scanned
<1>6. EndsBand(max, s) <=> s.branch = Branches /\ s.index = b[s.band].end
  <2>1. PICK e : e = b[s.band].end
    OBVIOUS
  <2>2. e \in Nat /\ s.index <= e /\ e <= MaxUint
    <3>1. e \in Nat /\ e <= max
      BY <1>2, <1>4, <2>1
    <3>2. s.index <= e
      BY <1>4, <2>1, <3>1
    <3> HIDE DEF b, n
    <3> QED
      BY <1>1, <3>1, <3>2
  <2>3. EndsBand(max, s) <=> s.branch = Branches /\ s.index + 1 > e
    BY <2>1 DEF EndsBand
  <2>4. s.index + 1 > e <=> s.index = e
    BY <1>3, <2>2
  <2> QED
    BY <2>1, <2>3, <2>4
<1> HIDE DEF b, n
<1>8. PICK i, r, u : i = s.index /\ r = s.branch /\ u = s.scanned
  OBVIOUS
<1>9. i \in Nat /\ r \in 1 .. Branches /\ r \in Nat /\ u \in Nat /\ i <= max
      /\ i < SoftIndexes
  <2>1. PICK e : e = b[s.band].end
    OBVIOUS
  <2>2. e \in Nat /\ s.index <= e /\ e <= max
    BY <1>1, <1>2, <1>3, <1>4, <2>1
  <2>3. i < SoftIndexes
    BY <1>8 DEF Derivable
  <2> QED
    BY <1>1, <1>3, <1>8, <2>2, <2>3
<1>7. Candidate(s) \in InRange(max)
  BY <1>1, <1>8, <1>9 DEF Candidate, InRange
<1>13. PICK p : p = Branches * i
  OBVIOUS
<1>14. p \in Nat /\ u = p + r - 1 /\ Branches * (i + 1) = p + Branches
  BY <1>1, <1>4, <1>8, <1>9, <1>13, Times
<1>15. PICK all : all = discoveryTotal(max)
  OBVIOUS
<1>16. all \in Nat /\ p + Branches <= all /\ (i = max => all = p + Branches)
  <2>1. all = Branches * (max + 1) /\ i + 1 \in Nat /\ max + 1 \in Nat /\ i + 1 <= max + 1
    BY <1>1, <1>9, <1>15 DEF discoveryTotal
  <2> QED
    BY <1>1, <1>14, <2>1, Times
<1>10. \A c \in InRange(max) : c[1] \in 0 .. max /\ c[2] \in 1 .. Branches /\ c = <<c[1], c[2]>>
  BY DEF InRange
<1>11. CASE s.branch < Branches
  <2>1. n.band = s.band /\ n.index = i /\ n.branch = r + 1 /\ n.scanned = u + 1
    BY <1>1, <1>3, <1>5, <1>6, <1>8, <1>11
  <2>2. ~ScanOver(max, n) /\ ScanInv(max, n)
    <3>1. Derivable(n)
      BY <1>9, <2>1 DEF Derivable
    <3> QED
      BY <1>1, <1>2, <1>3, <1>4, <1>8, <1>9, <2>1, <3>1, SMTT(60) DEF ScanOver, ScanInv, b
  <2>3. Tried(max, n) = Tried(max, s) \cup {<<i, r>>}
    <3>1. \A c \in InRange(max) : c \in Tried(max, n) <=> c \in Tried(max, s) \/ c = <<i, r>>
      BY <1>1, <1>8, <1>9, <1>10, <2>1, <2>2 DEF Tried
    <3> QED
      BY <1>7, <1>8, <3>1 DEF Tried, Candidate
  <2>6. r < Branches
    BY <1>8, <1>11
  <2>4. n.scanned \in 0 .. all
    <3>1. u + 1 <= p + Branches /\ u + 1 \in Nat
      BY <1>1, <1>9, <1>14, <2>6
    <3> QED
      BY <1>1, <1>14, <1>16, <2>1, <3>1
  <2>5. n \in ScanType /\ n \in Scans(max)
    <3>1. /\ n.band \in Nat /\ n.index \in Nat /\ n.branch \in Nat /\ n.scanned \in Nat
          /\ n.band \in 1 .. Len(BandEnds) + 2 /\ n.index \in 0 .. MaxUint
          /\ n.branch \in 1 .. Branches
      <4>1. s.band \in Nat /\ s.band \in 1 .. Len(BandEnds) + 2
        BY <1>1, <1>3
      <4>2. r + 1 \in 1 .. Branches /\ r + 1 \in Nat /\ i \in 0 .. MaxUint
        BY <1>1, <1>9, <2>6
      <4> QED
        BY <1>9, <1>16, <2>1, <2>4, <4>1, <4>2
    <3> QED
      BY <1>5, <1>15, <2>4, <3>1 DEF ScanType, Scans
  <2> QED
    BY <1>5, <1>7, <1>8, <2>2, <2>3, <2>5 DEF Candidate, n
<1>12. CASE ~(s.branch < Branches)
  <2>1. r = Branches
    BY <1>1, <1>8, <1>9, <1>12
  <2>3. n.scanned = p + Branches /\ n.scanned \in 0 .. all /\ n.branch = 1
    <3>1. n.scanned = u + 1 /\ n.branch = 1
      BY <1>5, <1>8, <1>12
    <3>2. n.scanned = p + Branches
      BY <1>1, <1>9, <1>14, <2>1, <3>1
    <3> QED
      BY <1>1, <1>14, <1>16, <3>1, <3>2
  <2>4. CASE s.band = Len(b) /\ s.index = b[s.band].end
    <3>1. i = max /\ n.band = Len(b) + 1 /\ n.index = max + 1
      BY <1>1, <1>2, <1>5, <1>6, <1>8, <1>12, <2>1, <2>4
    <3>2. ScanOver(max, n) /\ ScanInv(max, n)
      BY <1>2, <1>9, <1>15, <1>16, <2>3, <3>1 DEF ScanOver, ScanInv, b
    <3>3. Tried(max, n) = Tried(max, s) \cup {<<i, r>>}
      <4>1. \A c \in InRange(max) : c \in Tried(max, s) \/ c = <<i, r>>
        BY <1>1, <1>8, <1>9, <1>10, <2>1, <3>1 DEF Tried
      <4> QED
        BY <1>7, <1>8, <3>2, <4>1 DEF Tried, Candidate
    <3>4. n.index \in 0 .. MaxUint
      BY <1>1, <1>9, <3>1
    <3>5. n \in ScanType /\ n \in Scans(max)
      <4>1. /\ n.band \in Nat /\ n.index \in Nat /\ n.branch \in Nat /\ n.scanned \in Nat
            /\ n.band \in 1 .. Len(BandEnds) + 2 /\ n.branch \in 1 .. Branches
        BY <1>1, <1>2, <1>16, <2>3, <3>1, <3>4
      <4> QED
        BY <1>5, <1>15, <2>3, <3>4, <4>1 DEF ScanType, Scans
    <3> QED
      BY <1>5, <1>7, <1>8, <3>2, <3>3, <3>5 DEF Candidate, n
  <2>5. CASE ~(s.band = Len(b) /\ s.index = b[s.band].end)
    <3>1. /\ n.index = i + 1 /\ n.band \in 1 .. Len(b) /\ i + 1 <= max
          /\ n.index \in b[n.band].start .. b[n.band].end
      <4>1. CASE s.index = b[s.band].end
        <5>1. s.band \in 1 .. Len(b) - 1 /\ s.band + 1 \in 1 .. Len(b)
          BY <1>2, <1>4, <2>5, <4>1
        <5>2. n.band = s.band + 1 /\ n.index = b[s.band + 1].start
          BY <1>3, <1>5, <1>6, <1>8, <1>12, <2>1, <4>1, <5>1
        <5>3. b[s.band + 1].start = i + 1
          BY <1>2, <1>8, <4>1, <5>1
        <5> QED
          BY <1>1, <1>2, <1>9, <5>1, <5>2, <5>3
      <4>2. CASE s.index # b[s.band].end
        <5>1. n.band = s.band /\ n.index = i + 1
          BY <1>5, <1>6, <1>8, <1>12, <4>2
        <5>2. i + 1 <= b[s.band].end /\ b[s.band].start <= i + 1 /\ i + 1 <= max
          BY <1>2, <1>4, <1>8, <1>9, <4>2, SMTT(60)
        <5> QED
          BY <1>2, <1>4, <1>9, <5>1, <5>2
      <4> QED
        BY <4>1, <4>2
    <3>2. ~ScanOver(max, n) /\ ScanInv(max, n)
      <4>1. n.scanned = Branches * n.index + n.branch - 1
        BY <1>1, <1>14, <2>3, <3>1
      <4>2. Derivable(n) \/ (n.index = SoftIndexes /\ n.branch = 1)
        BY <1>1, <1>9, <2>3, <3>1 DEF Derivable
      <4> QED
        BY <1>1, <1>2, <3>1, <4>1, <4>2 DEF ScanOver, ScanInv, b
    <3>3. Tried(max, n) = Tried(max, s) \cup {<<i, r>>}
      <4>1. ASSUME NEW c \in InRange(max)
            PROVE  c \in Tried(max, n) <=> c \in Tried(max, s) \/ c = <<i, r>>
        <5>1. c \in Tried(max, n) <=> c[1] < i + 1 \/ (c[1] = i + 1 /\ c[2] < 1)
          BY <2>3, <3>1, <3>2 DEF Tried
        <5>2. c \in Tried(max, s) <=> c[1] < i \/ (c[1] = i /\ c[2] < r)
          BY <1>8 DEF Tried
        <5>3. c = <<i, r>> <=> c[1] = i /\ c[2] = r
          BY <1>10
        <5>4. c[1] \in Nat /\ c[2] \in 1 .. Branches
          BY <1>1, <1>10
        <5> QED
          BY <1>1, <1>9, <2>1, <5>1, <5>2, <5>3, <5>4
      <4> QED
        BY <1>7, <1>8, <4>1 DEF Tried, Candidate
    <3>4. n \in ScanType /\ n \in Scans(max)
      <4>1. /\ n.band \in Nat /\ n.index \in Nat /\ n.branch \in Nat /\ n.scanned \in Nat
            /\ n.band \in 1 .. Len(BandEnds) + 2 /\ n.branch \in 1 .. Branches
            /\ n.index \in 0 .. MaxUint
        BY <1>1, <1>2, <1>9, <1>16, <2>3, <3>1, SMTT(60)
      <4> QED
        BY <1>5, <1>15, <2>3, <4>1 DEF ScanType, Scans
    <3> QED
      BY <1>5, <1>7, <1>8, <3>2, <3>3, <3>4 DEF Candidate, n
  <2> QED
    BY <2>4, <2>5
<1> QED
  BY <1>11, <1>12

-----------------------------------------------------------------------------
(* Requests. *)

\* What a client may be told.
Events == [stage : Range(Stages), current : Nat]

\* The stages and their order.
LEMMA StageFacts ==
  /\ Range(Stages) = {"open", "locating-keys", "open-keys", "prove", "done"}
  /\ Rank("open") = 1 /\ Rank("locating-keys") = 2 /\ Rank("open-keys") = 3
  /\ Rank("prove") = 4 /\ Rank("done") = 5
<1>1. /\ Len(Stages) = 5 /\ DOMAIN Stages = 1 .. 5
      /\ Stages[1] = "open" /\ Stages[2] = "locating-keys" /\ Stages[3] = "open-keys"
      /\ Stages[4] = "prove" /\ Stages[5] = "done"
  BY DEF Stages
<1>2. Range(Stages) = {Stages[i] : i \in 1 .. 5}
  BY <1>1 DEF Range
<1>3. ASSUME NEW k \in 1 .. 5 PROVE Rank(Stages[k]) = k
  <2>1. \A j \in 1 .. 5 : Stages[j] = Stages[k] => j = k
    BY <1>1, <1>3
  <2> QED
    BY <1>1, <2>1 DEF Rank
<1>4. Rank(Stages[1]) = 1 /\ Rank(Stages[2]) = 2 /\ Rank(Stages[3]) = 3
      /\ Rank(Stages[4]) = 4 /\ Rank(Stages[5]) = 5
  BY <1>3
<1> QED
  BY <1>1, <1>2, <1>4

\* An event is its stage and its counter.
LEMMA EventFacts ==
  ASSUME NEW stage \in Range(Stages), NEW current \in Nat
  PROVE  /\ Event(stage, current) \in Events
         /\ Event(stage, current).stage = stage /\ Event(stage, current).current = current
BY DEF Event, Events

\* Two requests differ only in what their client was told.
SameWork(q, e) ==
  /\ e.pc = q.pc /\ e.kind = q.kind /\ e.max = q.max /\ e.targets = q.targets
  /\ e.scan = q.scan /\ e.found = q.found /\ e.proofs = q.proofs /\ e.lost = q.lost
  /\ e.answer = q.answer /\ e.late = q.late

\* What one event does to a request.
LEMMA EmittedFacts ==
  ASSUME NEW q \in RequestType, NEW event \in Events, NEW e \in Emitted(q, event)
  PROVE  /\ e \in RequestType
         /\ SameWork(q, e)
         /\ q.cancelled => e.cancelled
         /\ e.last = q.last \/ (q.kind = "stream" /\ e.last = event)
         /\ q.kind = "stream" => e.lost \/ e.failed \/ e.last = event
<1>1. q.cancelled \in BOOLEAN /\ q.failed \in BOOLEAN /\ q.lost \in BOOLEAN
  BY DEF RequestType
<1>2. CASE e = q /\ (q.kind = "stream" => q.lost)
  BY <1>2 DEF SameWork
<1>3. CASE q.kind = "stream" /\ q.failed /\ e = [q EXCEPT !.cancelled = TRUE]
  <2>1. e \in RequestType /\ SameWork(q, e) /\ e.last = q.last /\ e.failed = q.failed
        /\ e.cancelled = TRUE
    BY <1>3 DEF RequestType, SameWork
  <2> QED
    BY <1>3, <2>1
<1>4. CASE q.kind = "stream" /\ q.lost /\ e = [q EXCEPT !.failed = TRUE, !.cancelled = TRUE]
  <2>1. e \in RequestType /\ SameWork(q, e) /\ e.last = q.last /\ e.cancelled = TRUE
    BY <1>4 DEF RequestType, SameWork
  <2>2. e.lost
    BY <1>4, <2>1 DEF SameWork
  <2> QED
    BY <1>4, <2>1, <2>2
<1>5. CASE q.kind = "stream" /\ e = [q EXCEPT !.last = event]
  <2>1. e \in RequestType /\ SameWork(q, e) /\ e.last = event /\ e.cancelled = q.cancelled
    BY <1>5 DEF RequestType, SameWork, Events
  <2> QED
    BY <1>5, <2>1
<1> QED
  BY <1>1, <1>2, <1>3, <1>4, <1>5 DEF Emitted

\* The end of a handler.
LEMMA AnsweredFacts ==
  ASSUME NEW q \in RequestType, NEW code \in Codes
  PROVE  LET n == Answered(q, code) IN
         /\ n \in RequestType
         /\ n.pc = "ended" /\ n.kind = q.kind /\ n.max = q.max /\ n.targets = q.targets
         /\ n.scan = q.scan /\ n.found = q.found /\ n.proofs = q.proofs /\ n.late = q.late
         /\ n.last = q.last
         /\ n.answer = q.answer \/ (~q.lost /\ ~q.failed /\ n.answer = code)
<1> DEFINE a == IF q.lost \/ q.failed THEN q.answer ELSE code
           n == [q EXCEPT !.pc = "ended", !.cancelled = FALSE, !.lost = FALSE,
                          !.failed = FALSE, !.answer = a]
<1>1. a \in Codes /\ (a = q.answer \/ (~q.lost /\ ~q.failed /\ a = code))
  BY DEF RequestType
<1>2. Answered(q, code) = n
  BY DEF Answered
<1> HIDE DEF a
<1>3. /\ n \in RequestType
      /\ n.pc = "ended" /\ n.kind = q.kind /\ n.max = q.max /\ n.targets = q.targets
      /\ n.scan = q.scan /\ n.found = q.found /\ n.proofs = q.proofs /\ n.late = q.late
      /\ n.last = q.last /\ n.answer = a
  BY <1>1 DEF RequestType, Pcs
<1> HIDE DEF n
<1> QED
  BY <1>1, <1>2, <1>3

\* A handler answers: its search was complete when it found no path, or had come to
\* the last index when it failed; its proofs were when it has a result.
LEMMA Answers ==
  ASSUME NEW q, RequestInv(q), q.pc # "ended", NEW code \in Codes \ {"none"},
         code = "path_not_found" => ScanOver(q.max, q.scan) /\ q.found # Range(q.targets),
         code = "proof_failed" =>
           q.found = Range(q.targets) \/ (~ScanOver(q.max, q.scan) /\ ~Derivable(q.scan)),
         code = "result" => q.pc = "answering"
  PROVE  RequestInv(Answered(q, code)) /\ ClientSees(q, Answered(q, code))
<1> DEFINE n == Answered(q, code)
<1>1. q \in RequestType /\ q.answer = "none" /\ q.late \in Nat /\ q.late <= 1 /\ q.last \in Events
  BY DEF RequestInv, RequestOK, ProgressInv, CancelInv, RequestType, Events
<1>2. /\ n \in RequestType
      /\ n.pc = "ended" /\ n.kind = q.kind /\ n.max = q.max /\ n.targets = q.targets
      /\ n.scan = q.scan /\ n.found = q.found /\ n.proofs = q.proofs /\ n.late = q.late
      /\ n.last = q.last
      /\ n.answer = q.answer \/ (~q.lost /\ ~q.failed /\ n.answer = code)
  BY <1>1, AnsweredFacts
<1> HIDE DEF n
<1>3. RequestOK(n)
  BY <1>2 DEF RequestInv, RequestOK
<1>4. SearchInv(n)
  BY <1>1, <1>2 DEF RequestInv, SearchInv
<1>5. KeyInv(n) /\ CancelInv(n) /\ ProgressInv(n)
  BY <1>1, <1>2 DEF RequestInv, KeyInv, CancelInv, ProgressInv
<1>6. ClientSees(q, n)
  <2>1. Rank(q.last.stage) <= Rank(n.last.stage) /\ q.last.current <= n.last.current
    BY <1>1, <1>2, StageFacts DEF Events
  <2>2. ASSUME n.answer = "result"
        PROVE  /\ n.proofs = Len(n.targets)
               /\ n.kind = "stream" => n.last = Event("done", Len(n.targets))
    <3>1. q.pc = "answering" /\ ~q.lost /\ ~q.failed
      BY <1>1, <1>2, <2>2
    <3> QED
      BY <1>2, <3>1 DEF RequestInv, ProgressInv
  <2> QED
    BY <1>1, <2>1, <2>2 DEF ClientSees
<1> QED
  BY <1>3, <1>4, <1>5, <1>6 DEF RequestInv, n

\* A handler moves on, after an event or without one: what the client was told
\* before comes before it.
LEMMA Proceeds ==
  ASSUME NEW q, RequestInv(q), q.pc # "ended", NEW n, RequestOK(n),
         SearchInv(n), KeyInv(n), CancelInv(n), ProgressInv(n), n.answer = "none",
         \/ n.last = q.last
         \/ /\ Rank(q.last.stage) <= Rank(n.last.stage)
            /\ q.last.stage = n.last.stage => q.last.current <= n.last.current
  PROVE  RequestInv(n) /\ ClientSees(q, n)
<1>1. q.answer = "none" /\ q.last \in Events
  BY DEF RequestInv, RequestOK, ProgressInv, RequestType, Events
<1>2. Rank(q.last.stage) \in Nat /\ q.last.current \in Nat
  BY <1>1, StageFacts DEF Events
<1> QED
  BY <1>1, <1>2 DEF RequestInv, ClientSees

\* A request with another place in the code.
LEMMA PlacedFacts ==
  ASSUME NEW q \in RequestType, NEW pc \in Pcs
  PROVE  LET n == [q EXCEPT !.pc = pc] IN
         /\ n \in RequestType /\ n.pc = pc
         /\ n.kind = q.kind /\ n.max = q.max /\ n.targets = q.targets
         /\ n.scan = q.scan /\ n.found = q.found /\ n.proofs = q.proofs
         /\ n.cancelled = q.cancelled /\ n.lost = q.lost /\ n.failed = q.failed
         /\ n.last = q.last /\ n.answer = q.answer /\ n.late = q.late
BY DEF RequestType

-----------------------------------------------------------------------------
(* One step of a handler. *)

\* A request may become n: the invariant holds of n, and the client may see it.
Legal(q, n) == RequestInv(n) /\ ClientSees(q, n)

\* What the proofs show of every step.
StepOK == HelperInv' /\ \A r \in Requests : ClientSees(req[r], req'[r])

\* The invariant of a request looks only at the key directory.
LEMMA RequestInvStays ==
  ASSUME UNCHANGED disk, NEW q, RequestInv(q)
  PROVE  RequestInv(q)'
BY DEF RequestInv, RequestOK, SearchInv, KeyInv, CancelInv, ProgressInv, Loadable

\* A request that does not change shows its client nothing.
LEMMA SeesItself ==
  ASSUME NEW q, RequestInv(q)
  PROVE  ClientSees(q, q)
<1>1. q.last \in Events
  BY DEF RequestInv, RequestOK, RequestType, Events
<1>2. Rank(q.last.stage) \in Nat /\ q.last.current \in Nat
  BY <1>1, StageFacts DEF Events
<1> QED
  BY <1>2 DEF ClientSees

\* Every request has made a legal step, and so has the rest of the state.
LEMMA StateStep ==
  ASSUME HelperInv, UNCHANGED disk, DOMAIN req' = Requests,
         \A r \in Requests : Legal(req[r], req'[r]),
         lock' \in Actors \cup {None}, warm' \in {"wait", "loading", "over"},
         cache' \in BOOLEAN, timer' \in BOOLEAN, fired' \in Nat,
         shut' \in BOOLEAN, exited' \in BOOLEAN,
         cache' => Loadable, lock' \in Requests => req'[lock'].pc = "loading"
  PROVE  StepOK
<1>1. ASSUME NEW s \in Requests PROVE RequestInv(req[s])'
  <2>1. PICK m : m = req'[s]
    OBVIOUS
  <2>2. RequestInv(m)'
    BY <2>1, RequestInvStays DEF Legal
  <2> QED
    BY <2>1, <2>2 DEF RequestInv, RequestOK, SearchInv, KeyInv, CancelInv, ProgressInv
<1>2. TypeOK'
  BY <1>1 DEF HelperInv, TypeOK, RequestInv
<1>3. cache' => Loadable'
  BY DEF Loadable
<1> QED
  BY <1>1, <1>2, <1>3 DEF StepOK, HelperInv, Legal

\* One request changes, and all others stand.
LEMMA OneRequest ==
  ASSUME HelperInv, NEW r \in Requests, NEW n, Legal(req[r], n), req' = [req EXCEPT ![r] = n]
  PROVE  /\ DOMAIN req' = Requests /\ req'[r] = n
         /\ \A s \in Requests : Legal(req[s], req'[s])
<1>1. DOMAIN req = Requests /\ \A s \in Requests : RequestInv(req[s])
  BY DEF HelperInv, TypeOK
<1>2. DOMAIN req' = Requests /\ req'[r] = n /\ \A s \in Requests : s # r => req'[s] = req[s]
  BY <1>1
<1> QED
  BY <1>1, <1>2, SeesItself DEF Legal

\* No request changes.
LEMMA NoRequest ==
  ASSUME HelperInv, UNCHANGED req
  PROVE  DOMAIN req' = Requests /\ \A s \in Requests : Legal(req[s], req'[s])
BY SeesItself DEF HelperInv, TypeOK, Legal

\* Only the request of one handler changes.
LEMMA HandlerStep ==
  ASSUME HelperInv, NEW r \in Requests, NEW n, Legal(req[r], n),
         req' = [req EXCEPT ![r] = n], UNCHANGED <<disk, cacheVars, serverVars>>,
         req[r].pc = "loading" => n.pc = "loading"
  PROVE  StepOK
<1>1. DOMAIN req' = Requests /\ req'[r] = n /\ \A s \in Requests : Legal(req[s], req'[s])
  BY OneRequest
<1>2. \A s \in Requests : s # r => req'[s] = req[s]
  BY DEF HelperInv, TypeOK
<1>3. cache' => Loadable
  BY DEF HelperInv, cacheVars
<1>4. lock' \in Requests => req'[lock'].pc = "loading"
  BY <1>1, <1>2 DEF HelperInv, cacheVars
<1>5. /\ UNCHANGED disk
      /\ lock' \in Actors \cup {None} /\ warm' \in {"wait", "loading", "over"}
      /\ cache' \in BOOLEAN /\ timer' \in BOOLEAN /\ fired' \in Nat
      /\ shut' \in BOOLEAN /\ exited' \in BOOLEAN
  BY DEF HelperInv, TypeOK, cacheVars, serverVars
<1> QED
  BY <1>1, <1>3, <1>4, <1>5, StateStep

\* A handler that fails.
LEMMA FailsStep ==
  ASSUME HelperInv, NEW r \in Requests, NEW code \in Codes \ {"none"}, Fails(r, code),
         req[r].pc \notin {"ended", "loading"}, UNCHANGED <<disk, cacheVars, serverVars>>,
         code # "result",
         code = "path_not_found" => /\ ScanOver(req[r].max, req[r].scan)
                                    /\ req[r].found # Range(req[r].targets),
         code = "proof_failed" =>
           \/ req[r].found = Range(req[r].targets)
           \/ ~ScanOver(req[r].max, req[r].scan) /\ ~Derivable(req[r].scan)
  PROVE  StepOK
<1>1. RequestInv(req[r])
  BY DEF HelperInv
<1>2. PICK n : n = Answered(req[r], code)
  OBVIOUS
<1>3. Legal(req[r], n)
  BY <1>1, <1>2, Answers DEF Legal
<1>4. req' = [req EXCEPT ![r] = n]
  BY <1>2 DEF Fails
<1> QED
  BY <1>3, <1>4, HandlerStep

\* A search starts with the first candidate.
LEMMA StartFacts ==
  ASSUME NEW max \in 0 .. MaxUint
  PROVE  /\ ScanStart \in ScanType /\ ScanStart \in Scans(max) /\ ~ScanOver(max, ScanStart)
         /\ ScanInv(max, ScanStart) /\ Tried(max, ScanStart) = {} /\ ScanStart.scanned = 0
<1>1. /\ MaxUint \in Nat /\ max \in Nat /\ Branches \in Nat /\ Branches > 0
      /\ Len(BandEnds) \in Nat
  BY DiscoveryAssumption
<1>2. /\ Len(Bands[max]) \in 1 .. Len(BandEnds) + 1 /\ Bands[max][1].start = 0
      /\ Bands[max][1].end \in Nat
  BY <1>1, BandFacts
<1>3. ScanStart.band = 1 /\ ScanStart.index = 0 /\ ScanStart.branch = 1 /\ ScanStart.scanned = 0
  BY DEF ScanStart
<1>4. ~ScanOver(max, ScanStart)
  BY <1>1, <1>2, <1>3 DEF ScanOver
<1>5. Branches * 0 = 0 /\ discoveryTotal(max) \in Nat
  <2>1. max + 1 \in Nat
    BY <1>1
  <2> QED
    BY <1>1, <2>1, Times DEF discoveryTotal
<1>6. ScanInv(max, ScanStart)
  <2>1. Derivable(ScanStart)
    BY <1>3, DiscoveryAssumption DEF Derivable
  <2> QED
    BY <1>2, <1>3, <1>4, <1>5, <2>1 DEF ScanInv
<1>7. Tried(max, ScanStart) = {}
  <2>1. \A c \in InRange(max) : c[1] \in 0 .. max /\ c[2] \in 1 .. Branches
    BY DEF InRange
  <2>2. \A c \in InRange(max) : ~(c[1] < 0) /\ ~(c[2] < 1)
    BY <1>1, <2>1
  <2> QED
    BY <1>3, <1>4, <2>2 DEF Tried
<1>8. ScanStart \in ScanType /\ ScanStart \in Scans(max)
  BY <1>1, <1>5 DEF ScanStart, ScanType, Scans
<1> QED
  BY <1>3, <1>4, <1>6, <1>7, <1>8

\* Only an empty sequence asks for nothing.
LEMMA NoTargets ==
  ASSUME NEW s \in Seq(Nat \X Nat)
  PROVE  (s = <<>> <=> Range(s) = {}) /\ Range(s) \subseteq Nat \X Nat /\ Len(s) \in Nat
<1>1. DOMAIN s = 1 .. Len(s) /\ Len(s) \in Nat /\ \A i \in 1 .. Len(s) : s[i] \in Nat \X Nat
  OBVIOUS
<1>2. s = <<>> <=> Len(s) = 0
  OBVIOUS
<1>3. Range(s) = {s[i] : i \in 1 .. Len(s)}
  BY <1>1 DEF Range
<1>4. Range(s) \subseteq Nat \X Nat
  BY <1>1, <1>3
<1>5. ASSUME s = <<>> PROVE Range(s) = {}
  <2>1. 1 .. Len(s) = {}
    BY <1>2, <1>5
  <2> QED
    BY <1>3, <2>1
<1>6. ASSUME s # <<>> PROVE Range(s) # {}
  <2>1. 1 \in 1 .. Len(s)
    BY <1>1, <1>2, <1>6
  <2> QED
    BY <1>3, <2>1
<1> QED
  BY <1>1, <1>4, <1>5, <1>6

\* A request that has not arrived.
LEMMA IdleFacts ==
  /\ Idle \in RequestType /\ RequestOK(Idle) /\ SearchInv(Idle) /\ KeyInv(Idle)
  /\ CancelInv(Idle) /\ ProgressInv(Idle)
<1>1. 0 \in 0 .. MaxUint
  BY DiscoveryAssumption
<1>2. /\ ScanStart \in ScanType /\ ScanStart \in Scans(0) /\ ~ScanOver(0, ScanStart)
      /\ ScanInv(0, ScanStart) /\ Tried(0, ScanStart) = {}
  BY <1>1, StartFacts
<1>3. Range(<<>>) = {} /\ <<>> \in Seq(Nat \X Nat) /\ Len(<<>>) = 0
  <2>1. <<>> \in Seq(Nat \X Nat) /\ Len(<<>>) = 0
    OBVIOUS
  <2> QED
    BY <2>1, NoTargets
<1>4. Event("open", 0) \in Events /\ Event("open", 0).stage = "open"
  BY EventFacts, StageFacts
<1>5. /\ Idle.pc = "idle" /\ Idle.kind = "single" /\ Idle.max = 0 /\ Idle.targets = <<>>
      /\ Idle.scan = ScanStart /\ Idle.found = {} /\ Idle.proofs = 0
      /\ Idle.last = Event("open", 0) /\ Idle.answer = "none" /\ Idle.late = 0
  BY DEF Idle
<1>6. Idle \in RequestType
  BY <1>1, <1>2, <1>3, <1>4 DEF Idle, RequestType, Pcs, Kinds, Codes, Events, ScanType
<1>7. RequestOK(Idle)
  BY <1>2, <1>3, <1>5, <1>6 DEF RequestOK
<1>8. SearchInv(Idle)
  BY <1>2, <1>3, <1>5 DEF SearchInv
<1>9. KeyInv(Idle) /\ CancelInv(Idle)
  BY <1>5 DEF KeyInv, CancelInv
<1>10. ProgressInv(Idle)
  BY <1>4, <1>5 DEF ProgressInv
<1> QED
  BY <1>6, <1>7, <1>8, <1>9, <1>10

\* A request arrives: it is refused at once, or its handler starts.
LEMMA AcceptStep ==
  ASSUME HelperInv, NEW r \in Requests, Accept(r)
  PROVE  StepOK
<1>1. /\ RequestInv(req[r]) /\ req[r].pc = "idle" /\ req[r] = Idle
      /\ UNCHANGED <<disk, cacheVars, serverVars>>
  BY DEF HelperInv, Accept, RequestInv, ProgressInv
<1>2. CASE req' = [req EXCEPT ![r] = Answered(@, "refused")]
  <2>1. Fails(r, "refused")
    BY <1>2 DEF Fails
  <2> QED
    BY <1>1, <2>1, FailsStep DEF Codes
<1>3. CASE \E i \in Inputs[r] :
             req' = [req EXCEPT ![r].pc = "starting", ![r].kind = i.kind,
                                ![r].max = i.max, ![r].targets = i.targets]
  <2>1. PICK i \in Inputs[r] :
             req' = [req EXCEPT ![r].pc = "starting", ![r].kind = i.kind,
                                ![r].max = i.max, ![r].targets = i.targets]
    BY <1>3
  <2>2. /\ i.kind \in Kinds /\ i.max \in 0 .. MaxUint /\ i.targets \in Seq(Nat \X Nat)
        /\ i.targets # <<>> /\ (i.kind = "single" => Len(i.targets) = 1)
    BY HelperAssumption
  <2>3. PICK n : n = [Idle EXCEPT !.pc = "starting", !.kind = i.kind, !.max = i.max,
                                  !.targets = i.targets]
    OBVIOUS
  <2>4. req' = [req EXCEPT ![r] = n]
    BY <1>1, <2>1, <2>3
  <2>5. /\ n.pc = "starting" /\ n.kind = i.kind /\ n.max = i.max /\ n.targets = i.targets
        /\ n.scan = ScanStart /\ n.found = {} /\ n.proofs = 0
        /\ n.last = Event("open", 0) /\ n.answer = "none" /\ n.late = 0
    BY <2>3 DEF Idle
  <2>6. n \in RequestType
    BY <2>2, <2>3, IdleFacts DEF RequestType, Pcs
  <2>7. /\ ScanStart \in Scans(i.max) /\ ScanInv(i.max, ScanStart)
        /\ Tried(i.max, ScanStart) = {} /\ Range(i.targets) # {} /\ Len(i.targets) \in Nat
    BY <2>2, StartFacts, NoTargets
  <2>8. RequestOK(n) /\ SearchInv(n)
    BY <2>2, <2>5, <2>6, <2>7 DEF RequestOK, SearchInv
  <2>9. KeyInv(n) /\ CancelInv(n)
    BY <2>5 DEF KeyInv, CancelInv
  <2>10. Event("open", 0).stage = "open" /\ Idle.last = Event("open", 0)
    BY EventFacts, StageFacts DEF Idle
  <2>11. ProgressInv(n)
    BY <2>2, <2>5, <2>10 DEF ProgressInv
  <2>12. Legal(req[r], n)
    BY <1>1, <2>5, <2>8, <2>9, <2>10, <2>11, Proceeds DEF Legal
  <2> QED
    BY <1>1, <2>4, <2>12, HandlerStep
<1> QED
  BY <1>2, <1>3 DEF Accept

\* The search begins.
LEMMA BeginStep ==
  ASSUME HelperInv, NEW r \in Requests, Begin(r)
  PROVE  StepOK
<1> DEFINE q == req[r]
           ev == Event("locating-keys", 0)
<1>1. RequestInv(q) /\ q.pc = "starting" /\ UNCHANGED <<disk, cacheVars, serverVars>>
  BY DEF HelperInv, Begin
<1>2. CASE q.cancelled
  <2>1. Fails(r, "request_cancelled")
    BY <1>2 DEF Begin
  <2> QED
    BY <1>1, <2>1, FailsStep DEF Codes
<1>3. CASE ~q.cancelled
  <2>1. PICK e \in Emitted(q, ev) : req' = [req EXCEPT ![r] = [e EXCEPT !.pc = "locating"]]
    BY <1>3 DEF Begin, Becomes
  <2>2. PICK n : n = [e EXCEPT !.pc = "locating"]
    OBVIOUS
  <2>3. q \in RequestType /\ ev \in Events /\ ev.stage = "locating-keys" /\ ev.current = 0
    BY <1>1, EventFacts, StageFacts DEF RequestInv, RequestOK
  <2> HIDE DEF q, ev
  <2>4. /\ e \in RequestType /\ SameWork(q, e)
        /\ e.last = q.last \/ (q.kind = "stream" /\ e.last = ev)
    BY <2>3, EmittedFacts
  <2>5. /\ n \in RequestType /\ n.pc = "locating"
        /\ n.kind = q.kind /\ n.max = q.max /\ n.targets = q.targets
        /\ n.scan = q.scan /\ n.found = q.found /\ n.proofs = q.proofs
        /\ n.answer = q.answer /\ n.late = q.late /\ n.last = e.last
    <3>1. "locating" \in Pcs
      BY DEF Pcs
    <3> QED
      BY <2>2, <2>4, <3>1, PlacedFacts DEF SameWork
  <2>6. /\ q.scan = ScanStart /\ q.targets # <<>> /\ q.proofs = 0 /\ q.answer = "none"
        /\ q.last = Event("open", 0) /\ q.found = Range(q.targets) \cap Tried(q.max, q.scan)
        /\ q.targets \in Seq(Nat \X Nat) /\ q.max \in 0 .. MaxUint /\ q.late = 0
    BY <1>1, <2>3 DEF RequestInv, SearchInv, ProgressInv, CancelInv, RequestType
  <2>7. q.found # Range(q.targets) /\ q.scan.scanned = 0
    BY <2>6, StartFacts, NoTargets
  <2>8. RequestOK(n) /\ SearchInv(n)
    BY <1>1, <2>5, <2>6, <2>7 DEF RequestInv, RequestOK, SearchInv
  <2>9. KeyInv(n) /\ CancelInv(n)
    BY <2>5, <2>6 DEF KeyInv, CancelInv
  <2>10. q.last.stage = "open" /\ q.last.current = 0
    BY <2>6, EventFacts, StageFacts
  <2>11. ProgressInv(n)
    BY <1>1, <2>3, <2>4, <2>5, <2>6, <2>7, <2>10 DEF RequestInv, ProgressInv
  <2>12. Rank(q.last.stage) <= Rank(ev.stage)
    BY <2>3, <2>10, StageFacts
  <2>13. Legal(q, n)
    BY <1>1, <2>3, <2>4, <2>5, <2>6, <2>8, <2>9, <2>10, <2>11, <2>12, Proceeds DEF Legal
  <2> QED
    BY <1>1, <2>1, <2>2, <2>13, HandlerStep DEF q
<1> QED
  BY <1>2, <1>3

\* One candidate of the search, which may end it.
LEMMA LocateStep ==
  ASSUME HelperInv, NEW r \in Requests, Locate(r)
  PROVE  StepOK
<1> DEFINE q      == req[r]
           c      == Candidate(q.scan)
           wanted == Candidate(q.scan) \in Range(q.targets)
           found  == IF wanted THEN q.found \cup {Candidate(q.scan)} ELSE q.found
           scan   == Scanned(q.max, q.scan)
           over   == found = Range(q.targets)
           pc     == IF over THEN "located" ELSE "locating"
           next   == [q EXCEPT !.scan = scan, !.found = found,
                               !.pc = IF over THEN "located" ELSE "locating"]
           tells  == over \/ scan.scanned % ProgressEvery = 0 \/ EndsBand(q.max, q.scan)
           ev     == Event("locating-keys", scan.scanned)
<1>1. /\ RequestInv(q) /\ q.pc = "locating" /\ UNCHANGED <<disk, cacheVars, serverVars>>
      /\ q \in RequestType
  BY DEF HelperInv, Locate, RequestInv, RequestOK
<1>2. CASE ScanOver(q.max, q.scan)
  <2>1. Fails(r, "path_not_found")
    BY <1>2 DEF Locate
  <2>2. q.found # Range(q.targets)
    BY <1>1 DEF RequestInv, SearchInv
  <2> QED
    BY <1>1, <1>2, <2>1, <2>2, FailsStep DEF Codes
<1>3. CASE ~ScanOver(q.max, q.scan) /\ q.cancelled
  <2>1. Fails(r, "request_cancelled")
    BY <1>3 DEF Locate
  <2> QED
    BY <1>1, <2>1, FailsStep DEF Codes
<1>5. CASE ~ScanOver(q.max, q.scan) /\ ~q.cancelled /\ ~Derivable(q.scan)
  <2>1. Fails(r, "proof_failed")
    BY <1>5 DEF Locate
  <2> QED
    BY <1>1, <1>5, <2>1, FailsStep DEF Codes
<1>4. CASE ~ScanOver(q.max, q.scan) /\ ~q.cancelled /\ Derivable(q.scan)
  <2>1. PICK n \in IF tells THEN Emitted(next, ev) ELSE {next} : req' = [req EXCEPT ![r] = n]
    BY <1>4 DEF Locate, Becomes
  <2>2. /\ q.max \in 0 .. MaxUint /\ q.scan \in ScanType /\ q.scan \in Scans(q.max)
        /\ ScanInv(q.max, q.scan) /\ q.found = Range(q.targets) \cap Tried(q.max, q.scan)
        /\ q.targets \in Seq(Nat \X Nat) /\ q.proofs = 0 /\ q.answer = "none" /\ q.late = 0
        /\ q.last.stage \in {"open", "locating-keys"}
        /\ (q.kind # "stream" => q.last = Event("open", 0))
        /\ (q.last.stage = "locating-keys" => q.last.current <= q.scan.scanned)
        /\ (q.kind = "single" => Len(q.targets) = 1)
        /\ q.last.current \in Nat /\ q.scan.scanned \in Nat
    BY <1>1 DEF RequestInv, RequestOK, SearchInv, ProgressInv, CancelInv, RequestType, ScanType
  <2>3. /\ scan \in ScanType /\ scan \in Scans(q.max) /\ ScanInv(q.max, scan)
        /\ scan.scanned = q.scan.scanned + 1
        /\ Tried(q.max, scan) = Tried(q.max, q.scan) \cup {c}
    BY <1>4, <2>2, ScanStep
  <2>4. found = Range(q.targets) \cap Tried(q.max, scan)
    BY <2>2, <2>3
  <2>5. /\ Range(q.targets) \subseteq Nat \X Nat /\ Len(q.targets) \in Nat
        /\ pc \in {"located", "locating"}
    BY <2>2, NoTargets
  <2>6. /\ next.pc = pc /\ next.kind = q.kind /\ next.max = q.max /\ next.targets = q.targets
        /\ next.scan = scan /\ next.found = found /\ next.proofs = q.proofs
        /\ next.last = q.last /\ next.answer = q.answer /\ next.late = q.late
    BY <1>1 DEF RequestType
  <2>7. next \in RequestType
    <3>1. found \in SUBSET (Nat \X Nat)
      BY <2>4, <2>5
    <3> HIDE DEF found, scan, over
    <3> QED
      BY <1>1, <2>3, <3>1 DEF RequestType, ScanType, Pcs
  <2>8. ev \in Events /\ ev.stage = "locating-keys" /\ ev.current = scan.scanned
        /\ scan.scanned \in Nat
    BY <2>2, <2>3, EventFacts, StageFacts
  <2>9. pc = "located" <=> found = Range(q.targets)
    OBVIOUS
  <2> HIDE DEF q, found, scan, pc, next, ev, tells, over, c, wanted
  <2>10. /\ n \in RequestType /\ SameWork(next, n)
         /\ n.last = next.last \/ (next.kind = "stream" /\ n.last = ev)
    <3>1. CASE tells
      BY <2>1, <2>7, <2>8, <3>1, EmittedFacts
    <3>2. CASE ~tells
      <4>1. n = next
        BY <2>1, <3>2
      <4> QED
        BY <2>7, <4>1 DEF SameWork
    <3> QED
      BY <3>1, <3>2
  <2>11. /\ n.pc = pc /\ n.kind = q.kind /\ n.max = q.max /\ n.targets = q.targets
         /\ n.scan = scan /\ n.found = found /\ n.proofs = 0
         /\ n.answer = "none" /\ n.late = 0
         /\ (n.last = q.last \/ (q.kind = "stream" /\ n.last = ev))
    BY <2>2, <2>6, <2>10 DEF SameWork
  <2>12. RequestOK(n)
    BY <2>3, <2>4, <2>5, <2>10, <2>11 DEF RequestOK
  <2>13. SearchInv(n)
    BY <2>3, <2>4, <2>5, <2>9, <2>11 DEF SearchInv
  <2>14. KeyInv(n) /\ CancelInv(n)
    BY <2>5, <2>11 DEF KeyInv, CancelInv
  <2>15. n.last.stage \in {"open", "locating-keys"}
    BY <2>2, <2>8, <2>11
  <2>16. n.last.stage = "locating-keys" => n.last.current <= n.scan.scanned
    BY <2>2, <2>3, <2>8, <2>11
  <2>17. ProgressInv(n)
    BY <2>2, <2>5, <2>11, <2>15, <2>16 DEF ProgressInv
  <2>18. \/ n.last = q.last
         \/ /\ Rank(q.last.stage) <= Rank(n.last.stage)
            /\ q.last.stage = n.last.stage => q.last.current <= n.last.current
    <3>1. Rank("open") <= Rank(ev.stage) /\ Rank("locating-keys") <= Rank(ev.stage)
      BY <2>8, StageFacts
    <3>2. q.last.stage = ev.stage => q.last.current <= ev.current
      BY <2>2, <2>3, <2>8
    <3> QED
      BY <2>2, <2>11, <3>1, <3>2
  <2>19. Legal(q, n)
    BY <1>1, <2>11, <2>12, <2>13, <2>14, <2>17, <2>18, Proceeds DEF Legal
  <2> QED
    BY <1>1, <2>1, <2>19, HandlerStep DEF q
<1> QED
  BY <1>2, <1>3, <1>4, <1>5

\* The generator has found every path and turns to the keys.
LEMMA OpenKeysStep ==
  ASSUME HelperInv, NEW r \in Requests, OpenKeys(r)
  PROVE  StepOK
<1> DEFINE q  == req[r]
           ev == Event("open-keys", 0)
<1>1. /\ RequestInv(q) /\ q.pc = "located" /\ UNCHANGED <<disk, cacheVars, serverVars>>
      /\ q \in RequestType
  BY DEF HelperInv, OpenKeys, RequestInv, RequestOK
<1>2. /\ q.proofs = 0 /\ q.answer = "none" /\ q.last.stage \in {"open", "locating-keys"}
      /\ q.late = 0 /\ q.found = Range(q.targets)
      /\ (q.kind # "stream" => q.last = Event("open", 0))
      /\ (q.last.stage = "locating-keys" => q.last.current <= q.scan.scanned)
      /\ (q.kind = "single" => Len(q.targets) = 1)
      /\ Len(q.targets) \in Nat
  <2>1. q.found = Range(q.targets)
    BY <1>1 DEF RequestInv, SearchInv
  <2>2. q.late = 0
    BY <1>1 DEF RequestInv, CancelInv, RequestType
  <2>3. Len(q.targets) \in Nat
    BY <1>1 DEF RequestType
  <2> HIDE DEF q
  <2> QED
    BY <1>1, <2>1, <2>2, <2>3 DEF RequestInv, ProgressInv
<1>3. ev \in Events /\ ev.stage = "open-keys" /\ ev.current = 0 /\ Event("open", 0).stage = "open"
  BY EventFacts, StageFacts
<1>4. "wait" \in Pcs /\ "computing" \in Pcs
  BY DEF Pcs
<1>5. CASE q.kind # "single"
  <2>1. PICK e \in Emitted(q, ev) : req' = [req EXCEPT ![r] = [e EXCEPT !.pc = "wait"]]
    BY <1>5 DEF OpenKeys, Becomes
  <2>2. PICK n : n = [e EXCEPT !.pc = "wait"]
    OBVIOUS
  <2> HIDE DEF q, ev
  <2>3. /\ e \in RequestType /\ SameWork(q, e)
        /\ e.last = q.last \/ (q.kind = "stream" /\ e.last = ev)
    BY <1>1, <1>3, EmittedFacts
  <2>4. /\ n \in RequestType /\ n.pc = "wait"
        /\ n.kind = q.kind /\ n.max = q.max /\ n.targets = q.targets
        /\ n.scan = q.scan /\ n.found = q.found /\ n.proofs = 0
        /\ n.answer = "none" /\ n.late = 0
        /\ n.last = q.last \/ (q.kind = "stream" /\ n.last = ev)
    BY <1>2, <1>4, <2>2, <2>3, PlacedFacts DEF SameWork
  <2>5. RequestOK(n) /\ SearchInv(n)
    BY <1>1, <1>2, <2>4 DEF RequestInv, RequestOK, SearchInv
  <2>6. KeyInv(n) /\ CancelInv(n)
    BY <1>5, <2>4 DEF KeyInv, CancelInv
  <2>7. ProgressInv(n)
    BY <1>2, <1>3, <1>5, <2>4 DEF ProgressInv
  <2>8. \/ n.last = q.last
        \/ /\ Rank(q.last.stage) <= Rank(n.last.stage)
           /\ q.last.stage = n.last.stage => q.last.current <= n.last.current
    BY <1>2, <1>3, <2>4, StageFacts
  <2>9. Legal(q, n)
    BY <1>1, <2>4, <2>5, <2>6, <2>7, <2>8, Proceeds DEF Legal
  <2> QED
    BY <1>1, <2>1, <2>2, <2>9, HandlerStep DEF q
<1>6. CASE q.kind = "single" /\ disk # "unusable"
  <2>1. PICK n : n = [q EXCEPT !.pc = "computing"]
    OBVIOUS
  <2>2. req' = [req EXCEPT ![r] = n]
    BY <1>6, <2>1 DEF OpenKeys
  <2> HIDE DEF q, ev
  <2>4. /\ n \in RequestType /\ n.pc = "computing"
        /\ n.kind = q.kind /\ n.max = q.max /\ n.targets = q.targets
        /\ n.scan = q.scan /\ n.found = q.found /\ n.proofs = 0
        /\ n.answer = "none" /\ n.late = 0 /\ n.last = q.last
    BY <1>1, <1>2, <1>4, <2>1, PlacedFacts
  <2>5. RequestOK(n) /\ SearchInv(n)
    BY <1>1, <1>2, <2>4 DEF RequestInv, RequestOK, SearchInv
  <2>6. KeyInv(n) /\ CancelInv(n)
    BY <1>6, <2>4 DEF KeyInv, CancelInv
  <2>7. ProgressInv(n)
    <3>1. q.last = Event("open", 0)
      BY <1>2, <1>6
    <3>2. n.last = Event("open", 0) /\ n.last.stage = "open"
      BY <1>3, <2>4, <3>1
    <3>3. Len(n.targets) = 1
      BY <1>2, <1>6, <2>4
    <3>4. n.proofs < Len(n.targets)
      BY <2>4, <3>3
    <3> QED
      BY <1>6, <2>4, <3>2, <3>3, <3>4 DEF ProgressInv
  <2>9. Legal(q, n)
    BY <1>1, <2>4, <2>5, <2>6, <2>7, Proceeds DEF Legal
  <2> QED
    BY <1>1, <2>2, <2>9, HandlerStep DEF q
<1>7. CASE q.kind = "single" /\ disk = "unusable"
  <2>1. Fails(r, "proof_failed")
    BY <1>7 DEF OpenKeys
  <2>2. q.found = Range(q.targets)
    BY <1>2
  <2> QED
    BY <1>1, <2>1, <2>2, FailsStep DEF Codes
<1> QED
  BY <1>5, <1>6, <1>7

\* The loop over the requested proofs: the next one, the end, or a cancelled context.
LEMMA NextProofStep ==
  ASSUME HelperInv, NEW r \in Requests, NextProof(r)
  PROVE  StepOK
<1> DEFINE q    == req[r]
           stop == q.proofs = Len(q.targets)
           ev   == Event(IF stop THEN "done" ELSE "prove", q.proofs)
           pc   == IF stop THEN "answering" ELSE "computing"
<1>1. /\ RequestInv(q) /\ q.pc = "proving" /\ UNCHANGED <<disk, cacheVars, serverVars>>
      /\ q \in RequestType
  BY DEF HelperInv, NextProof, RequestInv, RequestOK
<1>2. CASE ~stop /\ q.cancelled
  <2>1. Fails(r, "request_cancelled")
    BY <1>2 DEF NextProof
  <2> QED
    BY <1>1, <2>1, FailsStep DEF Codes
<1>3. CASE stop \/ ~q.cancelled
  <2>1. PICK e \in Emitted(q, ev) : req' = [req EXCEPT ![r] = [e EXCEPT !.pc = pc]]
    BY <1>3 DEF NextProof, Becomes
  <2>2. PICK n : n = [e EXCEPT !.pc = pc]
    OBVIOUS
  <2>3. q.found = Range(q.targets) /\ q.kind # "single"
    BY <1>1 DEF RequestInv, SearchInv, KeyInv
  <2>4. /\ Len(q.targets) \in Nat /\ q.proofs \in Nat /\ q.proofs <= Len(q.targets)
        /\ q.last \in Events /\ q.late \in Nat
    BY <1>1 DEF RequestInv, RequestOK, RequestType, Events
  <2>5. /\ q.answer = "none" /\ q.last.stage # "done"
        /\ (q.kind # "stream" => q.last = Event("open", 0))
        /\ (q.last.stage = "locating-keys" => q.last.current <= q.scan.scanned)
        /\ (q.last.stage = "open-keys" => q.last.current = 0)
        /\ (q.last.stage = "prove" => q.last.current <= q.proofs)
    BY <1>1 DEF RequestInv, ProgressInv
  <2>6. Loadable /\ q.late <= 1 /\ (q.late > 0 => q.cancelled)
    BY <1>1, <2>3 DEF RequestInv, KeyInv, CancelInv
  <2>7. /\ ev \in Events /\ ev.current = q.proofs
        /\ ev.stage = (IF stop THEN "done" ELSE "prove")
    BY <2>4, EventFacts, StageFacts
  <2>8. pc \in Pcs /\ pc = (IF stop THEN "answering" ELSE "computing")
    BY DEF Pcs
  <2> HIDE DEF q, ev, pc
  <2>9. /\ e \in RequestType /\ SameWork(q, e) /\ (q.cancelled => e.cancelled)
        /\ e.last = q.last \/ (q.kind = "stream" /\ e.last = ev)
        /\ (q.kind = "stream" => e.lost \/ e.failed \/ e.last = ev)
    BY <1>1, <2>7, EmittedFacts
  <2>10. /\ n \in RequestType /\ n.pc = pc /\ n.cancelled = e.cancelled
         /\ n.kind = q.kind /\ n.max = q.max /\ n.targets = q.targets
         /\ n.scan = q.scan /\ n.found = q.found /\ n.proofs = q.proofs
         /\ n.answer = "none" /\ n.late = q.late
         /\ n.last = q.last \/ (q.kind = "stream" /\ n.last = ev)
         /\ (q.kind = "stream" => n.lost \/ n.failed \/ n.last = ev)
    BY <2>2, <2>5, <2>8, <2>9, PlacedFacts DEF SameWork
  <2>11. RequestOK(n) /\ SearchInv(n)
    BY <1>1, <2>3, <2>8, <2>10 DEF RequestInv, RequestOK, SearchInv
  <2>12. KeyInv(n)
    BY <2>3, <2>6, <2>8, <2>10 DEF KeyInv
  <2>13. CancelInv(n)
    BY <1>3, <2>4, <2>6, <2>8, <2>9, <2>10 DEF CancelInv
  <2>14. n.last.stage = "locating-keys" => n.last.current <= n.scan.scanned
    BY <2>5, <2>7, <2>10
  <2>15. n.last.stage = "open-keys" => n.last.current = 0
    BY <2>5, <2>7, <2>10
  <2>16. n.last.stage = "prove" => n.last.current <= n.proofs
    BY <2>4, <2>5, <2>7, <2>10
  <2>17. ProgressInv(n)
    <3>1. CASE stop
      <4>1. n.pc = "answering" /\ n.proofs = Len(n.targets)
        BY <2>8, <2>10, <3>1
      <4>2. ev = Event("done", n.proofs)
        BY <2>10, <3>1 DEF ev
      <4> QED
        BY <2>3, <2>5, <2>10, <2>14, <2>15, <2>16, <4>1, <4>2 DEF ProgressInv
    <3>2. CASE ~stop
      <4>1. n.pc = "computing" /\ n.proofs < Len(n.targets)
        BY <2>4, <2>8, <2>10, <3>2
      <4>2. n.last.stage # "done"
        BY <2>5, <2>7, <2>10, <3>2
      <4> QED
        BY <2>3, <2>5, <2>10, <2>14, <2>15, <2>16, <4>1, <4>2 DEF ProgressInv
    <3> QED
      BY <3>1, <3>2
  <2>18. \/ n.last = q.last
         \/ /\ Rank(q.last.stage) <= Rank(n.last.stage)
            /\ q.last.stage = n.last.stage => q.last.current <= n.last.current
    <3>1. Rank(q.last.stage) <= Rank(ev.stage)
      BY <2>4, <2>5, <2>7, StageFacts DEF Events
    <3>2. q.last.stage = ev.stage => q.last.current <= ev.current
      BY <2>5, <2>7
    <3> QED
      BY <2>10, <3>1, <3>2
  <2>19. Legal(q, n)
    BY <1>1, <2>10, <2>11, <2>12, <2>13, <2>17, <2>18, Proceeds DEF Legal
  <2> QED
    BY <1>1, <2>1, <2>2, <2>19, HandlerStep DEF q
<1> QED
  BY <1>2, <1>3

\* A proof is made, perhaps for a context that is already cancelled, or fails.
LEMMA ComputeStep ==
  ASSUME HelperInv, NEW r \in Requests, Compute(r)
  PROVE  StepOK
<1> DEFINE q    == req[r]
           late == IF q.cancelled THEN q.late + 1 ELSE q.late
           pc   == IF q.kind = "single" THEN "answering" ELSE "proving"
           p    == [q EXCEPT !.proofs = @ + 1, !.late = IF q.cancelled THEN @ + 1 ELSE @,
                             !.pc = IF q.kind = "single" THEN "answering" ELSE "proving"]
           ev   == Event("prove", p.proofs)
<1>1. /\ RequestInv(q) /\ q.pc = "computing" /\ UNCHANGED <<disk, cacheVars, serverVars>>
      /\ q \in RequestType
  BY DEF HelperInv, Compute, RequestInv, RequestOK
<1>2. CASE Fails(r, "proof_failed")
  <2>1. q.found = Range(q.targets)
    BY <1>1 DEF RequestInv, SearchInv
  <2> QED
    BY <1>1, <1>2, <2>1, FailsStep DEF Codes
<1>3. CASE Becomes(r, Emitted(p, ev))
  <2>1. PICK n \in Emitted(p, ev) : req' = [req EXCEPT ![r] = n]
    BY <1>3 DEF Becomes
  <2>2. q.found = Range(q.targets) /\ (q.kind # "single" => Loadable)
    BY <1>1 DEF RequestInv, SearchInv, KeyInv
  <2>3. Len(q.targets) \in Nat /\ q.proofs \in Nat /\ q.last \in Events /\ q.late \in Nat
    BY <1>1 DEF RequestInv, RequestOK, RequestType, Events
  <2>4. /\ q.answer = "none" /\ q.last.stage # "done" /\ q.proofs < Len(q.targets)
        /\ (q.kind = "single" => Len(q.targets) = 1 /\ q.proofs = 0)
        /\ (q.kind # "stream" => q.last = Event("open", 0))
        /\ (q.last.stage = "locating-keys" => q.last.current <= q.scan.scanned)
        /\ (q.last.stage = "open-keys" => q.last.current = 0)
        /\ (q.last.stage = "prove" => q.last.current <= q.proofs)
    BY <1>1 DEF RequestInv, ProgressInv
  <2>5. q.late = 0
    BY <1>1, <2>3 DEF RequestInv, CancelInv
  <2>6. late \in Nat /\ late <= 1 /\ (late > 0 => q.cancelled)
    BY <2>5
  <2>7. pc \in Pcs /\ pc = (IF q.kind = "single" THEN "answering" ELSE "proving")
    BY DEF Pcs
  <2>8. p = [q EXCEPT !.proofs = q.proofs + 1, !.late = late, !.pc = pc]
    BY <1>1 DEF RequestType
  <2> HIDE DEF late, pc, p, q
  <2>9. /\ p.pc = pc /\ p.kind = q.kind /\ p.max = q.max /\ p.targets = q.targets
        /\ p.scan = q.scan /\ p.found = q.found /\ p.proofs = q.proofs + 1
        /\ p.last = q.last /\ p.answer = q.answer /\ p.late = late /\ p.cancelled = q.cancelled
    BY <1>1, <2>8 DEF RequestType
  <2>10. p \in RequestType
    <3>1. q.proofs + 1 \in Nat
      BY <2>3
    <3> QED
      BY <1>1, <2>6, <2>7, <2>8, <3>1 DEF RequestType
  <2>11. ev \in Events /\ ev.stage = "prove" /\ ev.current = q.proofs + 1
    BY <2>3, <2>9, EventFacts, StageFacts
  <2> HIDE DEF ev
  <2>12. /\ n \in RequestType /\ SameWork(p, n) /\ (p.cancelled => n.cancelled)
         /\ n.last = p.last \/ (p.kind = "stream" /\ n.last = ev)
    BY <2>1, <2>10, <2>11, EmittedFacts
  <2>13. /\ n.pc = pc /\ n.kind = q.kind /\ n.max = q.max /\ n.targets = q.targets
         /\ n.scan = q.scan /\ n.found = q.found /\ n.proofs = q.proofs + 1
         /\ n.answer = "none" /\ n.late = late /\ (q.cancelled => n.cancelled)
         /\ (n.last = q.last \/ (q.kind = "stream" /\ n.last = ev))
    BY <2>4, <2>9, <2>12 DEF SameWork
  <2>14. RequestOK(n)
    BY <1>1, <2>3, <2>4, <2>12, <2>13 DEF RequestInv, RequestOK
  <2>15. SearchInv(n)
    BY <1>1, <2>2, <2>7, <2>13 DEF RequestInv, SearchInv
  <2>16. KeyInv(n)
    BY <2>2, <2>7, <2>13 DEF KeyInv
  <2>17. CancelInv(n)
    BY <2>6, <2>7, <2>13 DEF CancelInv
  <2>18. n.last.stage = "locating-keys" => n.last.current <= n.scan.scanned
    BY <2>4, <2>11, <2>13
  <2>19. n.last.stage = "open-keys" => n.last.current = 0
    BY <2>4, <2>11, <2>13
  <2>20. n.last.stage = "prove" => n.last.current <= n.proofs
    <3>1. q.last.current \in Nat
      BY <2>3 DEF Events
    <3> QED
      BY <2>3, <2>4, <2>11, <2>13, <3>1
  <2>21. n.last.stage # "done"
    BY <2>4, <2>11, <2>13
  <2>22. q.kind = "single" => n.proofs = Len(n.targets) /\ Len(n.targets) = 1
    <3>1. q.kind = "single" => Len(q.targets) = 1 /\ q.proofs + 1 = 1
      BY <2>4
    <3> QED
      BY <2>13, <3>1
  <2>23. ProgressInv(n)
    BY <2>4, <2>7, <2>13, <2>18, <2>19, <2>20, <2>21, <2>22 DEF ProgressInv
  <2>24. \/ n.last = q.last
         \/ /\ Rank(q.last.stage) <= Rank(n.last.stage)
            /\ q.last.stage = n.last.stage => q.last.current <= n.last.current
    <3>1. Rank(q.last.stage) <= Rank(ev.stage)
      BY <2>3, <2>4, <2>11, StageFacts DEF Events
    <3>2. q.last.stage = ev.stage => q.last.current <= ev.current
      BY <2>3, <2>4, <2>11 DEF Events
    <3> QED
      BY <2>13, <3>1, <3>2
  <2>25. Legal(q, n)
    BY <1>1, <2>13, <2>14, <2>15, <2>16, <2>17, <2>23, <2>24, Proceeds DEF Legal
  <2> QED
    BY <1>1, <2>1, <2>25, HandlerStep DEF q
<1> QED
  BY <1>2, <1>3 DEF Compute

\* The handler writes its result.
LEMMA AnswerStep ==
  ASSUME HelperInv, NEW r \in Requests, Answer(r)
  PROVE  StepOK
<1>1. /\ RequestInv(req[r]) /\ req[r].pc = "answering"
      /\ UNCHANGED <<disk, cacheVars, serverVars>>
  BY DEF HelperInv, Answer
<1>2. PICK n : n = Answered(req[r], "result")
  OBVIOUS
<1>3. req' = [req EXCEPT ![r] = n]
  BY <1>2 DEF Answer
<1>4. Legal(req[r], n)
  BY <1>1, <1>2, Answers DEF Legal, Codes
<1> QED
  BY <1>1, <1>3, <1>4, HandlerStep

\* A handler moves on without a word to its client.
LEMMA QuietStep ==
  ASSUME NEW q, RequestInv(q), q.pc # "ended", NEW n \in RequestType,
         n.pc = q.pc, n.kind = q.kind, n.max = q.max, n.targets = q.targets,
         n.scan = q.scan, n.found = q.found, n.proofs = q.proofs, n.answer = q.answer,
         n.late = q.late, n.last = q.last, q.pc # "idle",
         q.cancelled => n.cancelled, q.lost => n.lost, q.failed => n.failed
  PROVE  Legal(q, n)
<1>1. RequestOK(n)
  BY DEF RequestInv, RequestOK
<1>2. SearchInv(n)
  BY DEF RequestInv, SearchInv
<1>3. KeyInv(n) /\ CancelInv(n)
  BY DEF RequestInv, KeyInv, CancelInv
<1>4. ProgressInv(n) /\ n.answer = "none"
  BY DEF RequestInv, ProgressInv
<1> QED
  BY <1>1, <1>2, <1>3, <1>4, Proceeds DEF Legal

\* The client goes away, or net/http notices that it has.
LEMMA LossStep ==
  ASSUME HelperInv, NEW r \in Requests, Disconnect(r) \/ NoticeLoss(r)
  PROVE  StepOK
<1> DEFINE q == req[r]
<1>1. /\ RequestInv(q) /\ q \in RequestType /\ q.pc \notin {"idle", "ended"}
      /\ UNCHANGED <<disk, cacheVars, serverVars>>
  BY DEF HelperInv, RequestInv, RequestOK, Disconnect, NoticeLoss, Active
<1>2. PICK n : \/ n = [q EXCEPT !.lost = TRUE] /\ req' = [req EXCEPT ![r] = n]
               \/ n = [q EXCEPT !.cancelled = TRUE] /\ req' = [req EXCEPT ![r] = n]
  BY DEF Disconnect, NoticeLoss
<1> HIDE DEF q
<1>3. /\ n \in RequestType /\ n.pc = q.pc
      /\ n.kind = q.kind /\ n.max = q.max /\ n.targets = q.targets
      /\ n.scan = q.scan /\ n.found = q.found /\ n.proofs = q.proofs /\ n.answer = q.answer
      /\ n.late = q.late /\ n.last = q.last
  BY <1>1, <1>2, ZenonT(60) DEF RequestType
<1>4. (q.cancelled => n.cancelled) /\ (q.lost => n.lost) /\ (q.failed => n.failed)
  BY <1>1, <1>2 DEF RequestType
<1>5. Legal(q, n)
  BY <1>1, <1>3, <1>4, QuietStep
<1> QED
  BY <1>1, <1>2, <1>3, <1>5, HandlerStep DEF q

-----------------------------------------------------------------------------
(* The key cache. *)

\* A request that waits for the key begins to load it, or has it.
LEMMA KeyStep ==
  ASSUME NEW q, RequestInv(q), q.pc \in {"wait", "loading"},
         NEW pc \in {"loading", "proving"}, pc = "proving" => Loadable
  PROVE  Legal(q, [q EXCEPT !.pc = pc])
<1>1. q \in RequestType /\ pc \in Pcs
  BY DEF RequestInv, RequestOK, Pcs
<1>2. PICK n : n = [q EXCEPT !.pc = pc]
  OBVIOUS
<1>3. /\ n \in RequestType /\ n.pc = pc
      /\ n.kind = q.kind /\ n.max = q.max /\ n.targets = q.targets
      /\ n.scan = q.scan /\ n.found = q.found /\ n.proofs = q.proofs
      /\ n.last = q.last /\ n.answer = q.answer /\ n.late = q.late
  BY <1>1, <1>2, PlacedFacts
<1>4. q.late = 0
  BY <1>1 DEF RequestInv, CancelInv, RequestType
<1>5. RequestOK(n) /\ SearchInv(n)
  BY <1>3 DEF RequestInv, RequestOK, SearchInv
<1>6. KeyInv(n) /\ CancelInv(n)
  BY <1>3, <1>4 DEF RequestInv, KeyInv, CancelInv
<1>7. ProgressInv(n) /\ n.answer = "none"
  BY <1>3 DEF RequestInv, ProgressInv, KeyInv
<1> QED
  BY <1>2, <1>3, <1>5, <1>6, <1>7, Proceeds DEF Legal

\* acquireDestinationProver finds the cache filled.
LEMMA AcquireCachedStep ==
  ASSUME HelperInv, NEW a \in Actors, AcquireCached(a)
  PROVE  StepOK
<1>1. /\ Waiting(a) /\ lock = None /\ cache /\ Loadable /\ timer' = TRUE /\ lock' = None
      /\ UNCHANGED <<disk, cache, fired, shut, exited>> /\ None \notin Requests
  BY HelperAssumption DEF HelperInv, AcquireCached, serverVars, Actors
<1>2. /\ warm' \in {"wait", "loading", "over"} /\ DOMAIN req' = Requests
      /\ \A s \in Requests : Legal(req[s], req'[s])
  <2>1. CASE a = Warm
    <3>1. warm' = "over" /\ UNCHANGED req
      BY <2>1 DEF AcquireCached, Acquired
    <3> QED
      BY <3>1, NoRequest
  <2>2. CASE a # Warm
    <3>1. /\ a \in Requests /\ req[a].pc = "wait" /\ warm' = warm
          /\ req' = [req EXCEPT ![a].pc = "proving"]
      BY <1>1, <2>2 DEF AcquireCached, Acquired, Waiting, Actors
    <3>2. PICK n : n = [req[a] EXCEPT !.pc = "proving"]
      OBVIOUS
    <3>3. Legal(req[a], n)
      BY <1>1, <3>1, <3>2, KeyStep DEF HelperInv
    <3>4. req' = [req EXCEPT ![a] = n]
      BY <3>1, <3>2
    <3> QED
      BY <3>1, <3>3, <3>4, OneRequest DEF HelperInv, TypeOK
  <2> QED
    BY <2>1, <2>2
<1>3. /\ lock' \in Actors \cup {None} /\ cache' \in BOOLEAN /\ timer' \in BOOLEAN
      /\ fired' \in Nat /\ shut' \in BOOLEAN /\ exited' \in BOOLEAN /\ (cache' => Loadable)
      /\ lock' \notin Requests
  BY <1>1 DEF HelperInv, TypeOK
<1> QED
  BY <1>1, <1>2, <1>3, StateStep

\* It finds the cache empty and takes the mutex.
LEMMA BeginLoadStep ==
  ASSUME HelperInv, NEW a \in Actors, BeginLoad(a)
  PROVE  StepOK
<1>1. /\ Waiting(a) /\ ~cache /\ lock' = a
      /\ UNCHANGED <<disk, cache, timer, fired, shut, exited>>
  BY DEF BeginLoad, serverVars
<1>2. /\ warm' \in {"wait", "loading", "over"} /\ DOMAIN req' = Requests
      /\ \A s \in Requests : Legal(req[s], req'[s])
      /\ lock' \in Requests => req'[lock'].pc = "loading"
  <2>1. CASE a = Warm
    <3>1. warm' = "loading" /\ UNCHANGED req /\ a \notin Requests
      BY <2>1, HelperAssumption DEF BeginLoad
    <3> QED
      BY <1>1, <3>1, NoRequest
  <2>2. CASE a # Warm
    <3>1. /\ a \in Requests /\ req[a].pc = "wait" /\ warm' = warm
          /\ req' = [req EXCEPT ![a].pc = "loading"]
      BY <1>1, <2>2 DEF BeginLoad, Waiting, Actors
    <3>2. PICK n : n = [req[a] EXCEPT !.pc = "loading"]
      OBVIOUS
    <3>3. Legal(req[a], n)
      BY <3>1, <3>2, KeyStep DEF HelperInv
    <3>4. req' = [req EXCEPT ![a] = n]
      BY <3>1, <3>2
    <3>5. n.pc = "loading"
      BY <3>1, <3>2, PlacedFacts DEF HelperInv, RequestInv, RequestOK, Pcs
    <3>6. req'[a] = n /\ DOMAIN req' = Requests /\ \A s \in Requests : Legal(req[s], req'[s])
      BY <3>1, <3>3, <3>4, OneRequest
    <3> QED
      BY <1>1, <3>1, <3>5, <3>6 DEF HelperInv, TypeOK
  <2> QED
    BY <2>1, <2>2
<1>3. /\ lock' \in Actors \cup {None} /\ cache' \in BOOLEAN /\ timer' \in BOOLEAN
      /\ fired' \in Nat /\ shut' \in BOOLEAN /\ exited' \in BOOLEAN /\ (cache' => Loadable)
  BY <1>1 DEF HelperInv, TypeOK
<1> QED
  BY <1>1, <1>2, <1>3, StateStep

\* The load ends, well or not, and the mutex is free.
LEMMA EndLoadStep ==
  ASSUME HelperInv, NEW a \in Actors, EndLoad(a)
  PROVE  StepOK
<1>1. /\ lock = a /\ lock' = None /\ UNCHANGED <<disk, fired, shut, exited>>
      /\ None \notin Requests
  BY HelperAssumption DEF EndLoad, serverVars, Actors
<1>2. /\ cache' \in BOOLEAN /\ timer' \in BOOLEAN /\ (cache' => Loadable)
  BY DEF EndLoad, HelperInv, TypeOK
<1>3. /\ warm' \in {"wait", "loading", "over"} /\ DOMAIN req' = Requests
      /\ \A s \in Requests : Legal(req[s], req'[s])
  <2>1. CASE a = Warm
    <3>1. warm' = "over" /\ UNCHANGED req
      BY <2>1 DEF EndLoad, Acquired, AcquireFailed
    <3> QED
      BY <3>1, NoRequest
  <2>2. CASE a # Warm
    <3>1. a \in Requests /\ req[a].pc = "loading" /\ RequestInv(req[a])
      BY <1>1, <2>2 DEF HelperInv, Actors
    <3>2. \/ Loadable /\ req' = [req EXCEPT ![a].pc = "proving"]
          \/ req' = [req EXCEPT ![a] = Answered(@, "proof_failed")]
      BY <2>2 DEF EndLoad, Acquired, AcquireFailed, Fails
    <3>3. warm' = warm
      BY <2>2 DEF EndLoad, Acquired, AcquireFailed
    <3>4. CASE Loadable /\ req' = [req EXCEPT ![a].pc = "proving"]
      <4>1. PICK n : n = [req[a] EXCEPT !.pc = "proving"]
        OBVIOUS
      <4>2. Legal(req[a], n)
        BY <3>1, <3>4, <4>1, KeyStep
      <4>3. req' = [req EXCEPT ![a] = n]
        BY <3>4, <4>1
      <4> QED
        BY <3>1, <3>3, <4>2, <4>3, OneRequest DEF HelperInv, TypeOK
    <3>5. CASE req' = [req EXCEPT ![a] = Answered(@, "proof_failed")]
      <4>1. PICK n : n = Answered(req[a], "proof_failed")
        OBVIOUS
      <4>2. Legal(req[a], n)
        <5>1. req[a].found = Range(req[a].targets)
          BY <3>1 DEF RequestInv, SearchInv
        <5> QED
          BY <3>1, <4>1, <5>1, Answers DEF Legal, Codes
      <4>3. req' = [req EXCEPT ![a] = n]
        BY <3>5, <4>1
      <4> QED
        BY <3>1, <3>3, <4>2, <4>3, OneRequest DEF HelperInv, TypeOK
    <3> QED
      BY <3>2, <3>4, <3>5
  <2> QED
    BY <2>1, <2>2
<1>4. /\ lock' \in Actors \cup {None} /\ lock' \notin Requests
      /\ fired' \in Nat /\ shut' \in BOOLEAN /\ exited' \in BOOLEAN
  BY <1>1 DEF HelperInv, TypeOK
<1> QED
  BY <1>1, <1>2, <1>3, <1>4, StateStep

\* The idle timer fires, its callback evicts the key, or a shutdown is asked for.
LEMMA QuietServerStep ==
  ASSUME HelperInv, TimerFires \/ evictDestinationProver \/ handleShutdown
  PROVE  StepOK
<1>1. UNCHANGED <<disk, req, lock, warm, exited>> /\ (cache' => cache)
  BY DEF TimerFires, evictDestinationProver, handleShutdown, cacheVars, serverVars
<1>2. DOMAIN req' = Requests /\ \A s \in Requests : Legal(req[s], req'[s])
  BY <1>1, NoRequest
<1>3. fired \in Nat /\ timer \in BOOLEAN /\ cache \in BOOLEAN /\ shut \in BOOLEAN
  BY DEF HelperInv, TypeOK
<1>4. fired' \in Nat
  BY <1>3 DEF TimerFires, evictDestinationProver, handleShutdown, cacheVars
<1>5. cache' \in BOOLEAN /\ timer' \in BOOLEAN /\ shut' \in BOOLEAN
  BY <1>3 DEF TimerFires, evictDestinationProver, handleShutdown, cacheVars, serverVars
<1>6. cache' => Loadable
  BY <1>1 DEF HelperInv
<1>7. /\ lock' \in Actors \cup {None} /\ warm' \in {"wait", "loading", "over"}
      /\ exited' \in BOOLEAN /\ (lock' \in Requests => req'[lock'].pc = "loading")
  BY <1>1 DEF HelperInv, TypeOK
<1> QED
  BY <1>1, <1>2, <1>4, <1>5, <1>6, <1>7, StateStep

\* The process ends under a handler.
LEMMA CutOffStep ==
  ASSUME NEW q, RequestInv(q), q.pc # "ended"
  PROVE  Legal(q, CutOff(q))
<1>1. q.answer = "none" /\ q.last \in Events
  BY DEF RequestInv, RequestOK, ProgressInv, RequestType, Events
<1>2. PICK answer : answer = IF q.lost THEN "none" ELSE "cut off"
  OBVIOUS
<1>3. PICK n : n = [Idle EXCEPT !.pc = "ended", !.last = q.last, !.answer = answer]
  OBVIOUS
<1>4. CutOff(q) = n
  BY <1>2, <1>3 DEF CutOff
<1>5. /\ n.pc = "ended" /\ n.kind = Idle.kind /\ n.max = Idle.max /\ n.targets = Idle.targets
      /\ n.scan = Idle.scan /\ n.found = Idle.found /\ n.proofs = 0 /\ n.late = 0
      /\ n.last = q.last /\ n.answer = answer
  BY <1>3 DEF Idle
<1>6. answer \in Codes /\ answer \in {"none", "cut off"}
  BY <1>2 DEF Codes
<1>7. n \in RequestType
  BY <1>1, <1>3, <1>6, IdleFacts DEF RequestType, Pcs, Events
<1>8. RequestOK(n)
  BY <1>5, <1>7, IdleFacts DEF RequestOK, Idle
<1>9. SearchInv(n)
  <2>1. /\ ScanInv(Idle.max, Idle.scan)
        /\ Idle.found = Range(Idle.targets) \cap Tried(Idle.max, Idle.scan)
    BY IdleFacts DEF SearchInv
  <2>2. n.pc = "ended" /\ n.answer \notin {"path_not_found", "proof_failed"}
    BY <1>5, <1>6
  <2>3. ~(n.proofs > 0)
    BY <1>5
  <2> QED
    BY <1>5, <2>1, <2>2, <2>3 DEF SearchInv
<1>10. KeyInv(n) /\ CancelInv(n) /\ ProgressInv(n)
  BY <1>5 DEF KeyInv, CancelInv, ProgressInv
<1>11. Rank(q.last.stage) \in Nat /\ q.last.current \in Nat
  BY <1>1, StageFacts DEF Events
<1>12. ClientSees(q, n)
  <2>1. n.last = q.last /\ n.answer # "result"
    BY <1>5, <1>6
  <2> QED
    BY <1>1, <1>11, <2>1 DEF ClientSees
<1> QED
  BY <1>4, <1>8, <1>9, <1>10, <1>12 DEF Legal, RequestInv

\* The process ends, and its handlers with it.
LEMMA ExitStep ==
  ASSUME HelperInv, Exit
  PROVE  StepOK
<1>1. DOMAIN req' = Requests
  BY DEF Exit
<1>2. ASSUME NEW r \in Requests PROVE Legal(req[r], req'[r])
  <2>1. RequestInv(req[r])
    BY DEF HelperInv
  <2>2. CASE r \in Active
    <3>1. req[r].pc # "ended" /\ req'[r] = CutOff(req[r])
      BY <2>2 DEF Exit, Active
    <3> QED
      BY <2>1, <3>1, CutOffStep
  <2>3. CASE r \notin Active
    <3>1. req'[r] = req[r]
      BY <2>3 DEF Exit
    <3> QED
      BY <2>1, <3>1, SeesItself DEF Legal
  <2> QED
    BY <2>2, <2>3
<1>3. /\ UNCHANGED disk /\ lock' = None /\ warm' = "over" /\ cache' = FALSE /\ timer' = FALSE
      /\ fired' = 0 /\ shut' \in BOOLEAN /\ exited' \in BOOLEAN /\ None \notin Requests
  BY HelperAssumption DEF Exit, HelperInv, TypeOK, Actors
<1> QED
  BY <1>1, <1>2, <1>3, StateStep

-----------------------------------------------------------------------------
(* The theorems. *)

\* The helper starts with no request and an empty cache.
LEMMA HelperInit ==
  ASSUME Init
  PROVE  HelperInv
<1>1. \A r \in Requests : req[r] = Idle
  BY DEF Init
<1>2. RequestInv(Idle)
  BY IdleFacts DEF RequestInv
<1>3. None \notin Requests
  BY HelperAssumption DEF Actors
<1>4. TypeOK
  BY <1>1, <1>2 DEF Init, TypeOK, RequestInv
<1> QED
  BY <1>1, <1>2, <1>3, <1>4 DEF Init, HelperInv

\* Every step of the helper keeps the invariant and shows its clients only what they
\* may see.
LEMMA HelperStep ==
  ASSUME HelperInv, [Next]_vars
  PROVE  StepOK
<1>1. ASSUME NEW r \in Requests, Accept(r) \/ Handle(r) \/ Disconnect(r) \/ NoticeLoss(r)
      PROVE  StepOK
  BY <1>1, AcceptStep, BeginStep, LocateStep, OpenKeysStep, NextProofStep, ComputeStep,
     AnswerStep, LossStep DEF Handle
<1>2. ASSUME NEW a \in Actors, Acquire(a)
      PROVE  StepOK
  BY <1>2, AcquireCachedStep, BeginLoadStep, EndLoadStep DEF Acquire
<1>3. CASE TimerFires \/ evictDestinationProver \/ handleShutdown \/ Exit
  BY <1>3, QuietServerStep, ExitStep
<1>4. CASE UNCHANGED vars
  <2>1. UNCHANGED <<disk, req, lock, warm, cache, timer, fired, shut, exited>>
    BY <1>4 DEF vars, cacheVars, serverVars
  <2>2. DOMAIN req' = Requests /\ \A s \in Requests : Legal(req[s], req'[s])
    BY <2>1, NoRequest
  <2> QED
    BY <2>1, <2>2, StateStep DEF HelperInv, TypeOK
<1> QED
  BY <1>1, <1>2, <1>3, <1>4 DEF Next

\* The state of the helper: every search has found exactly the targets among the
\* candidates it tried, every key a request has was loaded, no cancelled request is at
\* a second proof, and what a client was told fits where its request is.
THEOREM HelperIsConsistent == Spec => []HelperInv
<1>1. Init => HelperInv
  BY HelperInit
<1>2. HelperInv /\ [Next]_vars => HelperInv'
  BY HelperStep DEF StepOK
<1> QED
  BY <1>1, <1>2, PTL DEF Spec

\* A search that reports no path has tried every candidate it announced and some
\* target lies outside the range; a request that made a proof found all its targets in
\* it.  A search that was asked for indexes without a child fails after it has tried all
\* that have one.  This holds for every maximum up to the largest unsigned integer and
\* for bands of any number and size.
THEOREM SearchesAreExact == Spec => []SearchIsExact
<1>1. HelperInv => SearchIsExact
  <2> SUFFICES ASSUME HelperInv, NEW r \in Requests
               PROVE  LET q == req[r] IN
                      /\ q.answer = "path_not_found" =>
                           /\ q.max < SoftIndexes
                           /\ q.scan.scanned = discoveryTotal(q.max)
                           /\ ~(Range(q.targets) \subseteq InRange(q.max))
                      /\ q.answer = "proof_failed" /\ q.found # Range(q.targets) =>
                           /\ q.max >= SoftIndexes
                           /\ q.scan.scanned = Branches * SoftIndexes
                           /\ ~(Range(q.targets) \subseteq InRange(q.max))
                      /\ q.proofs > 0 => Range(q.targets) \subseteq InRange(q.max)
    BY DEF SearchIsExact
  <2> DEFINE q == req[r]
  <2>1. /\ ScanInv(q.max, q.scan) /\ q.found = Range(q.targets) \cap Tried(q.max, q.scan)
        /\ (q.proofs > 0 => q.found = Range(q.targets))
        /\ (q.answer = "path_not_found" =>
              ScanOver(q.max, q.scan) /\ q.found # Range(q.targets))
        /\ (q.answer = "proof_failed" /\ q.found # Range(q.targets) =>
              ~ScanOver(q.max, q.scan) /\ ~Derivable(q.scan))
        /\ q.max \in 0 .. MaxUint /\ q.scan \in Scans(q.max)
    BY DEF HelperInv, RequestInv, RequestOK, RequestType, SearchInv
  <2> HIDE DEF q
  <2>2. Tried(q.max, q.scan) \subseteq InRange(q.max)
    BY DEF Tried
  <2>3. ASSUME q.answer = "path_not_found"
        PROVE  /\ q.max < SoftIndexes
               /\ q.scan.scanned = discoveryTotal(q.max)
               /\ ~(Range(q.targets) \subseteq InRange(q.max))
    <3>1. Tried(q.max, q.scan) = InRange(q.max)
      BY <2>1, <2>3 DEF Tried
    <3> QED
      BY <2>1, <2>3, <3>1 DEF ScanInv
  <2>4. ASSUME q.proofs > 0 PROVE Range(q.targets) \subseteq InRange(q.max)
    BY <2>1, <2>2, <2>4
  <2>5. ASSUME q.answer = "proof_failed", q.found # Range(q.targets)
        PROVE  /\ q.max >= SoftIndexes
               /\ q.scan.scanned = Branches * SoftIndexes
               /\ ~(Range(q.targets) \subseteq InRange(q.max))
    <3>1. ~ScanOver(q.max, q.scan) /\ ~Derivable(q.scan)
      BY <2>1, <2>5
    <3>2. /\ MaxUint \in Nat /\ SoftIndexes \in Nat /\ Branches \in Nat
          /\ Len(BandEnds) \in Nat
      BY DiscoveryAssumption
    <3>3. /\ q.scan.index = SoftIndexes /\ q.scan.branch = 1
          /\ q.scan.scanned = Branches * SoftIndexes + 1 - 1
          /\ q.scan.index \in Bands[q.max][q.scan.band].start .. Bands[q.max][q.scan.band].end
      BY <2>1, <3>1 DEF ScanInv
    <3>4. q.scan.scanned = Branches * SoftIndexes
      BY <3>2, <3>3, Times
    <3>5. q.max >= SoftIndexes
      <4>1. q.scan.band \in 1 .. Len(Bands[q.max])
        <5>1. Len(Bands[q.max]) \in Nat
          BY <2>1, <3>2, BandFacts
        <5>2. q.scan.band \in 1 .. Len(BandEnds) + 2 /\ ~(q.scan.band > Len(Bands[q.max]))
          BY <2>1, <3>1 DEF ScanOver, Scans
        <5> QED
          BY <3>2, <5>1, <5>2
      <4>2. PICK e : e = Bands[q.max][q.scan.band].end
        OBVIOUS
      <4>3. e \in Nat /\ e <= q.max /\ q.scan.index <= e
        <5>1. e \in Nat /\ e <= q.max
          BY <2>1, <4>1, <4>2, BandFacts
        <5>2. q.scan.index <= e
          BY <3>3, <4>2, <5>1
        <5> QED
          BY <5>1, <5>2
      <4> QED
        BY <2>1, <3>2, <3>3, <4>3
    <3>6. Tried(q.max, q.scan) = InRange(q.max)
      <4>1. \A c \in InRange(q.max) : c[1] < q.scan.index
        BY <3>3 DEF InRange
      <4> QED
        BY <4>1 DEF Tried
    <3> QED
      BY <2>1, <2>5, <3>4, <3>5, <3>6
  <2> QED
    BY <2>3, <2>4, <2>5 DEF q
<1> QED
  BY <1>1, HelperIsConsistent, PTL

\* No proof of a batch or a stream is made with a constraint system compiled in the
\* place of a frozen one that does not verify.
THEOREM CorruptionIsReported == Spec => []CorruptSystemIsNotMasked
<1>1. HelperInv => CorruptSystemIsNotMasked
  <2>1. ASSUME HelperInv, NEW r \in Requests, req[r].proofs > 0, req[r].kind # "single"
        PROVE  disk \in {"frozen", "absent"}
    <3>1. Loadable
      BY <2>1 DEF HelperInv, RequestInv, KeyInv
    <3>2. disk \in {"unusable", "frozen", "absent", "corrupt"}
      BY <2>1, HelperAssumption DEF HelperInv, TypeOK
    <3> QED
      BY <3>1, <3>2 DEF Loadable
  <2> QED
    BY <2>1 DEF CorruptSystemIsNotMasked
<1> QED
  BY <1>1, HelperIsConsistent, PTL

\* A request whose context is cancelled completes at most the proof it is computing,
\* whenever the cancellation comes: from net/http or from a failed progress write.
THEOREM CancellationStopsWork == Spec => []CancelledWorkIsBounded
<1>1. HelperInv => CancelledWorkIsBounded
  BY DEF HelperInv, RequestInv, CancelInv, CancelledWorkIsBounded
<1> QED
  BY <1>1, HelperIsConsistent, PTL

\* The client of a stream sees the stages in order and counters that never go back,
\* nothing after its answer, and a result only after the last proof.
THEOREM StreamsAreInOrder == Spec => StreamInOrder
<1>1. HelperInv /\ [Next]_vars => [\A r \in Requests : ClientSees(req[r], req'[r])]_vars
  BY HelperStep DEF StepOK
<1> QED
  BY <1>1, HelperIsConsistent, PTL DEF Spec, StreamInOrder
=============================================================================
