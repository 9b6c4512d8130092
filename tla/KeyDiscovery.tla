---------------------------- MODULE KeyDiscovery ----------------------------
(***************************************************************************)
(* The search for the derivation path of a credential                      *)
(* (internal/circuit/ownership/discovery.go).  Indexes are visited in      *)
(* bands; for every index all branches (role and account) are tried.       *)
(* A caller may name any unsigned integer of the machine as the last       *)
(* index; a soft child exists only for the lower half of them, and asking  *)
(* for another ends the search with an error, before the index can wrap.   *)
(* A request that names its very index is left out.                        *)
(* A credential is the pair <<index, branch>> it is derived from, so that  *)
(* derivation is injective as a 224-bit digest is.                         *)
(***************************************************************************)
EXTENDS Naturals, Sequences

CONSTANTS
  BandEnds,    \* last index of every band but the final one: <<19, 99>>
  MaxUint,     \* ^uint32(0)
  SoftIndexes, \* 2^31, the number of soft indexes
  Branches     \* number of branches: accounts times roles

ASSUME DiscoveryAssumption ==
  /\ BandEnds \in Seq(Nat)
  /\ \A k \in 1 .. Len(BandEnds) - 1 : BandEnds[k] < BandEnds[k + 1]
  /\ MaxUint \in Nat
  /\ SoftIndexes \in 1 .. MaxUint
  /\ Branches \in Nat \ {0}

\* discoveryIndexBands caps every end at the caller's maximum.
BandEnd(max, k) ==
  IF k <= Len(BandEnds) /\ BandEnds[k] < max THEN BandEnds[k] ELSE max

\* Mutant of discoveryIndexBands: a band starts one index late.
discoveryIndexBandsLate(max) ==
  LET count == CHOOSE k \in 1 .. Len(BandEnds) + 1 :
                 /\ BandEnd(max, k) = max
                 /\ \A j \in 1 .. k - 1 : BandEnd(max, j) # max
  IN [k \in 1 .. count |->
        [start |-> IF k = 1 THEN 0 ELSE BandEnd(max, k - 1) + 2, end |-> BandEnd(max, k)]]

\* The bands of a search up to max: those before the first that ends at max, and it.
discoveryIndexBands(max) ==
  LET count == CHOOSE k \in 1 .. Len(BandEnds) + 1 :
                 /\ BandEnd(max, k) = max
                 /\ \A j \in 1 .. k - 1 : BandEnd(max, j) # max
  IN [k \in 1 .. count |->
        [start |-> IF k = 1 THEN 0 ELSE BandEnd(max, k - 1) + 1, end |-> BandEnd(max, k)]]

\* The bands of every search; a constant, so that TLC computes it once.
Bands == [max \in 0 .. MaxUint |-> discoveryIndexBands(max)]

\* discoverySchedule: the number of candidates it announces.
discoveryTotal(max) == Branches * (max + 1)

\* Where the traversal stands: the next candidate and how many were scanned.
ScanStart == [band |-> 1, index |-> 0, branch |-> 1, scanned |-> 0]

Scans(max) ==
  [band : 1 .. Len(BandEnds) + 2, index : 0 .. MaxUint,
   branch : 1 .. Branches, scanned : 0 .. discoveryTotal(max)]

ScanOver(max, s) == s.band > Len(Bands[max])

Candidate(s) == <<s.index, s.branch>>

\* DerivePublicChild returns a child.
Derivable(s) == s.index < SoftIndexes

\* A scan that has tried the last candidate of its band.
EndsBand(max, s) == s.branch = Branches /\ s.index + 1 > Bands[max][s.band].end

\* The traversal after one candidate, which could be derived.
Scanned(max, s) ==
  [band    |-> IF EndsBand(max, s) THEN s.band + 1 ELSE s.band,
   index   |-> IF s.branch < Branches THEN s.index
               ELSE IF EndsBand(max, s) /\ s.band < Len(Bands[max])
                    THEN Bands[max][s.band + 1].start
                    ELSE s.index + 1,
   branch  |-> IF s.branch < Branches THEN s.branch + 1 ELSE 1,
   scanned |-> s.scanned + 1]

\* The candidates a search up to max is meant to try: those that exist.
InRange(max) == {c \in (0 .. max) \X (1 .. Branches) : c[1] < SoftIndexes}
=============================================================================
