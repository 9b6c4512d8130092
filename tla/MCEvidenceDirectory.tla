------------------------ MODULE MCEvidenceDirectory ------------------------
(***************************************************************************)
(* EvidenceDirectory with model values for coordinators, payloads and      *)
(* timestamps.                                                             *)
(***************************************************************************)
EXTENDS EvidenceDirectory

CONSTANTS k1, k2, r1, r2, t1, t2

\* One coordinator that may pass another payload or timestamp on a retry.
Alone == [running |-> {k1}, inputs |-> Inputs, faults |-> 4]

\* Two that overlap, with different timestamps.
Overlap == [running |-> {k1, k2}, faults |-> 1,
            inputs |-> {[payload |-> r1, stamp |-> t] : t \in {t1, t2}}]

AloneOrOverlap == {Alone, Overlap}

\* Two that overlap with the same inputs, and no fault.
SameInputs == {[running |-> {k1, k2}, faults |-> 0,
                inputs |-> {[payload |-> r1, stamp |-> t1]}]}
=============================================================================
