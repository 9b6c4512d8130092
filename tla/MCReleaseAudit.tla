-------------------------- MODULE MCReleaseAudit ---------------------------
(***************************************************************************)
(* ReleaseAudit with interchangeable auditors, directories and paths.      *)
(***************************************************************************)
EXTENDS ReleaseAudit, TLC

Symmetry == Permutations(Auditors) \cup Permutations(CandidateDirs) \cup Permutations(Paths)
=============================================================================
