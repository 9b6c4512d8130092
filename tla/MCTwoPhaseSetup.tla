-------------------------- MODULE MCTwoPhaseSetup --------------------------
(***************************************************************************)
(* TwoPhaseSetup with interchangeable witnesses and seal directories.      *)
(***************************************************************************)
EXTENDS TwoPhaseSetup

MCScheduled == <<1, 2>>
MCMinimum == <<1, 1>>
MCOffsets == {-3, 0}

Symmetry == Permutations(Witnesses) \cup Permutations(Dirs)
=============================================================================
