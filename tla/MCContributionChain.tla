------------------------ MODULE MCContributionChain ------------------------
(***************************************************************************)
(* ContributionChain for a schedule of two of three participants, with     *)
(* interchangeable acceptors and candidate directories.                    *)
(***************************************************************************)
EXTENDS ContributionChain

CONSTANTS alice, bob, carol

MCSchedule == <<alice, bob>>

Symmetry == Permutations(Acceptors) \cup Permutations(Dirs)
=============================================================================
