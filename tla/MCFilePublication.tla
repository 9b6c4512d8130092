------------------------- MODULE MCFilePublication -------------------------
(***************************************************************************)
(* FilePublication on a small instance: publishers and contents are model  *)
(* values that the configurations name.                                    *)
(***************************************************************************)
EXTENDS FilePublication
=============================================================================
