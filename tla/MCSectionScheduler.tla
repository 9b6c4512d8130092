------------------------- MODULE MCSectionScheduler -------------------------
(* An instance of SectionScheduler for TLC. *)
EXTENDS SectionScheduler, TLC

CONSTANTS a, z

\* A first-in first-out queue that holds two shards, so that a dispatch can be
\* refused: a has two shards of unequal size, z is smaller than the number of
\* shards and so has one.
Fifo == [size |-> (a :> 3) @@ (z :> 1), shards |-> 2, multiplier |-> 1,
         attempts |-> 2, w7 |-> FALSE]

\* Block affinity: the three shards of a are blocks of two and one, z is empty.
Affinity == [size |-> (a :> 4) @@ (z :> 0), shards |-> 3, multiplier |-> 1,
             attempts |-> 1, w7 |-> TRUE]

TwoSections == {a, z}
TwoEngines == {Fifo, Affinity}
=============================================================================
