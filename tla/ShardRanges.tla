---------------------------- MODULE ShardRanges ----------------------------
(***************************************************************************)
(* How internal/msmengine cuts a section's scalars into shards, and which  *)
(* worker slot a shard belongs to.  Shared by the synchronous sections and *)
(* by the asynchronous scheduler.  A range is the set of its positions.    *)
(***************************************************************************)
EXTENDS Integers, Sequences, FiniteSets

\* [0, n) in runs of n / shards positions; the last run takes the rest.
partitionRanges(n, shards) ==
    [s \in 1 .. shards |->
        ((s - 1) * (n \div shards)) ..
            ((IF s = shards THEN n ELSE s * (n \div shards)) - 1)]

\* The members of s at the positions in K, in their order.
AtPositions(s, K) ==
    [k \in 1 .. Cardinality(K) |->
        s[CHOOSE i \in K : Cardinality({j \in K : j < i}) = k - 1]]

nonEmptyRanges(ranges) == AtPositions(ranges, {i \in DOMAIN ranges : ranges[i] # {}})

\* Blocks of adjacent shards, one per worker: the first workers take one shard
\* more when the shards do not divide evenly.
workerForShard(shard, count, workers) ==
    LET active == IF count < workers THEN count ELSE workers
        base == count \div active
        extra == count % active
        Start(w) == w * base + (IF w < extra THEN w ELSE extra)
    IN CHOOSE w \in 0 .. active - 1 : shard \in Start(w) .. Start(w + 1) - 1
=============================================================================
