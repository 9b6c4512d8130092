---------------------- MODULE SectionScheduler_proofs ----------------------
(***************************************************************************)
(* For any number of sections, workers, shards and attempts: no shard is   *)
(* lost or summed twice, a collected sum is the sum of its section, a      *)
(* failure leaves no section open, and a settled section keeps its         *)
(* outcome.  The argument is an account of the shards: pending counts the  *)
(* sums that are missing or not counted yet, a shard and a request number  *)
(* have one holder, and a reply taken by number is the reply to that       *)
(* request.  The last part is about the registry that fail() walks         *)
(* through, which holds every open section.                                *)
(***************************************************************************)
EXTENDS SectionScheduler, FiniteSetTheorems, SequenceTheorems, TLAPS

-----------------------------------------------------------------------------
(* How a section is cut. *)

\* A run of whole shards that is shorter ends no later.
LEMMA TimesMonotonic ==
  ASSUME NEW a \in Nat, NEW b \in Nat, NEW c \in Nat, a <= b
  PROVE  a * c \in Nat /\ b * c \in Nat /\ a * c <= b * c
<1>1. (b - a) * c \in Nat
  OBVIOUS
<1>2. b * c = a * c + (b - a) * c
  OBVIOUS
<1> QED
  BY <1>1, <1>2

\* partitionRanges: the runs are disjoint and together they are 0 .. n - 1.
LEMMA PartitionRanges ==
  ASSUME NEW n \in Nat, NEW shards \in Nat \ {0}
  PROVE  LET R == partitionRanges(n, shards) IN
         /\ DOMAIN R = 1 .. shards
         /\ \A s \in 1 .. shards : R[s] \in SUBSET (0 .. n - 1)
         /\ \A s, t \in 1 .. shards : s # t => R[s] \cap R[t] = {}
         /\ \A x \in 0 .. n - 1 : \E s \in 1 .. shards : x \in R[s]
<1> DEFINE R == partitionRanges(n, shards)
           base == n \div shards
           hi(s) == IF s = shards THEN n ELSE s * base
<1>1. base \in Nat /\ shards * base <= n
  OBVIOUS
<1> HIDE DEF base
<1>2. DOMAIN R = 1 .. shards /\ \A s \in 1 .. shards : R[s] = ((s - 1) * base) .. (hi(s) - 1)
  BY DEF partitionRanges, base
<1>3. \A s \in 1 .. shards : s * base \in Nat /\ (s - 1) * base \in Nat /\ s * base <= n
  <2> TAKE s \in 1 .. shards
  <2>1. s * base <= shards * base /\ s * base \in Nat
    BY <1>1, TimesMonotonic
  <2>2. (s - 1) * base \in Nat
    BY <1>1
  <2> QED
    BY <1>1, <2>1, <2>2
<1>4. \A s \in 1 .. shards : hi(s) \in Nat /\ hi(s) <= n
  BY <1>3
<1>5. \A s, t \in 1 .. shards : s < t => hi(s) <= (t - 1) * base
  <2> SUFFICES ASSUME NEW s \in 1 .. shards, NEW t \in 1 .. shards, s < t
               PROVE  s * base <= (t - 1) * base
    OBVIOUS
  <2> QED
    BY <1>1, TimesMonotonic
<1> HIDE DEF R, hi
<1>6. \A s \in 1 .. shards : R[s] \in SUBSET (0 .. n - 1)
  BY <1>2, <1>3, <1>4, SMTT(60)
<1>7. \A s, t \in 1 .. shards : s # t => R[s] \cap R[t] = {}
  <2>1. ASSUME NEW s \in 1 .. shards, NEW t \in 1 .. shards, s < t, NEW x \in R[s]
        PROVE  x \notin R[t]
    <3>1. hi(s) <= (t - 1) * base /\ hi(s) \in Nat /\ (t - 1) * base \in Nat
      BY <1>3, <1>4, <1>5, <2>1
    <3>2. x \in ((s - 1) * base) .. (hi(s) - 1) /\ R[t] = ((t - 1) * base) .. (hi(t) - 1)
      BY <1>2, <2>1
    <3> QED
      BY <3>1, <3>2
  <2>2. \A s, t \in 1 .. shards : s # t => s < t \/ t < s
    OBVIOUS
  <2> QED
    BY <2>1, <2>2
<1>8. ASSUME NEW x \in 0 .. n - 1
      PROVE  \E s \in 1 .. shards : x \in R[s]
  <2>1. CASE base = 0
    <3>1. (shards - 1) * base = 0 /\ hi(shards) = n
      BY <2>1 DEF hi
    <3>2. x \in R[shards]
      BY <1>2, <3>1
    <3> QED
      BY <3>2
  <2>2. CASE base # 0
    <3> DEFINE q == x \div base
    <3>1. q \in Nat /\ q * base <= x /\ x < (q + 1) * base
      BY <1>1, <2>2
    <3> HIDE DEF q
    <3>2. CASE q + 1 < shards
      <4>1. hi(q + 1) = (q + 1) * base
        BY <3>2 DEF hi
      <4>2. (q + 1) - 1 = q /\ q + 1 \in 1 .. shards
        BY <3>1, <3>2
      <4>3. x \in R[q + 1]
        BY <1>2, <1>3, <3>1, <4>1, <4>2
      <4> QED
        BY <4>2, <4>3
    <3>3. CASE ~(q + 1 < shards)
      <4>1. (shards - 1) * base <= q * base /\ (shards - 1) * base \in Nat /\ q * base \in Nat
        BY <1>1, <3>1, <3>3, TimesMonotonic
      <4>2. x \in R[shards]
        BY <1>2, <3>1, <4>1 DEF hi
      <4> QED
        BY <4>2
    <3> QED
      BY <3>2, <3>3
  <2> QED
    BY <2>1, <2>2
<1>9. DOMAIN R = 1 .. shards
  BY <1>2
<1> QED
  BY <1>6, <1>7, <1>8, <1>9 DEF R

\* Positions are numbered by how many come before them.
LEMMA Ranks ==
  ASSUME NEW K \in SUBSET Nat, IsFiniteSet(K)
  PROVE  /\ Cardinality(K) \in Nat
         /\ \A i \in K : Cardinality({j \in K : j < i}) + 1 \in 1 .. Cardinality(K)
         /\ \A i, k \in K : Cardinality({j \in K : j < i}) = Cardinality({j \in K : j < k}) => i = k
         /\ \A n \in 1 .. Cardinality(K) : \E i \in K : Cardinality({j \in K : j < i}) = n - 1
<1> DEFINE Before(i) == {j \in K : j < i}
           c == Cardinality(K)
           g == [i \in K |-> Cardinality(Before(i)) + 1]
<1>1. c \in Nat
  BY FS_CardinalityType
<1>2. \A i : IsFiniteSet(Before(i)) /\ Cardinality(Before(i)) \in Nat
  <2> TAKE i
  <2>1. IsFiniteSet(Before(i))
    BY FS_Subset
  <2> QED
    BY <2>1, FS_CardinalityType
<1>3. \A i \in K : Cardinality(Before(i)) < c
  <2> TAKE i \in K
  <2>1. Before(i) \subseteq K /\ Before(i) # K
    OBVIOUS
  <2>2. Cardinality(Before(i)) <= c /\ (c = Cardinality(Before(i)) => K = Before(i))
    BY <2>1, FS_Subset
  <2> QED
    BY <1>1, <1>2, <2>1, <2>2
<1>4. ASSUME NEW i \in K, NEW k \in K, i < k
      PROVE  Cardinality(Before(i)) < Cardinality(Before(k))
  <2>1. Before(i) \subseteq Before(k) /\ Before(i) # Before(k)
    <3>1. i \in Nat /\ k \in Nat /\ \A j \in K : j \in Nat
      OBVIOUS
    <3>2. \A j \in Before(i) : j \in Before(k)
      BY <1>4, <3>1
    <3>3. i \in Before(k) /\ i \notin Before(i)
      BY <1>4, <3>1
    <3> QED
      BY <3>2, <3>3
  <2>2. /\ Cardinality(Before(i)) <= Cardinality(Before(k))
        /\ Cardinality(Before(k)) = Cardinality(Before(i)) => Before(k) = Before(i)
    BY <1>2, <2>1, FS_Subset
  <2> QED
    BY <1>2, <2>1, <2>2
<1>5. \A i, k \in K : Cardinality(Before(i)) = Cardinality(Before(k)) => i = k
  <2> SUFFICES ASSUME NEW i \in K, NEW k \in K, i # k
               PROVE  Cardinality(Before(i)) # Cardinality(Before(k))
    OBVIOUS
  <2>1. i < k \/ k < i
    OBVIOUS
  <2> QED
    BY <1>2, <1>4, <2>1
<1>6. g \in Injection(K, 1 .. c)
  <2>1. \A i \in K : g[i] = Cardinality(Before(i)) + 1 /\ g[i] \in 1 .. c
    BY <1>1, <1>2, <1>3
  <2>2. g \in [K -> 1 .. c]
    BY <2>1
  <2>3. \A i, k \in K : g[i] = g[k] => i = k
    BY <1>2, <1>5, <2>1
  <2> HIDE DEF g, c
  <2> QED
    BY <2>2, <2>3 DEF Injection, IsInjective
<1>7. IsFiniteSet(1 .. c) /\ Cardinality(1 .. c) = c
  BY <1>1, FS_Interval
<1>8. g \in Surjection(K, 1 .. c)
  BY <1>6, <1>7, FS_Injection
<1>9. \A n \in 1 .. c : \E i \in K : g[i] = n
  BY <1>8 DEF Surjection
<1>10. \A n \in 1 .. c : \E i \in K : Cardinality(Before(i)) = n - 1
  <2> TAKE n \in 1 .. c
  <2>1. PICK i \in K : g[i] = n
    BY <1>9
  <2>2. Cardinality(Before(i)) + 1 = n /\ Cardinality(Before(i)) \in Nat
    BY <1>2, <2>1
  <2>3. Cardinality(Before(i)) = n - 1
    BY <1>1, <2>2
  <2> HIDE DEF Before
  <2> QED
    BY <2>3
<1>11. \A i \in K : Cardinality(Before(i)) + 1 \in 1 .. c
  BY <1>1, <1>2, <1>3
<1> QED
  BY <1>1, <1>5, <1>10, <1>11

\* nonEmptyRanges(partitionRanges(n, shards)) cuts 0 .. n - 1 into disjoint parts.
LEMMA SectionRanges ==
  ASSUME NEW n \in Nat, NEW shards \in Nat \ {0}
  PROVE  LET R == nonEmptyRanges(partitionRanges(n, shards)) IN
         /\ Len(R) \in Nat /\ DOMAIN R = 1 .. Len(R)
         /\ R = <<>> <=> Len(R) = 0
         /\ \A i \in 1 .. Len(R) : R[i] \in SUBSET (0 .. n - 1)
         /\ \A i, k \in 1 .. Len(R) : i # k => R[i] \cap R[k] = {}
         /\ \A x \in 0 .. n - 1 : \E i \in 1 .. Len(R) : x \in R[i]
<1> DEFINE P == partitionRanges(n, shards)
           K == {i \in DOMAIN P : P[i] # {}}
           c == Cardinality(K)
           Before(i) == {j \in K : j < i}
           p == [k \in 1 .. c |-> CHOOSE i \in K : Cardinality(Before(i)) = k - 1]
           R == nonEmptyRanges(P)
<1>1. /\ DOMAIN P = 1 .. shards
      /\ \A s \in 1 .. shards : P[s] \in SUBSET (0 .. n - 1)
      /\ \A s, t \in 1 .. shards : s # t => P[s] \cap P[t] = {}
      /\ \A x \in 0 .. n - 1 : \E s \in 1 .. shards : x \in P[s]
  BY PartitionRanges
<1> HIDE DEF P
<1>2. K \in SUBSET Nat /\ K \in SUBSET (1 .. shards) /\ IsFiniteSet(K)
  BY <1>1, FS_Interval, FS_Subset
<1>3. /\ c \in Nat
      /\ \A i \in K : Cardinality(Before(i)) + 1 \in 1 .. c
      /\ \A i, k \in K : Cardinality(Before(i)) = Cardinality(Before(k)) => i = k
      /\ \A k \in 1 .. c : \E i \in K : Cardinality(Before(i)) = k - 1
  BY <1>2, Ranks
<1>4. R = [k \in 1 .. c |-> P[p[k]]]
  BY DEF nonEmptyRanges, AtPositions
<1> HIDE DEF K, c, R
<1>5. \A k \in 1 .. c : p[k] \in K /\ Cardinality(Before(p[k])) = k - 1
  <2> TAKE k \in 1 .. c
  <2>1. PICK i \in K : Cardinality(Before(i)) = k - 1
    BY <1>3
  <2> HIDE DEF Before
  <2> QED
    BY <2>1
<1>6. \A k, l \in 1 .. c : p[k] = p[l] => k = l
  <2> SUFFICES ASSUME NEW k \in 1 .. c, NEW l \in 1 .. c, p[k] = p[l]
               PROVE  k = l
    OBVIOUS
  <2>1. k - 1 = l - 1
    BY <1>5
  <2> QED
    BY <1>3, <2>1
<1>7. \A i \in K : \E k \in 1 .. c : p[k] = i
  <2> TAKE i \in K
  <2> DEFINE k == Cardinality(Before(i)) + 1
  <2>1. k \in 1 .. c
    BY <1>3
  <2>2. p[k] \in K /\ Cardinality(Before(p[k])) = k - 1
    BY <1>5, <2>1
  <2>3. Cardinality(Before(i)) \in Int
    <3>1. IsFiniteSet(Before(i))
      BY <1>2, FS_Subset
    <3> QED
      BY <3>1, FS_CardinalityType
  <2>4. k - 1 = Cardinality(Before(i))
    BY <2>3
  <2> HIDE DEF p, Before, k
  <2> QED
    BY <1>3, <2>1, <2>2, <2>4
<1> HIDE DEF p
<1>8. R \in [1 .. c -> SUBSET (0 .. n - 1)]
  BY <1>1, <1>2, <1>4, <1>5
<1>9. Len(R) = c /\ DOMAIN R = 1 .. c /\ R \in Seq(SUBSET (0 .. n - 1))
  BY <1>3, <1>8, SeqDef, LenProperties
<1>10. \A i, k \in 1 .. c : i # k => R[i] \cap R[k] = {}
  BY <1>1, <1>2, <1>4, <1>5, <1>6
<1>11. ASSUME NEW x \in 0 .. n - 1
       PROVE  \E k \in 1 .. c : x \in R[k]
  <2>1. PICK s \in 1 .. shards : x \in P[s]
    BY <1>1
  <2>2. s \in K
    BY <1>1, <2>1 DEF K
  <2>3. PICK k \in 1 .. c : p[k] = s
    BY <1>7, <2>2
  <2> QED
    BY <1>4, <2>1, <2>3
<1>12. R = <<>> <=> c = 0
  BY <1>3, <1>9, EmptySeq
<1> QED
  BY <1>3, <1>8, <1>9, <1>10, <1>11, <1>12 DEF R, P

\* Every shard of a section has a worker slot.
LEMMA ShardHasWorker ==
  ASSUME NEW count \in Nat \ {0}, NEW workers \in Nat \ {0}, NEW shard \in 0 .. count - 1
  PROVE  workerForShard(shard, count, workers) \in 0 .. workers - 1
<1> DEFINE active == IF count < workers THEN count ELSE workers
           base == count \div active
           extra == count % active
           Start(w) == w * base + (IF w < extra THEN w ELSE extra)
<1>1. active \in Nat \ {0} /\ active <= workers /\ active <= count
  OBVIOUS
<1> HIDE DEF active
<1>2. base \in Nat /\ extra \in Nat /\ extra < active /\ count = active * base + extra /\ base >= 1
  BY <1>1
<1> HIDE DEF base, extra
<1> SUFFICES \E w \in 0 .. active - 1 : shard \in Start(w) .. Start(w + 1) - 1
  <2>1. workerForShard(shard, count, workers) =
          CHOOSE w \in 0 .. active - 1 : shard \in Start(w) .. Start(w + 1) - 1
    BY DEF workerForShard, active, base, extra
  <2> HIDE DEF Start
  <2>2. workerForShard(shard, count, workers) \in 0 .. active - 1
    BY <2>1
  <2> QED
    BY <1>1, <2>2
<1>3. CASE shard < extra * (base + 1)
  <2> DEFINE w == shard \div (base + 1)
  <2>1. w \in Nat /\ w * (base + 1) <= shard /\ shard < (w + 1) * (base + 1)
    BY <1>2
  <2> HIDE DEF w
  <2>2. w < extra
    <3>1. ASSUME extra <= w PROVE FALSE
      <4>1. extra * (base + 1) <= w * (base + 1)
        BY <1>2, <2>1, <3>1, TimesMonotonic
      <4> QED
        BY <1>2, <1>3, <2>1, <4>1
    <3> QED
      BY <1>2, <2>1, <3>1
  <2>3. Start(w) = w * (base + 1) /\ Start(w + 1) = (w + 1) * (base + 1)
    BY <1>2, <2>1, <2>2
  <2>4. w \in 0 .. active - 1 /\ w + 1 \in Nat
    BY <1>1, <1>2, <2>1, <2>2
  <2> HIDE DEF Start
  <2>5. shard \in Start(w) .. Start(w + 1) - 1
    BY <1>2, <2>1, <2>3
  <2> QED
    BY <2>4, <2>5
<1>4. CASE ~(shard < extra * (base + 1))
  <2> DEFINE rest == shard - extra * (base + 1)
             q == rest \div base
             w == extra + q
  <2>1. rest \in Nat /\ shard = rest + extra * base + extra
    BY <1>2, <1>4
  <2> HIDE DEF rest
  <2>2. q \in Nat /\ q * base <= rest /\ rest < (q + 1) * base
    BY <1>2, <2>1
  <2> HIDE DEF q
  <2>3. Start(w) = q * base + extra * base + extra
    BY <1>2, <2>2
  <2>4. Start(w + 1) = (q + 1) * base + extra * base + extra
    BY <1>2, <2>2
  <2>5. w < active
    <3>1. ASSUME active - extra <= q PROVE FALSE
      <4>1. (active - extra) * base <= q * base
        BY <1>1, <1>2, <2>2, <3>1, TimesMonotonic
      <4>2. (active - extra) * base = active * base - extra * base
        BY <1>1, <1>2
      <4> QED
        BY <1>1, <1>2, <2>1, <2>2, <4>1, <4>2
    <3> QED
      BY <1>1, <1>2, <2>2, <3>1
  <2>6. w \in 0 .. active - 1
    BY <1>1, <1>2, <2>2, <2>5
  <2> HIDE DEF Start, w
  <2>7. shard \in Start(w) .. Start(w + 1) - 1
    BY <1>2, <2>1, <2>2, <2>3, <2>4
  <2> QED
    BY <2>6, <2>7
<1> QED
  BY <1>3, <1>4

-----------------------------------------------------------------------------
(* What pumpLocked does. *)

\* Taking different members out of a finite set leaves that many fewer.
LEMMA Removal ==
  ASSUME NEW S, IsFiniteSet(S), NEW D, IsFiniteSet(D), NEW f,
         \A x \in D : f[x] \in S, \A x, y \in D : f[x] = f[y] => x = y
  PROVE  /\ IsFiniteSet(S \ {f[x] : x \in D})
         /\ Cardinality(S \ {f[x] : x \in D}) = Cardinality(S) - Cardinality(D)
<1> DEFINE T == {f[x] : x \in D}
           g == [x \in D |-> f[x]]
<1>1. g \in [D -> T] /\ (\A y \in T : \E x \in D : g[x] = y) /\ \A x, y \in D : g[x] = g[y] => x = y
  OBVIOUS
<1>2. T \subseteq S
  OBVIOUS
<1> HIDE DEF g, T
<1>3. g \in Surjection(D, T) /\ g \in Injection(D, T)
  BY <1>1 DEF Surjection, Injection, IsInjective
<1>4. Cardinality(T) = Cardinality(D)
  BY <1>3, FS_Surjection
<1>5. S \cap T = T
  BY <1>2
<1>6. IsFiniteSet(S \ T) /\ Cardinality(S \ T) = Cardinality(S) - Cardinality(S \cap T)
  BY FS_Difference
<1> QED
  BY <1>4, <1>5, <1>6 DEF T

\* The slots are finitely many.
LEMMA SlotsFinite ==
  /\ IsFiniteSet(Slots) /\ Slots \subseteq Nat
  /\ \A S \in SUBSET Slots : IsFiniteSet(S) /\ Cardinality(S) \in Nat
<1>1. IsFiniteSet(Slots) /\ Slots \subseteq Nat
  BY SchedulerAssumption, FS_Interval DEF Slots
<1> QED
  BY <1>1, FS_Subset, FS_CardinalityType

\* Idle slots take different shards out of the queue.
LEMMA TakenShards ==
  ASSUME NEW q, NEW b \in [Slots -> BOOLEAN]
  PROVE  LET take == Taken(q, b) IN
         /\ DOMAIN take \subseteq {w \in Slots : ~b[w]}
         /\ \A w \in DOMAIN take : take[w] \in q
         /\ \A v, w \in DOMAIN take : take[v] = take[w] => v = w
<1> DEFINE take == Taken(q, b)
           Idle == {w \in Slots : ~b[w]}
           Before(t) == {u \in q : u.id < t.id}
           Rank(w) == Cardinality({v \in Idle : v < w})
           Choices(w) ==
             IF OptW7
             THEN {t \in q : t.affinity = w /\ \A u \in Before(t) : u.affinity # w}
             ELSE {t \in q : Cardinality(Before(t)) = Rank(w)}
<1>1. take = [w \in {v \in Idle : Choices(v) # {}} |-> CHOOSE t \in Choices(w) : TRUE]
  BY DEF Taken
<1>2. Idle \in SUBSET Nat /\ IsFiniteSet(Idle) /\ Idle \subseteq Slots
  BY SlotsFinite
<1>3. \A v, w \in Idle : Rank(v) = Rank(w) => v = w
  <2> HIDE DEF Idle
  <2> QED
    BY <1>2, Ranks
<1>4. \A v, w \in Idle : \A t : t \in Choices(v) /\ t \in Choices(w) => v = w
  <2> HIDE DEF Idle, Rank, Before
  <2>1. CASE OptW7
    BY <2>1
  <2>2. CASE ~OptW7
    BY <1>3, <2>2
  <2> QED
    BY <2>1, <2>2
<1>5. \A w : Choices(w) \subseteq q
  OBVIOUS
<1> HIDE DEF Idle, Choices, take
<1>6. DOMAIN take \subseteq Idle /\ \A w \in DOMAIN take : take[w] \in Choices(w)
  BY <1>1
<1> QED
  BY <1>4, <1>5, <1>6 DEF Idle, take

\* Goroutines of section h that have not counted their shard yet.
Uncounted(h, j) ==
  {w \in Slots : j[w] # None /\ j[w].task.handle = h /\ j[w].stage \notin {"settle", "free"}}

\* Shards went from the queue to goroutines of idle slots, one each.
Pumped(q, b, j) ==
  /\ queue' \subseteq q /\ IsFiniteSet(queue')
  /\ busy' \in [Slots -> BOOLEAN] /\ job' \in [Slots -> Goroutines \cup {None}]
  /\ \A w \in Slots : busy'[w] <=> job'[w] # None
  /\ \A w \in Slots :
       \/ job'[w] = j[w]
       \/ j[w] = None /\ \E t \in q : t \notin queue' /\ job'[w] = Job(t, "run")
  /\ \A v, w \in Slots :
       j[v] = None /\ j[w] = None /\ job'[v] # None /\ job'[w] # None
         /\ job'[v].task = job'[w].task => v = w
  /\ Cardinality(queue') + Cardinality({w \in Slots : busy'[w]})
       = Cardinality(q) + Cardinality({w \in Slots : b[w]})
  /\ \A h : Cardinality({t \in queue' : t.handle = h}) + Cardinality(Uncounted(h, job'))
       = Cardinality({t \in q : t.handle = h}) + Cardinality(Uncounted(h, j))

\* pumpLocked moves shards that way, and loses none.
LEMMA PumpMoves ==
  ASSUME NEW q, IsFiniteSet(q), \A t \in q : t \in Task, NEW b \in [Slots -> BOOLEAN],
         NEW j \in [Slots -> Goroutines \cup {None}], \A w \in Slots : b[w] <=> j[w] # None,
         pumpLocked(q, b, j)
  PROVE  Pumped(q, b, j)
<1> DEFINE take == Taken(q, b)
           D == DOMAIN take
<1>1. /\ D \subseteq Slots /\ \A w \in D : ~b[w] /\ j[w] = None
      /\ \A w \in D : take[w] \in q
      /\ \A v, w \in D : take[v] = take[w] => v = w
  BY TakenShards
<1>2. /\ queue' = q \ {take[w] : w \in D}
      /\ busy' = [w \in Slots |-> b[w] \/ w \in D]
      /\ job' = [w \in Slots |-> IF w \in D THEN Job(take[w], "run") ELSE j[w]]
  BY DEF pumpLocked
<1> HIDE DEF take, D
<1>3. \A t \in Task : /\ Job(t, "run") \in Goroutines /\ Job(t, "run") # None
                      /\ Job(t, "run").task = t /\ Job(t, "run").stage = "run"
  BY NoneAssumption DEF Job, Goroutines, Stages
<1>4. IsFiniteSet(D) /\ \A S \in SUBSET Slots : IsFiniteSet(S) /\ Cardinality(S) \in Nat
  BY <1>1, SlotsFinite
<1>5. queue' \subseteq q /\ IsFiniteSet(queue') /\ Cardinality(queue') = Cardinality(q) - Cardinality(D)
  BY <1>1, <1>2, <1>4, Removal
<1>6. job' \in [Slots -> Goroutines \cup {None}] /\ busy' \in [Slots -> BOOLEAN]
  BY <1>1, <1>2, <1>3
<1>7. \A w \in Slots : /\ busy'[w] <=> b[w] \/ w \in D
                       /\ job'[w] = IF w \in D THEN Job(take[w], "run") ELSE j[w]
  BY <1>2
<1>8. \A w \in Slots : busy'[w] <=> job'[w] # None
  BY <1>1, <1>3, <1>7
<1>9. \A w \in Slots :
        \/ job'[w] = j[w]
        \/ j[w] = None /\ \E t \in q : t \notin queue' /\ job'[w] = Job(t, "run")
  BY <1>1, <1>2, <1>7
<1>10. \A v, w \in Slots :
         j[v] = None /\ j[w] = None /\ job'[v] # None /\ job'[w] # None
           /\ job'[v].task = job'[w].task => v = w
  <2> SUFFICES ASSUME NEW v \in Slots, NEW w \in Slots, j[v] = None, j[w] = None,
                      job'[v] # None, job'[w] # None, job'[v].task = job'[w].task
               PROVE  v = w
    OBVIOUS
  <2>1. v \in D /\ w \in D
    BY <1>7
  <2>2. take[v] = take[w]
    BY <1>1, <1>3, <1>7, <2>1
  <2> QED
    BY <1>1, <2>1, <2>2
<1>11. Cardinality({w \in Slots : busy'[w]}) = Cardinality({w \in Slots : b[w]}) + Cardinality(D)
  <2> DEFINE B == {w \in Slots : b[w]}
  <2>1. {w \in Slots : busy'[w]} = B \cup D /\ B \cap D = {} /\ B \in SUBSET Slots
    BY <1>1, <1>7
  <2> HIDE DEF B
  <2>2. IsFiniteSet(B) /\ Cardinality(B) \in Nat /\ Cardinality(D) \in Nat
    BY <1>1, <1>4, <2>1
  <2>3. Cardinality(B \cup D) = Cardinality(B) + Cardinality(D) - Cardinality(B \cap D)
    BY <1>4, <2>2, FS_Union
  <2>4. Cardinality(B \cap D) = 0
    BY <2>1, FS_EmptySet
  <2>5. Cardinality(B \cup D) = Cardinality(B) + Cardinality(D)
    BY <2>2, <2>3, <2>4
  <2>6. Cardinality({w \in Slots : busy'[w]}) = Cardinality(B) + Cardinality(D)
    BY <2>1, <2>5
  <2> QED
    BY <2>6 DEF B
<1>12. ASSUME NEW h
       PROVE  Cardinality({t \in queue' : t.handle = h}) + Cardinality(Uncounted(h, job'))
                = Cardinality({t \in q : t.handle = h}) + Cardinality(Uncounted(h, j))
  <2> DEFINE Q == {t \in q : t.handle = h}
             E == {w \in D : take[w].handle = h}
             U == Uncounted(h, j)
  <2>1. Q \in SUBSET q /\ E \in SUBSET D /\ E \in SUBSET Slots /\ U \in SUBSET Slots
    BY <1>1 DEF Uncounted
  <2>2. {t \in queue' : t.handle = h} = Q \ {take[w] : w \in E}
    BY <1>1, <1>2
  <2>3. Uncounted(h, job') = U \cup E /\ U \cap E = {}
    <3>1. ASSUME NEW w \in Slots
          PROVE  w \in Uncounted(h, job') <=> w \in U \/ w \in E
      <4>1. CASE w \in D
        <5>1. job'[w] # None /\ job'[w].task = take[w] /\ job'[w].stage = "run" /\ j[w] = None
          BY <1>1, <1>3, <1>7, <4>1
        <5> QED
          BY <4>1, <5>1 DEF Uncounted
      <4>2. CASE w \notin D
        BY <1>7, <4>2 DEF Uncounted
      <4> QED
        BY <4>1, <4>2
    <3>2. Uncounted(h, job') \subseteq Slots
      BY DEF Uncounted
    <3>3. U \cap E = {}
      BY <1>1 DEF Uncounted
    <3> HIDE DEF U, E
    <3> QED
      BY <2>1, <3>1, <3>2, <3>3
  <2>4. IsFiniteSet(Q) /\ Cardinality(Q) \in Nat
    BY <2>1, FS_Subset, FS_CardinalityType
  <2>5. /\ IsFiniteSet(E) /\ Cardinality(E) \in Nat
        /\ IsFiniteSet(U) /\ Cardinality(U) \in Nat
    <3> HIDE DEF E, U
    <3> QED
      BY <1>4, <2>1
  <2>6. (\A w \in E : take[w] \in Q) /\ \A v, w \in E : take[v] = take[w] => v = w
    BY <1>1
  <2> HIDE DEF Q, E, U
  <2>7. Cardinality(Q \ {take[w] : w \in E}) = Cardinality(Q) - Cardinality(E)
    BY <2>4, <2>5, <2>6, Removal
  <2>8. Cardinality(U \cup E) = Cardinality(U) + Cardinality(E) - Cardinality(U \cap E)
    BY <2>5, FS_Union
  <2>9. Cardinality(U \cap E) = 0
    BY <2>3, FS_EmptySet
  <2>10. Cardinality({t \in queue' : t.handle = h}) = Cardinality(Q) - Cardinality(E)
    BY <2>2, <2>7
  <2>11. Cardinality(Uncounted(h, job')) = Cardinality(U) + Cardinality(E)
    <3>1. Cardinality(Uncounted(h, job')) = Cardinality(U \cup E)
      BY <2>3
    <3> QED
      BY <2>5, <2>8, <2>9, <3>1
  <2>12. Cardinality({t \in queue' : t.handle = h}) + Cardinality(Uncounted(h, job'))
           = Cardinality(Q) + Cardinality(U)
    BY <2>4, <2>5, <2>10, <2>11
  <2> QED
    BY <2>12 DEF Q, U
<1>13. Cardinality(q) \in Nat /\ Cardinality(D) \in Nat /\ Cardinality({w \in Slots : b[w]}) \in Nat
  BY <1>1, <1>4, FS_CardinalityType
<1> QED
  BY <1>5, <1>6, <1>8, <1>9, <1>10, <1>11, <1>12, <1>13 DEF Pumped

-----------------------------------------------------------------------------
(* The inductive invariant. *)

\* Every engine the scheduler may be created with cuts each section into
\* disjoint ranges that cover it.
LEMMA EngineFacts ==
  ASSUME engine \in Engines
  PROVE  /\ Shards \in Nat \ {0} /\ Multiplier \in Nat \ {0} /\ MaxAttempts \in Nat \ {0}
         /\ OptW7 \in BOOLEAN /\ asyncQueueCapacity \in Nat
         /\ \A h \in Handles :
              /\ Size[h] \in Nat
              /\ Len(Ranges[h]) \in Nat /\ DOMAIN Ranges[h] = 1 .. Len(Ranges[h])
              /\ Ranges[h] = <<>> <=> Len(Ranges[h]) = 0
              /\ \A i \in 1 .. Len(Ranges[h]) : Ranges[h][i] \in SUBSET (0 .. Size[h] - 1)
              /\ \A i, k \in 1 .. Len(Ranges[h]) : i # k => Ranges[h][i] \cap Ranges[h][k] = {}
              /\ \A x \in 0 .. Size[h] - 1 : \E i \in 1 .. Len(Ranges[h]) : x \in Ranges[h][i]
<1>1. /\ Shards \in Nat \ {0} /\ Multiplier \in Nat \ {0} /\ MaxAttempts \in Nat \ {0}
      /\ OptW7 \in BOOLEAN /\ \A h \in Handles : Size[h] \in Nat
  BY SchedulerAssumption DEF Shards, Multiplier, MaxAttempts, OptW7, Size
<1>2. asyncQueueCapacity \in Nat
  BY <1>1 DEF asyncQueueCapacity
<1>3. \A h \in Handles : Ranges[h] = nonEmptyRanges(partitionRanges(Size[h], Shards))
  BY DEF Ranges
<1>4. ASSUME NEW h \in Handles
      PROVE  /\ Len(Ranges[h]) \in Nat /\ DOMAIN Ranges[h] = 1 .. Len(Ranges[h])
             /\ Ranges[h] = <<>> <=> Len(Ranges[h]) = 0
             /\ \A i \in 1 .. Len(Ranges[h]) : Ranges[h][i] \in SUBSET (0 .. Size[h] - 1)
             /\ \A i, k \in 1 .. Len(Ranges[h]) : i # k => Ranges[h][i] \cap Ranges[h][k] = {}
             /\ \A x \in 0 .. Size[h] - 1 : \E i \in 1 .. Len(Ranges[h]) : x \in Ranges[h][i]
  <2> DEFINE R == nonEmptyRanges(partitionRanges(Size[h], Shards))
  <2>1. /\ Len(R) \in Nat /\ DOMAIN R = 1 .. Len(R)
        /\ R = <<>> <=> Len(R) = 0
        /\ \A i \in 1 .. Len(R) : R[i] \in SUBSET (0 .. Size[h] - 1)
        /\ \A i, k \in 1 .. Len(R) : i # k => R[i] \cap R[k] = {}
        /\ \A x \in 0 .. Size[h] - 1 : \E i \in 1 .. Len(R) : x \in R[i]
    BY <1>1, SectionRanges
  <2>2. Ranges[h] = R
    BY <1>3
  <2> HIDE DEF R
  <2> QED
    BY <2>1, <2>2
<1> QED
  BY <1>1, <1>2, <1>4

\* The sum of a shard is a sum.
LEMMA ShardSum ==
  ASSUME engine \in Engines, NEW h \in Handles, NEW i \in 1 .. Len(Ranges[h])
  PROVE  /\ Ranges[h][i] \in SUBSET Nat
         /\ <<h, Ranges[h][i]>> \in Sum /\ <<h, Ranges[h][i]>> # None
<1>1. Ranges[h][i] \in SUBSET (0 .. Size[h] - 1)
  BY EngineFacts
<1>2. Ranges[h][i] \in SUBSET Nat
  BY <1>1
<1>3. <<h, Ranges[h][i]>> \in Sum
  BY <1>2 DEF Sum
<1> QED
  BY <1>2, <1>3, NoneAssumption

\* The engine's parameters never change.
LEMMA EngineFixed ==
  ASSUME UNCHANGED engine
  PROVE  /\ Ranges' = Ranges /\ Size' = Size /\ MaxAttempts' = MaxAttempts
         /\ asyncQueueCapacity' = asyncQueueCapacity
  BY DEF Ranges, Size, Shards, Multiplier, MaxAttempts, asyncQueueCapacity

\* A step that leaves every section's sums and counters alone: goroutines that
\* owe a sum go on owing it, or end because the scheduler has failed; the queue
\* and the slots stay, or a failure empties them.
Quiet ==
  /\ UNCHANGED <<engine, pending, parts, result, freed>>
  /\ nextRequestID' \in Nat /\ nextRequestID <= nextRequestID'
  /\ handles' \subseteq Handles
  /\ outcome' \in [Handles -> {"new", "open", "ok", "error", "refused"}]
  /\ \A h \in Handles : /\ outcome'[h] \in {"new", "refused"} <=> outcome[h] \in {"new", "refused"}
                        /\ outcome'[h] = "ok" <=> outcome[h] = "ok"
  /\ terminal' \in BOOLEAN /\ (terminal => terminal')
  /\ \/ UNCHANGED <<queue, busy>>
     \/ /\ terminal' /\ queue' \in {queue, {}}
        /\ busy' \in [Slots -> BOOLEAN] /\ \A w \in Slots : busy'[w] => busy[w]
  /\ job' \in [Slots -> Goroutines \cup {None}]
  /\ \A w \in Slots :
       \/ job'[w] = job[w]
       \/ (Owes(w) \/ At(w, "free")) /\ terminal' /\ job'[w] = None
       \/ /\ Owes(w) /\ Owes(w)' /\ SameShard(job'[w].task, job[w].task)
          /\ job'[w].task.affinity = job[w].task.affinity
          /\ \/ job'[w].task.id = job[w].task.id
             \/ job'[w].task.id > nextRequestID /\ job'[w].task.id <= nextRequestID'
          /\ job'[w].task.attempt \in 1 .. MaxAttempts
          /\ job'[w].stage = "store" =>
               job'[w].part = <<job[w].task.handle, Ranges[job[w].task.handle][job[w].task.index]>>

\* The types of everything but the workers' state.
SchedulerTypes ==
  /\ engine \in Engines
  /\ IsFiniteSet(queue)
  /\ \A t \in queue : ValidTask(t)
  /\ busy \in [Slots -> BOOLEAN]
  /\ job \in [Slots -> Goroutines \cup {None}]
  /\ \A w \in Slots : job[w] # None => ValidTask(job[w].task)
  /\ terminal \in BOOLEAN
  /\ nextRequestID \in Nat
  /\ handles \subseteq Handles
  /\ outcome \in [Handles -> {"new", "open", "ok", "error", "refused"}]
  /\ pending \in [Handles -> Nat]
  /\ \A h \in Handles : pending[h] \in 0 .. Len(Ranges[h])
  /\ freed \in [Handles -> BOOLEAN]
  /\ PerSection(parts) /\ PerSection(result)

\* The types of the workers' state.
WorkerTypes ==
  /\ closed \in BOOLEAN
  /\ working \in [Slots -> SUBSET [id : 1 .. nextRequestID, handle : Handles,
                                   index : Nat, intact : BOOLEAN]]
  /\ \A w \in Slots : \A r \in working[w] : r.index \in 1 .. Len(Ranges[r.handle])
  /\ replies \in [Slots -> [kind : {"partial", "fetch", "fatal", "lost"},
                            id : 0 .. nextRequestID, part : Sum \cup {None}] \cup {None}]

\* Together they are TypeOK.
LEMMA TypeParts == TypeOK <=> SchedulerTypes /\ WorkerTypes
  BY DEF TypeOK, SchedulerTypes, WorkerTypes

\* The same after a step.
LEMMA TypePartsNext == TypeOK' <=> SchedulerTypes' /\ WorkerTypes'
  BY DEF TypeOK, SchedulerTypes, WorkerTypes

\* A quiet step keeps all that is said of the queue, the goroutines and the sections.
LEMMA QuietSteps ==
  ASSUME ShardInv, Quiet
  PROVE  /\ SchedulerTypes' /\ HeldOnce' /\ NotSummedTwice' /\ PendingIsExact'
         /\ SumsAreRight' /\ QueueBounded' /\ NoShardLost'
<1>1. SchedulerTypes /\ HeldOnce /\ NotSummedTwice /\ PendingIsExact /\ SumsAreRight
      /\ QueueBounded /\ NoShardLost
  BY TypeParts DEF ShardInv
<1>2. Ranges' = Ranges /\ MaxAttempts' = MaxAttempts /\ asyncQueueCapacity' = asyncQueueCapacity
  BY EngineFixed DEF Quiet
<1>3. queue' \subseteq queue /\ IsFiniteSet(queue')
  BY <1>1, FS_EmptySet DEF Quiet, SchedulerTypes
<1>4. \A w \in Slots : /\ job[w] # None => job[w] \in Goroutines /\ job[w].task \in Task
                       /\ job'[w] # None => job'[w] \in Goroutines /\ job'[w].task \in Task
  BY <1>1 DEF SchedulerTypes, Quiet, Goroutines
<1>5. SchedulerTypes'
  <2>1. \A t \in queue' : ValidTask(t)'
    BY <1>1, <1>2, <1>3 DEF SchedulerTypes, ValidTask, Quiet
  <2>2. ASSUME NEW w \in Slots, job'[w] # None
        PROVE  ValidTask(job[w].task)'
    <3>1. CASE job'[w] = job[w]
      BY <1>1, <1>2, <2>2, <3>1 DEF SchedulerTypes, ValidTask, Quiet
    <3>2. CASE job'[w] # job[w]
      <4>1. /\ Owes(w) /\ SameShard(job'[w].task, job[w].task)
            /\ job'[w].task.affinity = job[w].task.affinity
            /\ \/ job'[w].task.id = job[w].task.id
               \/ job'[w].task.id > nextRequestID /\ job'[w].task.id <= nextRequestID'
            /\ job'[w].task.attempt \in 1 .. MaxAttempts
        BY <2>2, <3>2 DEF Quiet
      <4>2. ValidTask(job[w].task)
        BY <1>1, <4>1 DEF SchedulerTypes, Owes
      <4>3. job'[w].task.id \in 1 .. nextRequestID'
        BY <1>1, <1>4, <2>2, <4>1, <4>2, SMTT(60) DEF SchedulerTypes, Quiet, ValidTask, Task
      <4> QED
        BY <1>2, <1>4, <2>2, <4>1, <4>2, <4>3 DEF ValidTask, SameShard
    <3> QED
      BY <3>1, <3>2
  <2>3. \A h \in Handles : pending'[h] \in 0 .. Len(Ranges'[h])
    BY <1>1, <1>2 DEF SchedulerTypes, Quiet
  <2>4. busy' \in [Slots -> BOOLEAN]
    BY <1>1 DEF SchedulerTypes, Quiet
  <2>5. PerSection(parts)' /\ PerSection(result)'
    BY <1>1 DEF SchedulerTypes, Quiet, PerSection
  <2>6. engine' \in Engines /\ freed' \in [Handles -> BOOLEAN] /\ pending' \in [Handles -> Nat]
    BY <1>1 DEF SchedulerTypes, Quiet
  <2> QED
    BY <1>3, <2>1, <2>2, <2>3, <2>4, <2>5, <2>6 DEF SchedulerTypes, Quiet
<1>6. \A w \in Slots : Owes(w)' =>
        /\ Owes(w) /\ SameShard(job'[w].task, job[w].task)
        /\ job'[w].task.id = job[w].task.id \/ job'[w].task.id > nextRequestID
  BY DEF Quiet, Owes, SameShard
<1>7. HeldOnce'
  <2>1. \A t, u \in queue' : t.id = u.id \/ SameShard(t, u) => t = u
    BY <1>1, <1>3 DEF HeldOnce
  <2>2. ASSUME NEW t \in queue', NEW w \in Slots, Owes(w)'
        PROVE  t.id # job'[w].task.id /\ ~SameShard(t, job'[w].task)
    <3>1. t.id # job[w].task.id /\ ~SameShard(t, job[w].task)
      BY <1>1, <1>3, <1>6, <2>2 DEF HeldOnce
    <3>2. t.id \in Nat /\ t.id <= nextRequestID /\ nextRequestID \in Nat
      BY <1>1, <1>3, <2>2 DEF SchedulerTypes, ValidTask
    <3>3. job'[w].task.id \in Nat
      BY <1>4, <2>2 DEF Owes, Task
    <3> QED
      BY <1>6, <2>2, <3>1, <3>2, <3>3 DEF SameShard
  <2>3. ASSUME NEW v \in Slots, NEW w \in Slots, Owes(v)', Owes(w)',
               SameShard(job'[v].task, job'[w].task)
        PROVE  v = w
    <3>1. SameShard(job[v].task, job[w].task)
      BY <1>6, <2>3 DEF SameShard
    <3> QED
      BY <1>1, <1>6, <2>3, <3>1 DEF HeldOnce
  <2> QED
    BY <2>1, <2>2, <2>3 DEF HeldOnce, SameShard
<1>8. \A h \in Handles : Live(h)' <=> Live(h)
  BY DEF Live, Quiet
<1>9. \A w \in Slots : (At(w, "count")' <=> At(w, "count")) /\ (At(w, "settle")' <=> At(w, "settle"))
                        /\ (At(w, "count") \/ At(w, "settle") => job'[w] = job[w])
  BY DEF At, Quiet, Owes
<1>10. \A w \in Slots : job[w] # None => job[w].task.handle \in Handles
  BY <1>4 DEF Task
<1>11. \A t \in queue : t.handle \in Handles
  BY <1>1 DEF SchedulerTypes, ValidTask, Task
<1>12. NotSummedTwice'
  <2>1. \A t \in queue' : Live(t.handle)' /\ parts'[t.handle][t.index] = None
    BY <1>1, <1>3, <1>8, <1>11 DEF NotSummedTwice, Quiet
  <2>2. ASSUME NEW w \in Slots, Owes(w)'
        PROVE  Live(job[w].task.handle)' /\ parts'[job'[w].task.handle][job'[w].task.index] = None
    <3>1. Live(job[w].task.handle) /\ parts[job[w].task.handle][job[w].task.index] = None
      BY <1>1, <1>6, <2>2 DEF NotSummedTwice
    <3>2. job'[w].task.handle = job[w].task.handle /\ job'[w].task.index = job[w].task.index
          /\ job[w].task.handle \in Handles
      BY <1>6, <1>10, <2>2 DEF SameShard, Owes
    <3> QED
      BY <1>8, <3>1, <3>2 DEF Quiet, Live
  <2>3. \A w \in Slots : At(w, "count")' => Live(job[w].task.handle)'
    BY <1>1, <1>8, <1>9, <1>10 DEF NotSummedTwice, At, Live
  <2>4. \A w \in Slots : At(w, "settle")' =>
          pending'[job'[w].task.handle] = 0 /\ outcome'[job'[w].task.handle] \notin {"new", "refused"}
    BY <1>1, <1>9, <1>10 DEF NotSummedTwice, At, Quiet
  <2> QED
    BY <2>1, <2>2, <2>3, <2>4 DEF NotSummedTwice, Live
<1>13. PendingIsExact'
  <2> SUFFICES ASSUME NEW h \in Handles
               PROVE  /\ IF Live(h)'
                         THEN /\ parts'[h] \in [1 .. Len(Ranges'[h]) -> Sum \cup {None}]
                              /\ pending'[h] = Cardinality(Missing(h)') + Cardinality(Counting(h)')
                         ELSE pending'[h] = 0
                      /\ outcome'[h] = "ok" => pending'[h] = 0
                      /\ freed'[h] => outcome'[h] = "ok"
    BY DEF PendingIsExact
  <2>1. Missing(h)' = Missing(h) /\ Counting(h)' = Counting(h)
    BY <1>2, <1>9 DEF Missing, Counting, Quiet, At
  <2> QED
    BY <1>1, <1>2, <1>8, <2>1 DEF PendingIsExact, Quiet
<1>14. SumsAreRight'
  <2>1. \A h \in Handles : Live(h)' =>
            \A i \in 1 .. Len(Ranges'[h]) : parts'[h][i] \in {None, <<h, Ranges'[h][i]>>}
    BY <1>1, <1>2, <1>8 DEF SumsAreRight, Quiet
  <2>2. \A h \in Handles : result'[h] # None =>
            result'[h] = [i \in 1 .. Len(Ranges'[h]) |-> <<h, Ranges'[h][i]>>]
    BY <1>1, <1>2 DEF SumsAreRight, Quiet
  <2>3. ASSUME NEW w \in Slots, At(w, "store")'
        PROVE  job'[w].part =
                 <<job'[w].task.handle, Ranges'[job'[w].task.handle][job'[w].task.index]>>
    BY <1>1, <1>2, <2>3 DEF SumsAreRight, Quiet, At, SameShard
  <2> QED
    BY <2>1, <2>2, <2>3 DEF SumsAreRight
<1>15. QueueBounded'
  <2>1. CASE UNCHANGED <<queue, busy>>
    BY <1>1, <1>2, <2>1 DEF QueueBounded, inFlight
  <2>2. CASE queue' \in {queue, {}} /\ \A w \in Slots : busy'[w] => busy[w]
    <3> DEFINE B == {w \in Slots : busy[w]}
               C == {w \in Slots : busy'[w]}
    <3>1. B \in SUBSET Slots /\ C \in SUBSET B
      BY <2>2
    <3>2. IsFiniteSet(B) /\ IsFiniteSet(queue) /\ queue' \subseteq queue
      BY <1>1, <1>3, <3>1, SlotsFinite DEF SchedulerTypes
    <3>3. Cardinality(B) + Cardinality(queue) <= asyncQueueCapacity /\ asyncQueueCapacity \in Nat
      <4>1. Cardinality(B) \in Nat /\ Cardinality(queue) \in Nat
        BY <3>2, FS_CardinalityType
      <4>2. asyncQueueCapacity \in Nat
        BY <1>1, EngineFacts DEF SchedulerTypes
      <4> QED
        BY <1>1, <4>1, <4>2 DEF QueueBounded, inFlight
    <3> HIDE DEF B, C
    <3>4. /\ Cardinality(C) <= Cardinality(B) /\ Cardinality(queue') <= Cardinality(queue)
          /\ Cardinality(B) \in Nat /\ Cardinality(queue) \in Nat
          /\ Cardinality(C) \in Nat /\ Cardinality(queue') \in Nat
      <4>1. IsFiniteSet(C) /\ IsFiniteSet(queue')
        BY <3>1, <3>2, FS_Subset
      <4> QED
        BY <3>1, <3>2, <4>1, FS_Subset, FS_CardinalityType
    <3>5. Cardinality(queue') + Cardinality(C) <= asyncQueueCapacity
      BY <3>3, <3>4
    <3> QED
      BY <1>2, <3>5 DEF QueueBounded, inFlight, C
  <2> QED
    BY <2>1, <2>2 DEF Quiet
<1>16. NoShardLost'
  <2> SUFFICES ASSUME ~terminal'
               PROVE  /\ \A w \in Slots : busy'[w] <=> job'[w] # None
                      /\ \A h \in Handles : pending'[h] =
                           Cardinality({t \in queue' : t.handle = h}) + Cardinality(Uncounted(h, job'))
    BY DEF NoShardLost, Uncounted
  <2>1. ~terminal /\ UNCHANGED <<queue, busy>>
    BY DEF Quiet
  <2>2. \A w \in Slots : busy'[w] <=> job'[w] # None
    BY <1>1, <2>1 DEF NoShardLost, Quiet, Owes
  <2>3. ASSUME NEW h \in Handles
        PROVE  pending'[h] = Cardinality({t \in queue' : t.handle = h}) + Cardinality(Uncounted(h, job'))
    <3>1. Uncounted(h, job') = Uncounted(h, job)
      BY <2>1 DEF Uncounted, Quiet, Owes, SameShard
    <3>2. pending[h] = Cardinality({t \in queue : t.handle = h}) + Cardinality(Uncounted(h, job))
      BY <1>1, <2>1 DEF NoShardLost, Uncounted
    <3> QED
      BY <2>1, <3>1, <3>2 DEF Quiet
  <2> QED
    BY <2>2, <2>3
<1> QED
  BY <1>5, <1>7, <1>12, <1>13, <1>14, <1>15, <1>16

\* A quiet step that keeps what is said of requests keeps the whole invariant.
LEMMA QuietInv ==
  ASSUME ShardInv, Quiet, WorkerTypes', RequestsAreFresh', AttemptsLeft'
  PROVE  ShardInv'
  BY QuietSteps, TypePartsNext DEF ShardInv

\* The invariant's typing of a goroutine and of its shard.
LEMMA GoroutineTypes ==
  ASSUME ShardInv, NEW w \in Slots, job[w] # None
  PROVE  /\ job[w] \in Goroutines /\ job[w].task \in Task /\ ValidTask(job[w].task)
         /\ job[w].task.handle \in Handles /\ job[w].task.id \in 1 .. nextRequestID
         /\ job[w].task.attempt \in 1 .. MaxAttempts
         /\ job[w].task.index \in 1 .. Len(Ranges[job[w].task.handle])
         /\ nextRequestID \in Nat /\ MaxAttempts \in Nat
<1>1. job[w] \in Goroutines /\ ValidTask(job[w].task) /\ nextRequestID \in Nat /\ engine \in Engines
  BY DEF ShardInv, TypeOK
<1>2. job[w].task \in Task
  BY <1>1 DEF Goroutines
<1>3. MaxAttempts \in Nat
  BY <1>1, EngineFacts
<1> QED
  BY <1>1, <1>2, <1>3 DEF ValidTask, Task

\* Workers that are left alone stay typed while requests are numbered.
LEMMA WorkersUnchanged ==
  ASSUME ShardInv, UNCHANGED <<engine, closed, working, replies>>,
         nextRequestID' \in Nat, nextRequestID <= nextRequestID'
  PROVE  WorkerTypes'
<1>1. WorkerTypes /\ nextRequestID \in Nat /\ Ranges' = Ranges
  BY TypeParts, EngineFixed DEF ShardInv, TypeOK
<1>2. 1 .. nextRequestID \subseteq 1 .. nextRequestID' /\ 0 .. nextRequestID \subseteq 0 .. nextRequestID'
  BY <1>1
<1>3. working' \in [Slots -> SUBSET [id : 1 .. nextRequestID', handle : Handles,
                                      index : Nat, intact : BOOLEAN]]
  BY <1>1, <1>2 DEF WorkerTypes
<1>4. replies' \in [Slots -> [kind : {"partial", "fetch", "fatal", "lost"},
                               id : 0 .. nextRequestID', part : Sum \cup {None}] \cup {None}]
  BY <1>1, <1>2 DEF WorkerTypes
<1> QED
  BY <1>1, <1>3, <1>4 DEF WorkerTypes

\* With no new request or reply, and no goroutine that starts to wait or to run,
\* requests stay fresh.
LEMMA FreshKept ==
  ASSUME ShardInv, UNCHANGED engine, queue' \subseteq queue,
         \A w \in Slots : replies'[w] \in {replies[w], None},
         \A w \in Slots : \A r \in working'[w] :
            r \in working[w] \/ (~At(w, "wait")' /\ \E q \in working[w] : q.id = r.id),
         \A w \in Slots : At(w, "run")' \/ At(w, "backoff")' =>
            (At(w, "run") \/ At(w, "backoff")) /\ job'[w].task.id = job[w].task.id,
         \A w \in Slots : At(w, "wait")' => job'[w] = job[w]
  PROVE  RequestsAreFresh'
<1>1. RequestsAreFresh /\ Ranges' = Ranges
  BY EngineFixed DEF ShardInv
<1>2. \A w \in Slots : \A id : Unused(w, id) => Unused(w, id)'
  BY DEF Unused
<1>3. \A t \in queue' : \A w \in Slots : Unused(w, t.id)'
  BY <1>1, <1>2 DEF RequestsAreFresh
<1>4. \A w \in Slots : At(w, "run")' \/ At(w, "backoff")' => Unused(w, job[w].task.id)'
  <2> SUFFICES ASSUME NEW w \in Slots, At(w, "run")' \/ At(w, "backoff")'
               PROVE  Unused(w, job[w].task.id)'
    OBVIOUS
  <2>1. Unused(w, job[w].task.id) /\ job'[w].task.id = job[w].task.id
    BY <1>1 DEF RequestsAreFresh
  <2> QED
    BY <2>1 DEF Unused
<1>5. ASSUME NEW w \in Slots, At(w, "wait")'
      PROVE  /\ \A r \in working'[w] : r.id = job'[w].task.id => SameShard(r, job'[w].task) /\ r.intact
             /\ replies'[w] # None /\ replies'[w].id = job'[w].task.id /\ replies'[w].kind = "partial" =>
                  replies'[w].part =
                    <<job'[w].task.handle, Ranges'[job'[w].task.handle][job'[w].task.index]>>
  <2>1. job'[w] = job[w] /\ At(w, "wait")
    BY <1>5 DEF At
  <2> QED
    BY <1>1, <1>5, <2>1 DEF RequestsAreFresh
<1> QED
  BY <1>3, <1>4, <1>5 DEF RequestsAreFresh, SameShard

\* Goroutines end and free their slots, and the scheduler has failed or fails now.
LEMMA EndingSteps ==
  ASSUME ShardInv, UNCHANGED <<engine, nextRequestID, pool, pending, parts, result, freed>>,
         terminal' = TRUE,
         \/ /\ UNCHANGED <<queue, handles, outcome>>
            /\ busy' \in [Slots -> BOOLEAN] /\ \A w \in Slots : busy'[w] => busy[w]
         \/ /\ queue' = {} /\ busy' = [w \in Slots |-> FALSE] /\ handles' = {}
            /\ outcome' = [h \in Handles |-> IF h \in handles
                                               THEN Completed(outcome[h], "error") ELSE outcome[h]],
         job' \in [Slots -> Goroutines \cup {None}],
         \A w \in Slots : job'[w] = job[w] \/ ((Owes(w) \/ At(w, "free")) /\ job'[w] = None)
  PROVE  ShardInv'
<1>1. SchedulerTypes /\ nextRequestID \in Nat /\ terminal \in BOOLEAN
  BY TypeParts DEF ShardInv, SchedulerTypes
<1>2. /\ outcome' \in [Handles -> {"new", "open", "ok", "error", "refused"}]
      /\ \A h \in Handles : /\ outcome'[h] \in {"new", "refused"} <=> outcome[h] \in {"new", "refused"}
                            /\ outcome'[h] = "ok" <=> outcome[h] = "ok"
  <2>1. CASE UNCHANGED outcome
    BY <1>1, <2>1 DEF SchedulerTypes
  <2>2. CASE outcome' = [h \in Handles |-> IF h \in handles
                                              THEN Completed(outcome[h], "error") ELSE outcome[h]]
    BY <1>1, <2>2 DEF SchedulerTypes, Completed
  <2> QED
    BY <2>1, <2>2
<1>3. handles' \subseteq Handles
  BY <1>1 DEF SchedulerTypes
<1>4. Quiet
  <2>1. /\ busy' \in [Slots -> BOOLEAN] /\ \A w \in Slots : busy'[w] => busy[w]
        /\ queue' \in {queue, {}}
    OBVIOUS
  <2> QED
    BY <1>1, <1>2, <1>3, <2>1 DEF Quiet
<1>5. WorkerTypes'
  BY <1>1, WorkersUnchanged DEF pool
<1>6. \A w \in Slots : \A s \in Stages : At(w, s)' => At(w, s) /\ job'[w] = job[w]
  BY DEF At
<1>7. RequestsAreFresh'
  <2>1. queue' \subseteq queue
    OBVIOUS
  <2>2. \A w \in Slots : working'[w] = working[w] /\ replies'[w] = replies[w]
    BY DEF pool
  <2>3. /\ \A w \in Slots : At(w, "run")' \/ At(w, "backoff")' =>
              (At(w, "run") \/ At(w, "backoff")) /\ job'[w].task.id = job[w].task.id
        /\ \A w \in Slots : At(w, "wait")' => job'[w] = job[w]
    BY <1>6 DEF Stages
  <2> QED
    BY <2>1, <2>2, <2>3, FreshKept
<1>8. AttemptsLeft'
  BY <1>6, EngineFixed DEF ShardInv, AttemptsLeft, Stages
<1> QED
  BY <1>4, <1>5, <1>7, <1>8, QuietInv

\* fail, and the end of a goroutine of a failed scheduler.
LEMMA FailStep ==
  ASSUME ShardInv, UNCHANGED engine, NEW j, fail(j),
         j = job \/ \E w \in Slots : Owes(w) /\ j = Ended(w)
  PROVE  ShardInv'
<1>1. job \in [Slots -> Goroutines \cup {None}] /\ terminal \in BOOLEAN
  BY DEF ShardInv, TypeOK
<1>2. /\ job' \in [Slots -> Goroutines \cup {None}]
      /\ \A w \in Slots : job'[w] = job[w] \/ (Owes(w) /\ job'[w] = None)
  BY <1>1 DEF fail, Ended
<1>3. terminal' = TRUE
  BY <1>1 DEF fail
<1>4. \/ /\ UNCHANGED <<queue, handles, outcome>>
         /\ busy' \in [Slots -> BOOLEAN] /\ \A w \in Slots : busy'[w] => busy[w]
      \/ /\ queue' = {} /\ busy' = [w \in Slots |-> FALSE] /\ handles' = {}
         /\ outcome' = [h \in Handles |-> IF h \in handles
                                            THEN Completed(outcome[h], "error") ELSE outcome[h]]
  BY DEF fail, ShardInv, TypeOK
<1>5. UNCHANGED <<engine, nextRequestID, pool, pending, parts, result, freed>>
  BY DEF fail
<1> QED
  BY <1>2, <1>3, <1>4, <1>5, EndingSteps

\* A goroutine that meets a failed scheduler ends, and no shard is handed on.
LEMMA EndStep ==
  ASSUME ShardInv, NEW w \in Slots, Owes(w), terminal, job' = Ended(w),
         UNCHANGED <<engine, queue, busy, terminal, nextRequestID, pool, sections>>
  PROVE  ShardInv'
<1>1. job \in [Slots -> Goroutines \cup {None}] /\ terminal \in BOOLEAN
  BY DEF ShardInv, TypeOK
<1>2. /\ job' \in [Slots -> Goroutines \cup {None}]
      /\ \A v \in Slots : job'[v] = job[v] \/ (Owes(v) /\ job'[v] = None)
  BY <1>1 DEF Ended
<1>3. busy' \in [Slots -> BOOLEAN] /\ \A v \in Slots : busy'[v] => busy[v]
  BY DEF ShardInv, TypeOK
<1>4. UNCHANGED <<engine, nextRequestID, pool, pending, parts, result, freed, queue, handles, outcome>>
  BY DEF sections
<1> QED
  BY <1>1, <1>2, <1>3, <1>4, EndingSteps

\* One goroutine moves on with its shard.
LEMMA MoveOn ==
  ASSUME ShardInv, NEW w \in Slots, Owes(w), NEW g \in Goroutines,
         job' = [job EXCEPT ![w] = g],
         UNCHANGED <<engine, queue, busy, terminal, sections>>,
         nextRequestID' \in Nat, nextRequestID <= nextRequestID',
         g.stage \notin {"count", "settle", "free"},
         SameShard(g.task, job[w].task), g.task.affinity = job[w].task.affinity,
         \/ g.task.id = job[w].task.id
         \/ g.task.id > nextRequestID /\ g.task.id <= nextRequestID',
         g.task.attempt \in 1 .. MaxAttempts,
         g.stage = "store" =>
            g.part = <<job[w].task.handle, Ranges[job[w].task.handle][job[w].task.index]>>
  PROVE  Quiet /\ job'[w] = g /\ \A v \in Slots : v # w => job'[v] = job[v]
<1>1. SchedulerTypes
  BY TypeParts DEF ShardInv
<1>2. /\ job' \in [Slots -> Goroutines \cup {None}]
      /\ job'[w] = g /\ \A v \in Slots : v # w => job'[v] = job[v]
  BY <1>1 DEF SchedulerTypes
<1>3. g # None
  BY NoneAssumption
<1>4. Owes(w)'
  BY <1>2, <1>3 DEF Owes
<1>5. ASSUME NEW v \in Slots
      PROVE  \/ job'[v] = job[v]
             \/ (Owes(v) \/ At(v, "free")) /\ terminal' /\ job'[v] = None
             \/ /\ Owes(v) /\ Owes(v)' /\ SameShard(job'[v].task, job[v].task)
                /\ job'[v].task.affinity = job[v].task.affinity
                /\ \/ job'[v].task.id = job[v].task.id
                   \/ job'[v].task.id > nextRequestID /\ job'[v].task.id <= nextRequestID'
                /\ job'[v].task.attempt \in 1 .. MaxAttempts
                /\ job'[v].stage = "store" =>
                     job'[v].part = <<job[v].task.handle, Ranges[job[v].task.handle][job[v].task.index]>>
  <2>1. CASE v = w
    BY <1>2, <1>4, <2>1
  <2>2. CASE v # w
    BY <1>2, <2>2
  <2> QED
    BY <2>1, <2>2
<1>6. /\ UNCHANGED <<engine, pending, parts, result, freed, queue, busy, terminal>>
      /\ handles' \subseteq Handles
      /\ outcome' \in [Handles -> {"new", "open", "ok", "error", "refused"}]
      /\ outcome' = outcome /\ terminal' \in BOOLEAN
  BY <1>1 DEF SchedulerTypes, sections
<1> QED
  BY <1>2, <1>5, <1>6 DEF Quiet

\* run: posting a request of its own number keeps the numbers apart.
LEMMA RunStep ==
  ASSUME ShardInv, UNCHANGED engine, NEW w \in Slots, Run(w)
  PROVE  ShardInv'
<1>1. Owes(w) /\ At(w, "run")
  BY DEF Run, At, Owes
<1>2. CASE closed
  BY <1>1, <1>2, FailStep DEF Run
<1>3. CASE ~closed
  <2> DEFINE t == job[w].task
             g == [job[w] EXCEPT !.stage = "wait"]
             r == [id |-> t.id, handle |-> t.handle, index |-> t.index, intact |-> TRUE]
  <2>1. /\ working' = [working EXCEPT ![w] = @ \cup {r}]
        /\ job' = [job EXCEPT ![w] = g]
        /\ UNCHANGED <<queue, busy, terminal, nextRequestID, closed, replies, sections>>
    BY <1>3 DEF Run, Goto
  <2>2. /\ job[w] \in Goroutines /\ t \in Task /\ t.handle \in Handles /\ t.id \in 1 .. nextRequestID
        /\ t.attempt \in 1 .. MaxAttempts /\ t.index \in 1 .. Len(Ranges[t.handle])
        /\ nextRequestID \in Nat
    BY <1>1, GoroutineTypes DEF Owes
  <2>3. g \in Goroutines /\ g.task = t /\ g.stage = "wait"
    BY <2>2 DEF Goroutines, Stages
  <2>4. Len(Ranges[t.handle]) \in Nat /\ t.index \in Nat
    BY <2>2, EngineFacts DEF ShardInv, TypeOK
  <2>5. WorkerTypes /\ Ranges' = Ranges /\ MaxAttempts' = MaxAttempts
    BY TypeParts, EngineFixed DEF ShardInv
  <2> HIDE DEF g
  <2>6. Quiet /\ job'[w] = g /\ \A v \in Slots : v # w => job'[v] = job[v]
    <3>1. /\ UNCHANGED <<engine, queue, busy, terminal, sections>>
          /\ nextRequestID' \in Nat /\ nextRequestID <= nextRequestID'
      BY <2>1, <2>2
    <3>2. SameShard(g.task, job[w].task) /\ g.task.id = job[w].task.id
      BY <2>3 DEF SameShard
    <3> QED
      BY <1>1, <2>1, <2>2, <2>3, <3>1, <3>2, MoveOn
  <2>7. /\ \A v \in Slots : v # w => working'[v] = working[v]
        /\ working'[w] = working[w] \cup {r} /\ DOMAIN working' = Slots
    BY <2>1, <2>5 DEF WorkerTypes
  <2>8. WorkerTypes'
    <3>1. r \in [id : 1 .. nextRequestID, handle : Handles, index : Nat, intact : BOOLEAN]
      BY <2>2, <2>4
    <3>2. working' \in [Slots -> SUBSET [id : 1 .. nextRequestID, handle : Handles,
                                          index : Nat, intact : BOOLEAN]]
      BY <2>1, <2>5, <3>1 DEF WorkerTypes
    <3>3. \A v \in Slots : \A q \in working'[v] : q.index \in 1 .. Len(Ranges[q.handle])
      BY <2>2, <2>5, <2>7 DEF WorkerTypes
    <3> QED
      BY <2>1, <2>5, <3>2, <3>3 DEF WorkerTypes
  <2>9. RequestsAreFresh /\ HeldOnce
    BY DEF ShardInv
  <2>10. RequestsAreFresh'
    <3>1. ASSUME NEW u \in queue', NEW v \in Slots
          PROVE  Unused(v, u.id)'
      <4>1. Unused(v, u.id) /\ u.id # t.id
        BY <1>1, <2>1, <2>9, <3>1 DEF RequestsAreFresh, HeldOnce
      <4> QED
        BY <2>1, <2>7, <4>1 DEF Unused
    <3>2. ASSUME NEW v \in Slots, At(v, "run")' \/ At(v, "backoff")'
          PROVE  Unused(v, job[v].task.id)'
      <4>1. v # w
        BY <2>3, <2>6, <3>2 DEF At
      <4>2. job'[v] = job[v] /\ Unused(v, job[v].task.id)
        BY <2>6, <2>9, <3>2, <4>1 DEF RequestsAreFresh, At
      <4> QED
        BY <2>1, <2>7, <4>1, <4>2 DEF Unused
    <3>3. ASSUME NEW v \in Slots, At(v, "wait")'
          PROVE  /\ \A q \in working'[v] : q.id = job'[v].task.id => SameShard(q, job'[v].task) /\ q.intact
                 /\ replies'[v] # None /\ replies'[v].id = job'[v].task.id /\ replies'[v].kind = "partial" =>
                      replies'[v].part =
                        <<job'[v].task.handle, Ranges'[job'[v].task.handle][job'[v].task.index]>>
      <4>1. CASE v = w
        <5>1. Unused(w, t.id)
          BY <1>1, <2>9 DEF RequestsAreFresh
        <5> QED
          BY <2>1, <2>3, <2>6, <2>7, <4>1, <5>1 DEF Unused, SameShard
      <4>2. CASE v # w
        BY <2>1, <2>5, <2>6, <2>7, <2>9, <3>3, <4>2 DEF RequestsAreFresh, At
      <4> QED
        BY <4>1, <4>2
    <3> QED
      BY <3>1, <3>2, <3>3 DEF RequestsAreFresh, SameShard
  <2>11. AttemptsLeft'
    BY <2>3, <2>5, <2>6 DEF ShardInv, AttemptsLeft, At
  <2> QED
    BY <2>6, <2>8, <2>10, <2>11, QuietInv
<1> QED
  BY <1>2, <1>3

\* The end of a wait: the request's scalars may be gone, but nobody waits for it.
LEMMA WaitEndsStep ==
  ASSUME ShardInv, UNCHANGED engine, NEW w \in Slots, At(w, "wait"),
         NEW part \in Sum \cup {None}, NEW cause \in {None, "fetch", "fatal", "lost"},
         WaitEnds(w, part, cause),
         replies' = replies \/ replies' = [replies EXCEPT ![w] = None],
         cause = None =>
            part = <<job[w].task.handle, Ranges[job[w].task.handle][job[w].task.index]>>
  PROVE  ShardInv'
<1> DEFINE t == job[w].task
           g == [job[w] EXCEPT !.part = part, !.cause = cause,
                                !.stage = IF cause = None THEN "store" ELSE "error"]
           Zeroed(r) == IF r.id = t.id THEN [r EXCEPT !.intact = FALSE] ELSE r
<1>1. Owes(w) /\ job[w] # None
  BY DEF At, Owes
<1>2. /\ job[w] \in Goroutines /\ t \in Task /\ t.attempt \in 1 .. MaxAttempts
      /\ nextRequestID \in Nat /\ Ranges' = Ranges /\ MaxAttempts' = MaxAttempts
  BY <1>1, GoroutineTypes, EngineFixed
<1>3. SchedulerTypes /\ WorkerTypes
  BY TypeParts DEF ShardInv
<1>4. job' = [job EXCEPT ![w] = g]
  BY <1>3 DEF WaitEnds, SchedulerTypes
<1>5. g \in Goroutines /\ g.task = t /\ g.part = part
      /\ g.stage \in {"store", "error"} /\ (g.stage = "store" => cause = None)
  BY <1>2 DEF Goroutines, Stages
<1>6. working' = [working EXCEPT ![w] = {Zeroed(r) : r \in working[w]}]
  BY <1>3 DEF WaitEnds, WorkerTypes
<1>7. UNCHANGED <<queue, busy, terminal, nextRequestID, closed, sections>>
  BY DEF WaitEnds
<1>8. ASSUME NEW r \in working[w]
      PROVE  /\ Zeroed(r) \in [id : 1 .. nextRequestID, handle : Handles, index : Nat, intact : BOOLEAN]
             /\ Zeroed(r).id = r.id /\ Zeroed(r).handle = r.handle /\ Zeroed(r).index = r.index
  <2>1. r \in [id : 1 .. nextRequestID, handle : Handles, index : Nat, intact : BOOLEAN]
    BY <1>3 DEF WorkerTypes
  <2> QED
    BY <2>1
<1> HIDE DEF g, Zeroed
<1>9. Quiet /\ job'[w] = g /\ \A v \in Slots : v # w => job'[v] = job[v]
  <2>1. /\ UNCHANGED <<engine, queue, busy, terminal, sections>>
        /\ nextRequestID' \in Nat /\ nextRequestID <= nextRequestID'
    BY <1>2, <1>7
  <2>2. SameShard(g.task, job[w].task) /\ g.task.id = job[w].task.id
    BY <1>5 DEF SameShard
  <2> QED
    BY <1>1, <1>2, <1>4, <1>5, <2>1, <2>2, MoveOn
<1>10. WorkerTypes'
  <2>1. working' \in [Slots -> SUBSET [id : 1 .. nextRequestID, handle : Handles,
                                        index : Nat, intact : BOOLEAN]]
    BY <1>3, <1>6, <1>8 DEF WorkerTypes
  <2>2. \A v \in Slots : \A q \in working'[v] : q.index \in 1 .. Len(Ranges[q.handle])
    BY <1>3, <1>6, <1>8 DEF WorkerTypes
  <2>3. replies' \in [Slots -> [kind : {"partial", "fetch", "fatal", "lost"},
                                 id : 0 .. nextRequestID, part : Sum \cup {None}] \cup {None}]
    BY <1>3 DEF WorkerTypes
  <2> QED
    BY <1>2, <1>3, <1>7, <2>1, <2>2, <2>3 DEF WorkerTypes
<1>11. \A v \in Slots : \A s \in Stages \ {"store", "error"} : At(v, s)' => v # w /\ job'[v] = job[v]
  BY <1>5, <1>9 DEF At
<1>12. RequestsAreFresh'
  <2>1. \A v \in Slots : replies'[v] \in {replies[v], None}
    BY <1>3 DEF WorkerTypes
  <2>2. \A v \in Slots : \A q \in working'[v] :
          q \in working[v] \/ (~At(v, "wait")' /\ \E r \in working[v] : r.id = q.id)
    BY <1>3, <1>6, <1>8, <1>11 DEF WorkerTypes, Stages
  <2>3. /\ \A v \in Slots : At(v, "run")' \/ At(v, "backoff")' =>
             (At(v, "run") \/ At(v, "backoff")) /\ job'[v].task.id = job[v].task.id
        /\ \A v \in Slots : At(v, "wait")' => job'[v] = job[v]
    BY <1>11 DEF At, Stages
  <2> QED
    BY <1>7, <2>1, <2>2, <2>3, FreshKept
<1>13. AttemptsLeft'
  BY <1>2, <1>11 DEF ShardInv, AttemptsLeft, At, Stages
<1> QED
  BY <1>9, <1>10, <1>12, <1>13, QuietInv

\* A reply is taken for the request of the goroutine that waits only if it is.
LEMMA TakeReplyStep ==
  ASSUME ShardInv, UNCHANGED engine, NEW w \in Slots, TakeReply(w)
  PROVE  ShardInv'
<1> DEFINE reply == replies[w]
<1>1. /\ reply # None /\ reply.part \in Sum \cup {None}
      /\ reply.kind \in {"partial", "fetch", "fatal", "lost"}
  BY DEF ShardInv, TypeOK, TakeReply
<1>2. At(w, "wait") /\ replies' = [replies EXCEPT ![w] = None]
  BY DEF TakeReply
<1>3. CASE reply.kind = "partial" /\ reply.id = job[w].task.id
  <2>1. reply.part = <<job[w].task.handle, Ranges[job[w].task.handle][job[w].task.index]>>
    BY <1>1, <1>2, <1>3 DEF ShardInv, RequestsAreFresh
  <2>2. WaitEnds(w, reply.part, None)
    BY <1>3 DEF TakeReply
  <2> QED
    BY <1>1, <1>2, <2>1, <2>2, WaitEndsStep
<1>4. CASE reply.kind = "partial" /\ reply.id # job[w].task.id
  <2>1. WaitEnds(w, None, "fatal") /\ None # "fatal"
    BY <1>4, NoneAssumption DEF TakeReply
  <2> QED
    BY <1>2, <2>1, WaitEndsStep
<1>5. CASE reply.kind # "partial"
  <2>1. WaitEnds(w, None, reply.kind) /\ reply.kind # None
    BY <1>1, <1>5, NoneAssumption DEF TakeReply
  <2> QED
    BY <1>1, <1>2, <1>5, <2>1, WaitEndsStep
<1> QED
  BY <1>3, <1>4, <1>5

\* A deadline or a cancellation ends the wait without a partial sum.
LEMMA WaitExpiresStep ==
  ASSUME ShardInv, UNCHANGED engine, NEW w \in Slots, WaitExpires(w)
  PROVE  ShardInv'
<1>1. \E cause \in {"fatal", "lost"} : WaitEnds(w, None, cause)
  BY DEF WaitExpires
<1>2. At(w, "wait") /\ replies' = replies /\ None \notin {"fatal", "lost"}
  BY NoneAssumption DEF WaitExpires
<1> QED
  BY <1>1, <1>2, WaitEndsStep

\* A goroutine changes its stage alone, between stages in which it neither waits
\* nor stores, and the workers change at most by losing what they had.
LEMMA StageStep ==
  ASSUME ShardInv, UNCHANGED engine, NEW w \in Slots, Owes(w),
         NEW stage \in {"run", "replace", "again"}, Goto(w, stage),
         UNCHANGED <<queue, busy, terminal, nextRequestID, closed, sections>>,
         \/ UNCHANGED <<working, replies>>
         \/ working' = [working EXCEPT ![w] = {}] /\ replies' = [replies EXCEPT ![w] = None],
         stage = "run" => At(w, "backoff"),
         stage # "run" => job[w].task.attempt < MaxAttempts
  PROVE  ShardInv'
<1> DEFINE g == [job[w] EXCEPT !.stage = stage]
<1>1. /\ job[w] \in Goroutines /\ job[w].task.attempt \in 1 .. MaxAttempts
      /\ nextRequestID \in Nat /\ Ranges' = Ranges /\ MaxAttempts' = MaxAttempts
  BY GoroutineTypes, EngineFixed DEF Owes
<1>2. g \in Goroutines /\ g.task = job[w].task /\ g.stage = stage
  BY <1>1 DEF Goroutines, Stages
<1>3. SchedulerTypes /\ WorkerTypes
  BY TypeParts DEF ShardInv
<1>4. job' = [job EXCEPT ![w] = g]
  BY <1>3 DEF Goto, SchedulerTypes
<1> HIDE DEF g
<1>5. Quiet /\ job'[w] = g /\ \A v \in Slots : v # w => job'[v] = job[v]
  <2>1. /\ UNCHANGED <<engine, queue, busy, terminal, sections>>
        /\ nextRequestID' \in Nat /\ nextRequestID <= nextRequestID'
    BY <1>1
  <2>2. SameShard(g.task, job[w].task) /\ g.task.id = job[w].task.id
    BY <1>2 DEF SameShard
  <2> QED
    BY <1>1, <1>2, <1>4, <2>1, <2>2, MoveOn
<1>6. \A v \in Slots : working'[v] \subseteq working[v] /\ replies'[v] \in {replies[v], None}
  BY <1>3 DEF WorkerTypes
<1>7. WorkerTypes'
  <2>1. working' \in [Slots -> SUBSET [id : 1 .. nextRequestID, handle : Handles,
                                        index : Nat, intact : BOOLEAN]]
    BY <1>3 DEF WorkerTypes
  <2>2. \A v \in Slots : \A q \in working'[v] : q.index \in 1 .. Len(Ranges[q.handle])
    BY <1>3, <1>6 DEF WorkerTypes
  <2>3. replies' \in [Slots -> [kind : {"partial", "fetch", "fatal", "lost"},
                                 id : 0 .. nextRequestID, part : Sum \cup {None}] \cup {None}]
    BY <1>3 DEF WorkerTypes
  <2> QED
    BY <1>1, <1>3, <2>1, <2>2, <2>3 DEF WorkerTypes
<1>8. RequestsAreFresh'
  <2>1. \A v \in Slots : At(v, "run")' \/ At(v, "backoff")' =>
          (At(v, "run") \/ At(v, "backoff")) /\ job'[v].task.id = job[v].task.id
    BY <1>2, <1>5 DEF At
  <2>2. \A v \in Slots : At(v, "wait")' => job'[v] = job[v]
    BY <1>2, <1>5 DEF At
  <2> QED
    BY <1>6, <2>1, <2>2, FreshKept
<1>9. AttemptsLeft'
  BY <1>1, <1>2, <1>5 DEF ShardInv, AttemptsLeft, At
<1> QED
  BY <1>5, <1>7, <1>8, <1>9, QuietInv

\* retry: a failed shard ends the scheduler, ends its goroutine, or has an attempt left.
LEMMA RetryStep ==
  ASSUME ShardInv, UNCHANGED engine, NEW w \in Slots, Retry(w)
  PROVE  ShardInv'
<1>1. Owes(w) /\ job[w] # None
  BY DEF Retry, At, Owes
<1>2. CASE job[w].cause = "fatal" \/ job[w].task.attempt >= MaxAttempts
  BY <1>1, <1>2, FailStep DEF Retry
<1>3. CASE ~(job[w].cause = "fatal" \/ job[w].task.attempt >= MaxAttempts)
  <2>1. UNCHANGED <<queue, busy, terminal, nextRequestID, pool, sections>>
    BY <1>3 DEF Retry
  <2>2. CASE terminal
    BY <1>1, <1>3, <2>1, <2>2, EndStep DEF Retry
  <2>3. CASE ~terminal
    <3>1. job[w].task.attempt < MaxAttempts
      BY <1>1, <1>3, GoroutineTypes
    <3>2. \E stage \in {"replace", "again"} : Goto(w, stage)
      BY <1>3, <2>3 DEF Retry, Goto
    <3> QED
      BY <1>1, <2>1, <3>1, <3>2, StageStep DEF pool
  <2> QED
    BY <2>2, <2>3
<1> QED
  BY <1>2, <1>3

\* A replaced worker has no requests and no replies.
LEMMA ReplaceStep ==
  ASSUME ShardInv, UNCHANGED engine, NEW w \in Slots, Replace(w)
  PROVE  ShardInv'
<1>1. Owes(w) /\ job[w].task.attempt < MaxAttempts
  BY DEF Replace, At, Owes, ShardInv, AttemptsLeft
<1>2. CASE closed
  BY <1>1, <1>2, FailStep DEF Replace
<1>3. CASE ~closed
  BY <1>1, <1>3, StageStep DEF Replace
<1> QED
  BY <1>2, <1>3

\* After the backoff the shard runs under its new number, or not at all.
LEMMA BackoffStep ==
  ASSUME ShardInv, UNCHANGED engine, NEW w \in Slots, Backoff(w)
  PROVE  ShardInv'
<1>1. Owes(w) /\ At(w, "backoff") /\ UNCHANGED <<queue, busy, terminal, nextRequestID, pool, sections>>
  BY DEF Backoff, At, Owes
<1>2. CASE Goto(w, "run")
  BY <1>1, <1>2, StageStep DEF pool
<1>3. CASE terminal /\ job' = Ended(w)
  BY <1>1, <1>3, EndStep
<1> QED
  BY <1>2, <1>3 DEF Backoff

\* A new attempt gets a number that no request, reply or task carries.
LEMMA AgainStep ==
  ASSUME ShardInv, UNCHANGED engine, NEW w \in Slots, Again(w)
  PROVE  ShardInv'
<1>1. Owes(w) /\ UNCHANGED <<queue, busy, terminal, pool, sections>>
      /\ job[w].task.attempt < MaxAttempts
  BY DEF Again, At, Owes, ShardInv, AttemptsLeft
<1>2. CASE terminal
  BY <1>1, <1>2, EndStep DEF Again
<1>3. CASE ~terminal
  <2> DEFINE id == nextRequestID + 1
             u == [[job[w].task EXCEPT !.attempt = @ + 1] EXCEPT !.id = id]
             g == [[[job[w] EXCEPT !.task = u] EXCEPT !.cause = None] EXCEPT !.stage = "backoff"]
  <2>1. /\ job[w] \in Goroutines /\ job[w].task \in Task
        /\ job[w].task.attempt \in 1 .. MaxAttempts /\ MaxAttempts \in Nat
        /\ nextRequestID \in Nat /\ Ranges' = Ranges /\ MaxAttempts' = MaxAttempts
    BY <1>1, GoroutineTypes, EngineFixed DEF Owes
  <2>2. SchedulerTypes /\ WorkerTypes
    BY TypeParts DEF ShardInv
  <2>3. nextRequestID' = id
    BY <1>3 DEF Again
  <2>4. job' = [job EXCEPT ![w] = g]
    <3> DEFINE j1 == [job EXCEPT ![w].task.attempt = @ + 1]
               j2 == [j1 EXCEPT ![w].task.id = id]
               j3 == [j2 EXCEPT ![w].cause = None]
               j4 == [j3 EXCEPT ![w].stage = "backoff"]
    <3>1. job' = j4
      BY <1>3 DEF Again
    <3>2. j1 = [job EXCEPT ![w] = [job[w] EXCEPT !.task = [job[w].task EXCEPT !.attempt = @ + 1]]]
      BY <2>2 DEF SchedulerTypes
    <3> HIDE DEF j1
    <3>3. j2 = [job EXCEPT ![w] = [job[w] EXCEPT !.task = u]]
      BY <2>1, <2>2, <3>2 DEF SchedulerTypes, Goroutines
    <3> HIDE DEF j2, u
    <3> QED
      BY <2>2, <3>1, <3>3 DEF SchedulerTypes
  <2>5. /\ u \in Task /\ u.id = id /\ SameShard(u, job[w].task) /\ u.affinity = job[w].task.affinity
        /\ u.attempt \in 1 .. MaxAttempts
    <3>1. job[w].task.attempt + 1 \in 1 .. MaxAttempts /\ job[w].task.attempt + 1 \in Nat /\ id \in Nat
      BY <1>1, <2>1
    <3> DEFINE n == job[w].task.attempt + 1
               t == job[w].task
    <3>2. /\ t.handle \in Handles /\ t.index \in Nat /\ t.affinity \in Int /\ t \in Task
      BY <2>1 DEF Task
    <3>3. u = [[t EXCEPT !.attempt = n] EXCEPT !.id = id]
      OBVIOUS
    <3> HIDE DEF n, id, u, t
    <3>4. u \in Task /\ u.id = id /\ u.handle = t.handle /\ u.index = t.index
          /\ u.affinity = t.affinity /\ u.attempt = n
      BY <3>1, <3>2, <3>3 DEF Task, n
    <3> QED
      BY <3>1, <3>4 DEF n, t, SameShard
  <2> HIDE DEF u
  <2>6. g \in Goroutines /\ g.task = u /\ g.stage = "backoff"
    BY <2>1, <2>5 DEF Goroutines, Stages
  <2> HIDE DEF g
  <2>7. Quiet /\ job'[w] = g /\ \A v \in Slots : v # w => job'[v] = job[v]
    <3>1. UNCHANGED <<engine, queue, busy, terminal, sections>>
      BY <1>1
    <3>2. /\ nextRequestID' \in Nat /\ nextRequestID <= nextRequestID'
          /\ g.task.id > nextRequestID /\ g.task.id <= nextRequestID'
      BY <2>1, <2>3, <2>5, <2>6
    <3>3. SameShard(g.task, job[w].task) /\ g.task.affinity = job[w].task.affinity
          /\ g.task.attempt \in 1 .. MaxAttempts
      BY <2>5, <2>6
    <3> QED
      BY <1>1, <2>4, <2>6, <3>1, <3>2, <3>3, MoveOn
  <2>8. WorkerTypes'
    BY <1>1, <2>1, <2>3, WorkersUnchanged DEF pool
  <2>9. Unused(w, id)
    BY <2>1, <2>2 DEF WorkerTypes, Unused
  <2>10. RequestsAreFresh /\ UNCHANGED <<working, replies, queue>>
    BY <1>1 DEF ShardInv, pool
  <2>11. RequestsAreFresh'
    <3>1. \A v \in Slots : \A k : Unused(v, k)' <=> Unused(v, k)
      BY <2>10 DEF Unused
    <3>2. \A t \in queue' : \A v \in Slots : Unused(v, t.id)'
      BY <2>10, <3>1 DEF RequestsAreFresh
    <3>3. ASSUME NEW v \in Slots, At(v, "run")' \/ At(v, "backoff")'
          PROVE  Unused(v, job[v].task.id)'
      <4>1. CASE v = w
        <5>1. job'[v].task.id = id
          BY <2>5, <2>6, <2>7, <4>1
        <5> QED
          BY <2>9, <2>10, <4>1, <5>1 DEF Unused
      <4>2. CASE v # w
        <5>1. job'[v] = job[v] /\ Unused(v, job[v].task.id)
          BY <2>7, <2>10, <3>3, <4>2 DEF RequestsAreFresh, At
        <5> QED
          BY <2>10, <5>1 DEF Unused
      <4> QED
        BY <4>1, <4>2
    <3>4. ASSUME NEW v \in Slots, At(v, "wait")'
          PROVE  /\ \A q \in working'[v] : q.id = job'[v].task.id => SameShard(q, job'[v].task) /\ q.intact
                 /\ replies'[v] # None /\ replies'[v].id = job'[v].task.id /\ replies'[v].kind = "partial" =>
                      replies'[v].part =
                        <<job'[v].task.handle, Ranges'[job'[v].task.handle][job'[v].task.index]>>
      <4>1. job'[v] = job[v] /\ At(v, "wait")
        BY <2>6, <2>7, <3>4 DEF At
      <4> QED
        BY <2>1, <2>10, <4>1 DEF RequestsAreFresh
    <3> QED
      BY <3>2, <3>3, <3>4 DEF RequestsAreFresh, SameShard
  <2>12. AttemptsLeft'
    BY <2>1, <2>6, <2>7 DEF ShardInv, AttemptsLeft, At
  <2> QED
    BY <2>7, <2>8, <2>11, <2>12, QuietInv
<1> QED
  BY <1>2, <1>3

\* Steps of the workers alone are quiet.
LEMMA WorkersAlone ==
  ASSUME ShardInv, UNCHANGED <<engine, queue, busy, job, terminal, nextRequestID, sections>>
  PROVE  /\ Quiet /\ AttemptsLeft'
         /\ \A w \in Slots : \A s : At(w, s)' <=> At(w, s)
<1>1. SchedulerTypes /\ nextRequestID \in Nat
  BY TypeParts DEF ShardInv, SchedulerTypes
<1>2. Quiet
  BY <1>1 DEF Quiet, sections, SchedulerTypes
<1>3. \A w \in Slots : \A s : At(w, s)' <=> At(w, s)
  BY DEF At
<1>4. AttemptsLeft'
  BY <1>3, EngineFixed DEF ShardInv, AttemptsLeft
<1> QED
  BY <1>2, <1>3, <1>4

\* Closing the pool takes requests away and keeps a delivered reply.
LEMMA ClosePoolStep ==
  ASSUME ShardInv, UNCHANGED engine, ClosePool
  PROVE  ShardInv'
<1>1. Quiet /\ AttemptsLeft' /\ \A w \in Slots : \A s : At(w, s)' <=> At(w, s)
  BY WorkersAlone DEF ClosePool
<1>2. WorkerTypes /\ Ranges' = Ranges /\ nextRequestID' = nextRequestID /\ replies' = replies
      /\ closed' = TRUE /\ working' = [w \in Slots |-> {}] /\ queue' = queue /\ job' = job
  BY TypeParts, EngineFixed DEF ShardInv, ClosePool
<1>3. WorkerTypes'
  BY <1>2 DEF WorkerTypes
<1>4. RequestsAreFresh'
  BY <1>1, <1>2, FreshKept
<1> QED
  BY <1>1, <1>3, <1>4, QuietInv

\* A reply carries the number of the request it answers, and the sum of that
\* request's shard as long as a goroutine waits for it.
LEMMA WorkerAnswersStep ==
  ASSUME ShardInv, UNCHANGED engine, NEW w \in Slots, WorkerAnswers(w)
  PROVE  ShardInv'
<1>1. UNCHANGED <<queue, busy, job, terminal, nextRequestID, closed, sections>>
  BY DEF WorkerAnswers
<1>2. Quiet /\ AttemptsLeft' /\ \A v \in Slots : \A s : At(v, s)' <=> At(v, s)
  BY <1>1, WorkersAlone
<1>3. PICK r \in working[w] :
        /\ working' = [working EXCEPT ![w] = @ \ {r}]
        /\ \E kind \in {"partial", "fetch", "fatal"} :
           \E sum \in {Ranges[r.handle][r.index]} \cup (IF r.intact THEN {} ELSE {{}}) :
                Deliver(w, [kind |-> kind, id |-> r.id,
                            part |-> IF kind = "partial" THEN <<r.handle, sum>> ELSE None])
  BY DEF WorkerAnswers
<1>4. PICK kind \in {"partial", "fetch", "fatal"},
           sum \in {Ranges[r.handle][r.index]} \cup (IF r.intact THEN {} ELSE {{}}) :
        Deliver(w, [kind |-> kind, id |-> r.id,
                    part |-> IF kind = "partial" THEN <<r.handle, sum>> ELSE None])
  BY <1>3
<1> DEFINE reply == [kind |-> kind, id |-> r.id,
                     part |-> IF kind = "partial" THEN <<r.handle, sum>> ELSE None]
<1>5. WorkerTypes /\ SchedulerTypes /\ RequestsAreFresh /\ Ranges' = Ranges
  BY TypeParts, EngineFixed DEF ShardInv
<1>6. /\ r \in [id : 1 .. nextRequestID, handle : Handles, index : Nat, intact : BOOLEAN]
      /\ r.index \in 1 .. Len(Ranges[r.handle])
  BY <1>5 DEF WorkerTypes
<1>7. sum \in SUBSET Nat
  <2>1. engine \in Engines /\ r.handle \in Handles
    BY <1>5, <1>6 DEF SchedulerTypes
  <2>2. Ranges[r.handle][r.index] \in SUBSET Nat
    BY <1>6, <2>1, ShardSum
  <2> QED
    BY <2>2
<1>8. reply \in [kind : {"partial", "fetch", "fatal", "lost"},
                  id : 0 .. nextRequestID, part : Sum \cup {None}]
  <2>1. r.id \in 0 .. nextRequestID
    BY <1>5, <1>6 DEF SchedulerTypes
  <2>2. <<r.handle, sum>> \in Sum
    <3>1. r.handle \in Handles
      BY <1>6
    <3> QED
      BY <1>7, <3>1 DEF Sum
  <2> QED
    BY <2>1, <2>2
<1>9. /\ \A v \in Slots : v # w => working'[v] = working[v] /\ replies'[v] = replies[v]
      /\ working'[w] = working[w] \ {r}
      /\ replies'[w] = IF replies[w] = None THEN reply ELSE replies[w]
      /\ replies' \in [Slots -> [kind : {"partial", "fetch", "fatal", "lost"},
                                  id : 0 .. nextRequestID, part : Sum \cup {None}] \cup {None}]
  <2> HIDE DEF reply
  <2>1. replies' = IF replies[w] = None THEN [replies EXCEPT ![w] = reply] ELSE replies
    BY <1>4 DEF Deliver, reply
  <2> QED
    BY <1>3, <1>5, <1>8, <2>1 DEF WorkerTypes
<1>10. WorkerTypes'
  <2>1. working' \in [Slots -> SUBSET [id : 1 .. nextRequestID, handle : Handles,
                                        index : Nat, intact : BOOLEAN]]
    BY <1>3, <1>5 DEF WorkerTypes
  <2>2. \A v \in Slots : \A q \in working'[v] : q.index \in 1 .. Len(Ranges[q.handle])
    BY <1>5, <1>9 DEF WorkerTypes
  <2> HIDE DEF reply
  <2> QED
    BY <1>1, <1>5, <1>9, <2>1, <2>2 DEF WorkerTypes
<1>11. reply.id = r.id /\ reply.kind = kind /\ (kind = "partial" => reply.part = <<r.handle, sum>>)
  OBVIOUS
<1> HIDE DEF reply
<1>12. \A v \in Slots : \A id : Unused(v, id) => Unused(v, id)'
  BY <1>9, <1>11 DEF Unused
<1>13. RequestsAreFresh'
  <2>1. \A t \in queue' : \A v \in Slots : Unused(v, t.id)'
    BY <1>1, <1>5, <1>12 DEF RequestsAreFresh
  <2>2. ASSUME NEW v \in Slots, At(v, "run")' \/ At(v, "backoff")'
        PROVE  Unused(v, job[v].task.id)'
    <3>1. Unused(v, job[v].task.id)
      BY <1>2, <1>5, <2>2 DEF RequestsAreFresh
    <3> QED
      BY <1>1, <1>9, <1>11, <3>1 DEF Unused
  <2>3. ASSUME NEW v \in Slots, At(v, "wait")'
        PROVE  /\ \A q \in working'[v] : q.id = job'[v].task.id => SameShard(q, job'[v].task) /\ q.intact
               /\ replies'[v] # None /\ replies'[v].id = job'[v].task.id /\ replies'[v].kind = "partial" =>
                    replies'[v].part =
                      <<job'[v].task.handle, Ranges'[job'[v].task.handle][job'[v].task.index]>>
    <3>1. At(v, "wait") /\ job' = job
      BY <1>1, <1>2, <2>3
    <3>2. \A q \in working[v] : q.id = job[v].task.id => SameShard(q, job[v].task) /\ q.intact
      BY <1>5, <3>1 DEF RequestsAreFresh
    <3>3. CASE v = w /\ replies[w] = None
      <4>1. r.id = job[v].task.id => r.handle = job[v].task.handle /\ r.index = job[v].task.index /\ r.intact
        BY <3>2, <3>3 DEF SameShard
      <4>2. r.intact => sum = Ranges[r.handle][r.index]
        BY <1>4
      <4> QED
        BY <1>5, <1>9, <1>11, <3>1, <3>2, <3>3, <4>1, <4>2
    <3>4. CASE ~(v = w /\ replies[w] = None)
      <4>1. replies'[v] = replies[v] /\ working'[v] \subseteq working[v]
        BY <1>9, <3>4
      <4> QED
        BY <1>5, <3>1, <3>2, <4>1 DEF RequestsAreFresh
    <3> QED
      BY <3>3, <3>4
  <2> QED
    BY <2>1, <2>2, <2>3 DEF RequestsAreFresh, SameShard
<1> QED
  BY <1>2, <1>10, <1>13, QuietInv

\* A reply that names no request is nobody's partial sum.
LEMMA WorkerErrorsStep ==
  ASSUME ShardInv, UNCHANGED engine, NEW w \in Slots, WorkerErrors(w)
  PROVE  ShardInv'
<1> DEFINE reply == [kind |-> "lost", id |-> 0, part |-> None]
<1>1. UNCHANGED <<queue, busy, job, terminal, nextRequestID, closed, working, sections>>
  BY DEF WorkerErrors
<1>2. Quiet /\ AttemptsLeft' /\ \A v \in Slots : \A s : At(v, s)' <=> At(v, s)
  BY <1>1, WorkersAlone
<1>3. WorkerTypes /\ SchedulerTypes /\ RequestsAreFresh /\ Ranges' = Ranges
  BY TypeParts, EngineFixed DEF ShardInv
<1>4. replies' = [replies EXCEPT ![w] = reply]
  BY DEF WorkerErrors, Deliver
<1>5. reply \in [kind : {"partial", "fetch", "fatal", "lost"},
                  id : 0 .. nextRequestID, part : Sum \cup {None}]
      /\ reply.id = 0 /\ reply.kind = "lost"
  BY <1>3 DEF SchedulerTypes
<1> HIDE DEF reply
<1>6. WorkerTypes'
  BY <1>1, <1>3, <1>4, <1>5 DEF WorkerTypes
<1>7. replies'[w] = reply /\ \A v \in Slots : v # w => replies'[v] = replies[v]
  BY <1>3, <1>4 DEF WorkerTypes
<1>8. RequestsAreFresh'
  <2>1. \A t \in queue : t.id # 0
    BY <1>3 DEF SchedulerTypes, ValidTask
  <2>2. \A t \in queue' : \A v \in Slots : Unused(v, t.id)'
    BY <1>1, <1>3, <1>5, <1>7, <2>1 DEF RequestsAreFresh, Unused
  <2>3. ASSUME NEW v \in Slots, At(v, "run")' \/ At(v, "backoff")'
        PROVE  Unused(v, job[v].task.id)'
    <3>1. Unused(v, job[v].task.id) /\ job[v] # None
      BY <1>2, <1>3, <2>3 DEF RequestsAreFresh, At
    <3>2. job[v].task.id # 0
      BY <3>1, GoroutineTypes
    <3> QED
      BY <1>1, <1>5, <1>7, <3>1, <3>2 DEF Unused
  <2>4. ASSUME NEW v \in Slots, At(v, "wait")'
        PROVE  /\ \A q \in working'[v] : q.id = job'[v].task.id => SameShard(q, job'[v].task) /\ q.intact
               /\ replies'[v] # None /\ replies'[v].id = job'[v].task.id /\ replies'[v].kind = "partial" =>
                    replies'[v].part =
                      <<job'[v].task.handle, Ranges'[job'[v].task.handle][job'[v].task.index]>>
    <3>1. At(v, "wait") /\ job' = job /\ working' = working
      BY <1>1, <1>2, <2>4
    <3> QED
      BY <1>3, <1>5, <1>7, <3>1 DEF RequestsAreFresh
  <2> QED
    BY <2>2, <2>3, <2>4 DEF RequestsAreFresh, SameShard
<1> QED
  BY <1>2, <1>6, <1>8, QuietInv

\* A refused section is as little live as a new one.
LEMMA RefuseStep ==
  ASSUME ShardInv, UNCHANGED engine, NEW h \in Handles, outcome[h] = "new", Refuse(h)
  PROVE  ShardInv'
<1>1. SchedulerTypes /\ nextRequestID \in Nat
  BY TypeParts DEF ShardInv, SchedulerTypes
<1>2. UNCHANGED <<queue, busy, job, terminal, nextRequestID, pool, handles, pending, parts, result, freed>>
      /\ outcome' = [outcome EXCEPT ![h] = "refused"]
  BY DEF Refuse
<1>3. Quiet
  BY <1>1, <1>2 DEF Quiet, SchedulerTypes
<1>4. WorkerTypes'
  BY <1>1, <1>2, WorkersUnchanged DEF pool
<1>5. \A w \in Slots : \A s : At(w, s)' <=> At(w, s)
  BY <1>2 DEF At
<1>6. AttemptsLeft'
  BY <1>2, <1>5, EngineFixed DEF ShardInv, AttemptsLeft
<1>7. RequestsAreFresh'
  BY <1>2, <1>5, FreshKept DEF pool
<1> QED
  BY <1>3, <1>4, <1>6, <1>7, QuietInv

\* What is said of tasks, requests and the queue survives a step that only moves
\* goroutines past their sum.
LEMMA SummedSteps ==
  ASSUME ShardInv, UNCHANGED <<engine, queue, busy, terminal, nextRequestID, pool>>,
         job' \in [Slots -> Goroutines \cup {None}],
         \A v \in Slots : \/ job'[v] = job[v]
                          \/ /\ job[v] # None /\ job'[v] # None /\ job'[v].task = job[v].task
                             /\ job'[v].stage \in {"count", "settle", "free"}
  PROVE  /\ WorkerTypes' /\ RequestsAreFresh' /\ AttemptsLeft' /\ QueueBounded' /\ HeldOnce'
         /\ IsFiniteSet(queue') /\ \A t \in queue' : ValidTask(t)'
         /\ \A v \in Slots : job'[v] # None => ValidTask(job[v].task)'
<1>1. SchedulerTypes /\ nextRequestID \in Nat /\ Ranges' = Ranges /\ MaxAttempts' = MaxAttempts
      /\ asyncQueueCapacity' = asyncQueueCapacity
  BY TypeParts, EngineFixed DEF ShardInv, SchedulerTypes
<1>2. WorkerTypes'
  BY <1>1, WorkersUnchanged DEF pool
<1>3. \A v \in Slots : \A s \in Stages \ {"count", "settle", "free"} : At(v, s)' => At(v, s) /\ job'[v] = job[v]
  BY DEF At
<1>4. RequestsAreFresh'
  <2>1. \A v \in Slots : working'[v] = working[v] /\ replies'[v] = replies[v]
    BY DEF pool
  <2>2. \A v \in Slots : At(v, "run")' \/ At(v, "backoff")' =>
          (At(v, "run") \/ At(v, "backoff")) /\ job'[v].task.id = job[v].task.id
    BY <1>3 DEF Stages
  <2>3. \A v \in Slots : At(v, "wait")' => job'[v] = job[v]
    BY <1>3 DEF Stages
  <2> QED
    BY <2>1, <2>2, <2>3, FreshKept
<1>5. AttemptsLeft'
  BY <1>1, <1>3 DEF ShardInv, AttemptsLeft, Stages
<1>6. QueueBounded'
  BY <1>1 DEF ShardInv, QueueBounded, inFlight
<1>7. \A v \in Slots : Owes(v)' => Owes(v) /\ job'[v] = job[v]
  BY DEF Owes
<1>8. HeldOnce'
  BY <1>7 DEF ShardInv, HeldOnce
<1>9. IsFiniteSet(queue') /\ \A t \in queue' : ValidTask(t)'
  BY <1>1 DEF SchedulerTypes, ValidTask
<1>10. \A v \in Slots : job'[v] # None => ValidTask(job[v].task)'
  BY <1>1 DEF SchedulerTypes, ValidTask
<1> QED
  BY <1>2, <1>4, <1>5, <1>6, <1>8, <1>9, <1>10

\* The sets that pending counts are finite.
LEMMA CountedSets ==
  ASSUME engine \in Engines, NEW h \in Handles
  PROVE  /\ IsFiniteSet(Missing(h)) /\ Cardinality(Missing(h)) \in Nat
         /\ IsFiniteSet(Counting(h)) /\ Cardinality(Counting(h)) \in Nat
<1>1. Len(Ranges[h]) \in Nat
  BY EngineFacts
<1>2. IsFiniteSet(1 .. Len(Ranges[h])) /\ Missing(h) \subseteq 1 .. Len(Ranges[h])
  BY <1>1, FS_Interval DEF Missing
<1>3. IsFiniteSet(Missing(h))
  BY <1>2, FS_Subset
<1>4. Counting(h) \in SUBSET Slots
  BY DEF Counting
<1> QED
  BY <1>3, <1>4, SlotsFinite, FS_CardinalityType

\* A goroutine that has stored its sum goes on, with its task.
LEMMA GotoStage ==
  ASSUME ShardInv, NEW w \in Slots, job[w] # None, NEW stage \in {"count", "settle", "free"},
         Goto(w, stage)
  PROVE  /\ job' \in [Slots -> Goroutines \cup {None}] /\ job'[w] # None
         /\ job'[w].task = job[w].task /\ job'[w].stage = stage
         /\ \A v \in Slots : v # w => job'[v] = job[v]
         /\ \A v \in Slots : \/ job'[v] = job[v]
                             \/ /\ job[v] # None /\ job'[v] # None /\ job'[v].task = job[v].task
                                /\ job'[v].stage \in {"count", "settle", "free"}
<1> DEFINE g == [job[w] EXCEPT !.stage = stage]
<1>1. job[w] \in Goroutines /\ job \in [Slots -> Goroutines \cup {None}]
  BY GoroutineTypes DEF ShardInv, TypeOK
<1>2. g \in Goroutines /\ g.task = job[w].task /\ g.stage = stage
  BY <1>1 DEF Goroutines, Stages
<1>3. job' = [job EXCEPT ![w] = g]
  BY <1>1 DEF Goto
<1> HIDE DEF g
<1>4. /\ job' \in [Slots -> Goroutines \cup {None}] /\ job'[w] = g
      /\ \A v \in Slots : v # w => job'[v] = job[v]
  BY <1>1, <1>2, <1>3
<1>5. g # None
  BY <1>2, NoneAssumption
<1> QED
  BY <1>2, <1>4, <1>5

\* The shard a goroutine has summed goes from the missing to the counted ones.
LEMMA StoreStep ==
  ASSUME ShardInv, UNCHANGED engine, NEW w \in Slots, Store(w)
  PROVE  ShardInv'
<1> DEFINE t == job[w].task
           h == t.handle
           i == t.index
<1>1. /\ At(w, "store") /\ parts' = [parts EXCEPT ![h][i] = job[w].part] /\ Goto(w, "count")
      /\ UNCHANGED <<queue, busy, terminal, nextRequestID, pool,
                     handles, outcome, pending, result, freed>>
  BY DEF Store
<1>2. Owes(w) /\ job[w] # None /\ job[w].stage = "store"
  BY <1>1 DEF At, Owes
<1>3. job[w] \in Goroutines /\ t \in Task /\ h \in Handles /\ i \in 1 .. Len(Ranges[h])
  BY <1>2, GoroutineTypes
<1>4. /\ SchedulerTypes /\ HeldOnce /\ NotSummedTwice /\ PendingIsExact /\ SumsAreRight /\ NoShardLost
      /\ Ranges' = Ranges
  BY TypeParts, EngineFixed DEF ShardInv
<1>5. Live(h) /\ parts[h][i] = None /\ parts[h] \in [1 .. Len(Ranges[h]) -> Sum \cup {None}]
  BY <1>2, <1>3, <1>4 DEF NotSummedTwice, PendingIsExact
<1>6. job[w].part = <<h, Ranges[h][i]>> /\ job[w].part # None /\ job[w].part \in Sum
  <2>1. job[w].part = <<h, Ranges[h][i]>>
    BY <1>1, <1>4 DEF SumsAreRight
  <2>2. engine \in Engines
    BY <1>4 DEF SchedulerTypes
  <2> QED
    BY <1>3, <2>1, <2>2, ShardSum
<1>7. /\ job' \in [Slots -> Goroutines \cup {None}] /\ job'[w] # None
      /\ job'[w].task = t /\ job'[w].stage = "count"
      /\ \A v \in Slots : v # w => job'[v] = job[v]
  BY <1>1, <1>2, GotoStage
<1>8. /\ WorkerTypes' /\ RequestsAreFresh' /\ AttemptsLeft' /\ QueueBounded' /\ HeldOnce'
      /\ IsFiniteSet(queue') /\ \A u \in queue' : ValidTask(u)'
      /\ \A v \in Slots : job'[v] # None => ValidTask(job[v].task)'
  <2>1. \A v \in Slots : \/ job'[v] = job[v]
                          \/ /\ job[v] # None /\ job'[v] # None /\ job'[v].task = job[v].task
                             /\ job'[v].stage \in {"count", "settle", "free"}
    BY <1>2, <1>7
  <2> QED
    BY <1>1, <1>7, <2>1, SummedSteps
<1> HIDE DEF t, h, i
<1>9. /\ PerSection(parts)' /\ parts'[h] \in [1 .. Len(Ranges[h]) -> Sum \cup {None}]
      /\ parts'[h][i] = <<h, Ranges[h][i]>>
      /\ \A k \in 1 .. Len(Ranges[h]) : k # i => parts'[h][k] = parts[h][k]
      /\ \A g \in Handles : g # h => parts'[g] = parts[g]
  <2> DEFINE p == [parts[h] EXCEPT ![i] = job[w].part]
  <2>1. parts' = [parts EXCEPT ![h] = p] /\ parts = [g \in Handles |-> parts[g]]
    BY <1>1, <1>4 DEF SchedulerTypes, PerSection
  <2>2. /\ p \in [1 .. Len(Ranges[h]) -> Sum \cup {None}] /\ p[i] = <<h, Ranges[h][i]>>
        /\ \A k \in 1 .. Len(Ranges[h]) : k # i => p[k] = parts[h][k]
    BY <1>3, <1>5, <1>6
  <2> HIDE DEF p
  <2>3. /\ parts' = [g \in Handles |-> IF g = h THEN p ELSE parts[g]]
        /\ parts'[h] = p /\ \A g \in Handles : g # h => parts'[g] = parts[g]
    BY <1>3, <2>1
  <2>4. PerSection(parts)'
    BY <2>3 DEF PerSection
  <2> QED
    BY <2>2, <2>3, <2>4
<1>10. SchedulerTypes'
  <2>1. PerSection(result)'
    BY <1>1, <1>4 DEF SchedulerTypes, PerSection
  <2>2. \A g \in Handles : pending'[g] \in 0 .. Len(Ranges'[g])
    BY <1>1, <1>4 DEF SchedulerTypes
  <2> QED
    BY <1>1, <1>4, <1>7, <1>8, <1>9, <2>1, <2>2 DEF SchedulerTypes
<1>11. \A g \in Handles : Live(g)' <=> Live(g)
  BY <1>1 DEF Live
<1>12. ASSUME NEW u \in Task, u.index \in 1 .. Len(Ranges[u.handle]), ~SameShard(u, t)
       PROVE  parts'[u.handle][u.index] = parts[u.handle][u.index]
  <2>1. u.handle \in Handles
    BY DEF Task
  <2>2. CASE u.handle = h
    BY <1>9, <1>12, <2>2 DEF SameShard, h, i
  <2>3. CASE u.handle # h
    BY <1>9, <2>1, <2>3
  <2> QED
    BY <2>2, <2>3
<1>13. NotSummedTwice'
  <2>1. ASSUME NEW u \in queue'
        PROVE  Live(u.handle)' /\ parts'[u.handle][u.index] = None
    <3>1. u \in queue /\ u \in Task /\ u.index \in 1 .. Len(Ranges[u.handle]) /\ u.handle \in Handles
      BY <1>1, <1>4 DEF SchedulerTypes, ValidTask, Task
    <3>2. ~SameShard(u, t) /\ Live(u.handle) /\ parts[u.handle][u.index] = None
      BY <1>2, <1>4, <3>1 DEF HeldOnce, NotSummedTwice, t
    <3> QED
      BY <1>11, <1>12, <3>1, <3>2
  <2>2. ASSUME NEW v \in Slots, Owes(v)'
        PROVE  Live(job[v].task.handle)' /\ parts'[job'[v].task.handle][job'[v].task.index] = None
    <3>1. v # w /\ job'[v] = job[v] /\ Owes(v)
      BY <1>7, <2>2 DEF Owes
    <3>2. /\ job[v].task \in Task /\ job[v].task.handle \in Handles
          /\ job[v].task.index \in 1 .. Len(Ranges[job[v].task.handle])
      BY <3>1, GoroutineTypes DEF Owes
    <3>3. /\ ~SameShard(job[v].task, t) /\ Live(job[v].task.handle)
          /\ parts[job[v].task.handle][job[v].task.index] = None
      BY <1>2, <1>4, <3>1 DEF HeldOnce, NotSummedTwice, t
    <3>4. parts'[job[v].task.handle][job[v].task.index] = None
      BY <1>12, <3>2, <3>3
    <3> QED
      BY <1>1, <3>1, <3>3, <3>4 DEF Live
  <2>3. ASSUME NEW v \in Slots, At(v, "count")'
        PROVE  Live(job[v].task.handle)'
    <3>1. CASE v = w
      BY <1>1, <1>5, <1>7, <3>1 DEF Live, h
    <3>2. CASE v # w
      BY <1>1, <1>4, <1>7, <2>3, <3>2 DEF NotSummedTwice, At, Live
    <3> QED
      BY <3>1, <3>2
  <2>4. \A v \in Slots : At(v, "settle")' =>
          pending'[job'[v].task.handle] = 0 /\ outcome'[job'[v].task.handle] \notin {"new", "refused"}
    BY <1>1, <1>4, <1>7 DEF NotSummedTwice, At
  <2> QED
    BY <2>1, <2>2, <2>3, <2>4 DEF NotSummedTwice
<1>14. ASSUME NEW g \in Handles, Live(g)
       PROVE  pending'[g] = Cardinality(Missing(g)') + Cardinality(Counting(g)')
  <2>1. pending[g] = Cardinality(Missing(g)) + Cardinality(Counting(g)) /\ engine \in Engines
    BY <1>4, <1>14 DEF PendingIsExact, SchedulerTypes
  <2>2. /\ IsFiniteSet(Missing(g)) /\ Cardinality(Missing(g)) \in Nat
        /\ IsFiniteSet(Counting(g)) /\ Cardinality(Counting(g)) \in Nat
    BY <2>1, CountedSets
  <2>3. CASE g = h
    <3>1. Missing(g)' = Missing(g) \ {i} /\ i \in Missing(g)
      <4>1. i \in Missing(g)
        BY <1>3, <1>5, <2>3 DEF Missing, i
      <4>2. \A k \in 1 .. Len(Ranges[h]) : parts'[h][k] = None <=> k # i /\ parts[h][k] = None
        BY <1>6, <1>9
      <4> QED
        BY <1>4, <2>3, <4>1, <4>2 DEF Missing
    <3>2. Counting(g)' = Counting(g) \cup {w} /\ w \notin Counting(g)
      BY <1>2, <1>7, <2>3 DEF Counting, At, h
    <3>3. Cardinality(Missing(g) \ {i}) = Cardinality(Missing(g)) - 1
      BY <2>2, <3>1, FS_RemoveElement
    <3>4. Cardinality(Counting(g) \cup {w}) = Cardinality(Counting(g)) + 1
      BY <2>2, <3>2, FS_AddElement
    <3>5. Cardinality(Missing(g)') = Cardinality(Missing(g)) - 1
          /\ Cardinality(Counting(g)') = Cardinality(Counting(g)) + 1
      BY <3>1, <3>2, <3>3, <3>4
    <3> QED
      BY <1>1, <2>1, <2>2, <3>5
  <2>4. CASE g # h
    <3>1. Missing(g)' = Missing(g) /\ Counting(g)' = Counting(g)
      BY <1>2, <1>4, <1>7, <1>9, <2>4 DEF Missing, Counting, At, h
    <3> QED
      BY <1>1, <2>1, <3>1
  <2> QED
    BY <2>3, <2>4
<1>15. PendingIsExact'
  <2> SUFFICES ASSUME NEW g \in Handles
               PROVE  /\ IF Live(g)'
                         THEN /\ parts'[g] \in [1 .. Len(Ranges'[g]) -> Sum \cup {None}]
                              /\ pending'[g] = Cardinality(Missing(g)') + Cardinality(Counting(g)')
                         ELSE pending'[g] = 0
                      /\ outcome'[g] = "ok" => pending'[g] = 0
                      /\ freed'[g] => outcome'[g] = "ok"
    BY DEF PendingIsExact
  <2>1. Live(g)' => parts'[g] \in [1 .. Len(Ranges'[g]) -> Sum \cup {None}]
    BY <1>4, <1>9, <1>11 DEF PendingIsExact
  <2>2. Live(g)' => pending'[g] = Cardinality(Missing(g)') + Cardinality(Counting(g)')
    BY <1>11, <1>14
  <2> QED
    BY <1>1, <1>4, <1>11, <2>1, <2>2 DEF PendingIsExact
<1>16. SumsAreRight'
  <2>1. \A g \in Handles : Live(g)' =>
            \A k \in 1 .. Len(Ranges'[g]) : parts'[g][k] \in {None, <<g, Ranges'[g][k]>>}
    <3> SUFFICES ASSUME NEW g \in Handles, Live(g), NEW k \in 1 .. Len(Ranges[g])
                 PROVE  parts'[g][k] \in {None, <<g, Ranges[g][k]>>}
      BY <1>4, <1>11
    <3>1. parts[g][k] \in {None, <<g, Ranges[g][k]>>}
      BY <1>4 DEF SumsAreRight
    <3> QED
      BY <1>9, <3>1
  <2>2. \A g \in Handles : result'[g] # None =>
            result'[g] = [k \in 1 .. Len(Ranges'[g]) |-> <<g, Ranges'[g][k]>>]
    BY <1>1, <1>4 DEF SumsAreRight
  <2>3. \A v \in Slots : At(v, "store")' =>
          job'[v].part = <<job'[v].task.handle, Ranges'[job'[v].task.handle][job'[v].task.index]>>
    BY <1>4, <1>7 DEF SumsAreRight, At
  <2> QED
    BY <2>1, <2>2, <2>3 DEF SumsAreRight
<1>17. NoShardLost'
  <2>1. \A g : Uncounted(g, job') = Uncounted(g, job)
    BY <1>2, <1>7 DEF Uncounted, t
  <2>2. \A v \in Slots : job'[v] # None <=> job[v] # None
    BY <1>2, <1>7
  <2> QED
    BY <1>1, <1>4, <2>1, <2>2 DEF NoShardLost, Uncounted
<1> QED
  BY <1>8, <1>10, <1>13, <1>15, <1>16, <1>17, TypePartsNext DEF ShardInv

\* A shard is counted once: it leaves what pending counts, and only the last
\* one of its section settles it.
LEMMA CountStep ==
  ASSUME ShardInv, UNCHANGED engine, NEW w \in Slots, Count(w)
  PROVE  ShardInv'
<1> DEFINE t == job[w].task
           h == t.handle
           stage == IF pending[h] = 1 THEN "settle" ELSE "free"
<1>1. /\ At(w, "count") /\ pending' = [pending EXCEPT ![h] = pending[h] - 1] /\ Goto(w, stage)
      /\ UNCHANGED <<queue, busy, terminal, nextRequestID, pool,
                     handles, outcome, parts, result, freed>>
  BY DEF Count
<1>2. job[w] # None /\ job[w].stage = "count"
  BY <1>1 DEF At
<1>3. h \in Handles
  BY <1>2, GoroutineTypes
<1>4. /\ SchedulerTypes /\ NotSummedTwice /\ PendingIsExact /\ SumsAreRight /\ NoShardLost
      /\ Ranges' = Ranges
  BY TypeParts, EngineFixed DEF ShardInv
<1>5. stage \in {"count", "settle", "free"} /\ stage # "count" /\ (stage = "settle" <=> pending[h] = 1)
  OBVIOUS
<1> HIDE DEF stage
<1>6. /\ job' \in [Slots -> Goroutines \cup {None}] /\ job'[w] # None
      /\ job'[w].task = t /\ job'[w].stage = stage
      /\ \A v \in Slots : v # w => job'[v] = job[v]
      /\ \A v \in Slots : \/ job'[v] = job[v]
                          \/ /\ job[v] # None /\ job'[v] # None /\ job'[v].task = job[v].task
                             /\ job'[v].stage \in {"count", "settle", "free"}
  BY <1>1, <1>2, <1>5, GotoStage
<1>7. /\ WorkerTypes' /\ RequestsAreFresh' /\ AttemptsLeft' /\ QueueBounded' /\ HeldOnce'
      /\ IsFiniteSet(queue') /\ \A u \in queue' : ValidTask(u)'
      /\ \A v \in Slots : job'[v] # None => ValidTask(job[v].task)'
  BY <1>1, <1>6, SummedSteps
<1> HIDE DEF h
<1>8. /\ Live(h) /\ pending[h] = Cardinality(Missing(h)) + Cardinality(Counting(h))
      /\ IsFiniteSet(Counting(h)) /\ Cardinality(Counting(h)) \in Nat /\ Cardinality(Missing(h)) \in Nat
      /\ w \in Counting(h)
  <2>1. Live(h) /\ engine \in Engines
    BY <1>1, <1>4 DEF NotSummedTwice, SchedulerTypes, h
  <2>2. w \in Counting(h)
    BY <1>1 DEF Counting, h
  <2> QED
    BY <1>3, <1>4, <2>1, <2>2, CountedSets DEF PendingIsExact
<1>9. Cardinality(Counting(h) \ {w}) = Cardinality(Counting(h)) - 1
      /\ Cardinality(Counting(h) \ {w}) \in Nat
  <2>1. IsFiniteSet(Counting(h) \ {w})
    BY <1>8, FS_RemoveElement
  <2> QED
    BY <1>8, <2>1, FS_RemoveElement, FS_CardinalityType
<1>10. pending[h] \in Nat \ {0} /\ outcome[h] # "ok"
  BY <1>3, <1>4, <1>8, <1>9 DEF PendingIsExact
<1>11. /\ pending' \in [Handles -> Nat] /\ pending'[h] = pending[h] - 1
       /\ \A g \in Handles : g # h => pending'[g] = pending[g]
  BY <1>1, <1>3, <1>4, <1>10 DEF SchedulerTypes
<1>12. SchedulerTypes'
  <2>1. PerSection(result)' /\ PerSection(parts)'
    BY <1>1, <1>4 DEF SchedulerTypes, PerSection
  <2>2. \A g \in Handles : pending'[g] \in 0 .. Len(Ranges'[g])
    <3>1. \A g \in Handles : pending[g] \in 0 .. Len(Ranges[g]) /\ Len(Ranges[g]) \in Nat
      BY <1>4, EngineFacts DEF SchedulerTypes
    <3> QED
      BY <1>4, <1>10, <1>11, <3>1, SMTT(60)
  <2> QED
    BY <1>1, <1>4, <1>6, <1>7, <1>11, <2>1, <2>2 DEF SchedulerTypes
<1>13. \A g \in Handles : Live(g)' <=> Live(g)
  BY <1>1 DEF Live
<1>14. \A v \in Slots : Owes(v)' => Owes(v) /\ job'[v] = job[v]
  BY <1>5, <1>6 DEF Owes
<1>15. NotSummedTwice'
  <2>1. \A u \in queue' : Live(u.handle)' /\ parts'[u.handle][u.index] = None
    BY <1>1, <1>4 DEF NotSummedTwice, Live
  <2>2. \A v \in Slots : Owes(v)' =>
          Live(job[v].task.handle)' /\ parts'[job'[v].task.handle][job'[v].task.index] = None
    BY <1>1, <1>4, <1>14 DEF NotSummedTwice, Live
  <2>3. \A v \in Slots : At(v, "count")' => Live(job[v].task.handle)'
    BY <1>1, <1>4, <1>5, <1>6 DEF NotSummedTwice, At, Live
  <2>4. ASSUME NEW v \in Slots, At(v, "settle")'
        PROVE  pending'[job'[v].task.handle] = 0 /\ outcome'[job'[v].task.handle] \notin {"new", "refused"}
    <3>1. CASE v = w
      <4>1. pending[h] = 1 /\ job'[v].task.handle = h
        BY <1>5, <1>6, <2>4, <3>1 DEF At, h
      <4> QED
        BY <1>1, <1>8, <1>11, <4>1 DEF Live
    <3>2. CASE v # w
      <4> DEFINE k == job[v].task.handle
      <4>1. job'[v] = job[v] /\ At(v, "settle") /\ job[v] # None
        BY <1>6, <2>4, <3>2 DEF At
      <4>2. pending[k] = 0 /\ outcome[k] \notin {"new", "refused"} /\ k \in Handles
        BY <1>4, <4>1, GoroutineTypes DEF NotSummedTwice
      <4>3. k # h
        BY <1>10, <4>2
      <4> QED
        BY <1>1, <1>11, <4>1, <4>2, <4>3
    <3> QED
      BY <3>1, <3>2
  <2> QED
    BY <2>1, <2>2, <2>3, <2>4 DEF NotSummedTwice
<1>16. ASSUME NEW g \in Handles, Live(g)
       PROVE  pending'[g] = Cardinality(Missing(g)') + Cardinality(Counting(g)')
  <2>1. Missing(g)' = Missing(g)
    BY <1>1, <1>4 DEF Missing
  <2>2. pending[g] = Cardinality(Missing(g)) + Cardinality(Counting(g))
    BY <1>4, <1>16 DEF PendingIsExact
  <2>3. CASE g = h
    <3>1. Counting(g)' = Counting(g) \ {w}
      BY <1>5, <1>6, <2>3 DEF Counting, At
    <3>2. Cardinality(Counting(g)') = Cardinality(Counting(g)) - 1
      BY <1>9, <2>3, <3>1
    <3> QED
      BY <1>8, <1>11, <2>1, <2>2, <2>3, <3>2
  <2>4. CASE g # h
    <3>1. Counting(g)' = Counting(g)
      BY <1>2, <1>5, <1>6, <2>4 DEF Counting, At, h
    <3> QED
      BY <1>11, <2>1, <2>2, <2>4, <3>1
  <2> QED
    BY <2>3, <2>4
<1>17. PendingIsExact'
  <2> SUFFICES ASSUME NEW g \in Handles
               PROVE  /\ IF Live(g)'
                         THEN /\ parts'[g] \in [1 .. Len(Ranges'[g]) -> Sum \cup {None}]
                              /\ pending'[g] = Cardinality(Missing(g)') + Cardinality(Counting(g)')
                         ELSE pending'[g] = 0
                      /\ outcome'[g] = "ok" => pending'[g] = 0
                      /\ freed'[g] => outcome'[g] = "ok"
    BY DEF PendingIsExact
  <2>1. Live(g)' => pending'[g] = Cardinality(Missing(g)') + Cardinality(Counting(g)')
    BY <1>13, <1>16
  <2>2. outcome'[g] = "ok" => pending'[g] = 0
    BY <1>1, <1>4, <1>10, <1>11 DEF PendingIsExact
  <2>3. ~Live(g)' => pending'[g] = 0
    BY <1>4, <1>8, <1>11, <1>13 DEF PendingIsExact
  <2> QED
    BY <1>1, <1>4, <1>13, <2>1, <2>2, <2>3 DEF PendingIsExact
<1>18. SumsAreRight'
  <2>1. \A g \in Handles : Live(g)' =>
            \A k \in 1 .. Len(Ranges'[g]) : parts'[g][k] \in {None, <<g, Ranges'[g][k]>>}
    BY <1>1, <1>4, <1>13 DEF SumsAreRight
  <2>2. \A g \in Handles : result'[g] # None =>
            result'[g] = [k \in 1 .. Len(Ranges'[g]) |-> <<g, Ranges'[g][k]>>]
    BY <1>1, <1>4 DEF SumsAreRight
  <2>3. \A v \in Slots : At(v, "store")' =>
          job'[v].part = <<job'[v].task.handle, Ranges'[job'[v].task.handle][job'[v].task.index]>>
    BY <1>4, <1>5, <1>6 DEF SumsAreRight, At
  <2> QED
    BY <2>1, <2>2, <2>3 DEF SumsAreRight
<1>19. NoShardLost'
  <2> SUFFICES ASSUME ~terminal
               PROVE  /\ \A v \in Slots : busy[v] <=> job'[v] # None
                      /\ \A g \in Handles : pending'[g] =
                           Cardinality({u \in queue : u.handle = g}) + Cardinality(Uncounted(g, job'))
    BY <1>1 DEF NoShardLost, Uncounted
  <2>1. \A v \in Slots : busy[v] <=> job'[v] # None
    BY <1>2, <1>4, <1>6 DEF NoShardLost
  <2>2. ASSUME NEW g \in Handles
        PROVE  pending'[g] = Cardinality({u \in queue : u.handle = g}) + Cardinality(Uncounted(g, job'))
    <3>1. pending[g] = Cardinality({u \in queue : u.handle = g}) + Cardinality(Uncounted(g, job))
      BY <1>4 DEF NoShardLost, Uncounted
    <3>2. IsFiniteSet(Uncounted(g, job)) /\ Cardinality(Uncounted(g, job)) \in Nat
      BY SlotsFinite DEF Uncounted
    <3>3. Cardinality({u \in queue : u.handle = g}) \in Nat
      <4>1. IsFiniteSet({u \in queue : u.handle = g})
        BY <1>4, FS_Subset DEF SchedulerTypes
      <4> QED
        BY <4>1, FS_CardinalityType
    <3>4. CASE g = h
      <4>1. Uncounted(g, job') = Uncounted(g, job) \ {w} /\ w \in Uncounted(g, job)
        BY <1>2, <1>5, <1>6, <3>4 DEF Uncounted, h
      <4>2. Cardinality(Uncounted(g, job) \ {w}) = Cardinality(Uncounted(g, job)) - 1
        BY <3>2, <4>1, FS_RemoveElement
      <4>3. Cardinality(Uncounted(g, job')) = Cardinality(Uncounted(g, job)) - 1
        BY <4>1, <4>2
      <4> QED
        BY <1>11, <3>1, <3>2, <3>3, <3>4, <4>3
    <3>5. CASE g # h
      <4>1. Uncounted(g, job') = Uncounted(g, job)
        BY <1>2, <1>6, <3>5 DEF Uncounted, h
      <4> QED
        BY <1>11, <3>1, <3>5, <4>1
    <3> QED
      BY <3>4, <3>5
  <2> QED
    BY <2>1, <2>2
<1> QED
  BY <1>7, <1>12, <1>15, <1>17, <1>18, <1>19, TypePartsNext DEF ShardInv

\* The section whose last shard was counted succeeds, unless it has failed.
LEMMA SettleStep ==
  ASSUME ShardInv, UNCHANGED engine, NEW w \in Slots, Settle(w)
  PROVE  ShardInv'
<1> DEFINE h == job[w].task.handle
<1>1. /\ At(w, "settle") /\ Goto(w, "free")
      /\ outcome' = [outcome EXCEPT ![h] = Completed(outcome[h], "ok")]
      /\ UNCHANGED <<queue, busy, terminal, nextRequestID, pool,
                     handles, pending, parts, result, freed>>
  BY DEF Settle
<1>2. job[w] # None /\ job[w].stage = "settle"
  BY <1>1 DEF At
<1>3. h \in Handles
  BY <1>2, GoroutineTypes
<1>4. /\ SchedulerTypes /\ NotSummedTwice /\ PendingIsExact /\ SumsAreRight /\ NoShardLost
      /\ Ranges' = Ranges
  BY TypeParts, EngineFixed DEF ShardInv
<1>5. /\ job' \in [Slots -> Goroutines \cup {None}] /\ job'[w] # None
      /\ job'[w].task = job[w].task /\ job'[w].stage = "free"
      /\ \A v \in Slots : v # w => job'[v] = job[v]
      /\ \A v \in Slots : \/ job'[v] = job[v]
                          \/ /\ job[v] # None /\ job'[v] # None /\ job'[v].task = job[v].task
                             /\ job'[v].stage \in {"count", "settle", "free"}
  BY <1>1, <1>2, GotoStage
<1>6. /\ WorkerTypes' /\ RequestsAreFresh' /\ AttemptsLeft' /\ QueueBounded' /\ HeldOnce'
      /\ IsFiniteSet(queue') /\ \A u \in queue' : ValidTask(u)'
      /\ \A v \in Slots : job'[v] # None => ValidTask(job[v].task)'
  BY <1>1, <1>5, SummedSteps
<1>7. pending[h] = 0 /\ outcome[h] \notin {"new", "refused"}
  BY <1>1, <1>4 DEF NotSummedTwice
<1> HIDE DEF h
<1>8. /\ outcome' \in [Handles -> {"new", "open", "ok", "error", "refused"}]
      /\ \A g \in Handles : /\ outcome'[g] \in {"new", "refused"} <=> outcome[g] \in {"new", "refused"}
                            /\ outcome[g] = "ok" => outcome'[g] = "ok"
                            /\ outcome'[g] = "ok" => outcome[g] = "ok" \/ g = h
  BY <1>1, <1>3, <1>4, <1>7 DEF SchedulerTypes, Completed
<1>9. SchedulerTypes'
  <2>1. PerSection(result)' /\ PerSection(parts)'
    BY <1>1, <1>4 DEF SchedulerTypes, PerSection
  <2>2. \A g \in Handles : pending'[g] \in 0 .. Len(Ranges'[g])
    BY <1>1, <1>4 DEF SchedulerTypes
  <2> QED
    BY <1>1, <1>4, <1>5, <1>6, <1>8, <2>1, <2>2 DEF SchedulerTypes
<1>10. \A g \in Handles : Live(g)' <=> Live(g)
  BY <1>1, <1>8 DEF Live
<1>11. /\ \A v \in Slots : Owes(v)' => Owes(v) /\ job'[v] = job[v]
       /\ \A v \in Slots : At(v, "count")' <=> At(v, "count")
       /\ \A v \in Slots : At(v, "count") \/ At(v, "settle")' =>
            job'[v] = job[v] /\ (At(v, "settle")' => At(v, "settle"))
  BY <1>2, <1>5 DEF Owes, At
<1>12. \A v \in Slots : job[v] # None => job[v].task.handle \in Handles
  BY GoroutineTypes
<1>13. \A u \in queue : u.handle \in Handles
  BY <1>4 DEF SchedulerTypes, ValidTask, Task
<1>14. NotSummedTwice'
  <2>1. \A u \in queue' : Live(u.handle)' /\ parts'[u.handle][u.index] = None
    BY <1>1, <1>4, <1>10, <1>13 DEF NotSummedTwice
  <2>2. \A v \in Slots : Owes(v)' =>
          Live(job[v].task.handle)' /\ parts'[job'[v].task.handle][job'[v].task.index] = None
    BY <1>1, <1>4, <1>8, <1>11, <1>12 DEF NotSummedTwice, Live, Owes
  <2>3. \A v \in Slots : At(v, "count")' => Live(job[v].task.handle)'
    BY <1>1, <1>4, <1>8, <1>11, <1>12 DEF NotSummedTwice, At, Live
  <2>4. \A v \in Slots : At(v, "settle")' =>
          pending'[job'[v].task.handle] = 0 /\ outcome'[job'[v].task.handle] \notin {"new", "refused"}
    BY <1>1, <1>4, <1>8, <1>11, <1>12 DEF NotSummedTwice, At
  <2> QED
    BY <2>1, <2>2, <2>3, <2>4 DEF NotSummedTwice
<1>15. PendingIsExact'
  <2> SUFFICES ASSUME NEW g \in Handles
               PROVE  /\ IF Live(g)'
                         THEN /\ parts'[g] \in [1 .. Len(Ranges'[g]) -> Sum \cup {None}]
                              /\ pending'[g] = Cardinality(Missing(g)') + Cardinality(Counting(g)')
                         ELSE pending'[g] = 0
                      /\ outcome'[g] = "ok" => pending'[g] = 0
                      /\ freed'[g] => outcome'[g] = "ok"
    BY DEF PendingIsExact
  <2>1. Missing(g)' = Missing(g) /\ Counting(g)' = Counting(g)
    BY <1>1, <1>4, <1>11 DEF Missing, Counting
  <2> QED
    BY <1>1, <1>4, <1>7, <1>8, <1>10, <2>1 DEF PendingIsExact
<1>16. SumsAreRight'
  <2>1. \A g \in Handles : Live(g)' =>
            \A k \in 1 .. Len(Ranges'[g]) : parts'[g][k] \in {None, <<g, Ranges'[g][k]>>}
    BY <1>1, <1>4, <1>10 DEF SumsAreRight
  <2>2. \A g \in Handles : result'[g] # None =>
            result'[g] = [k \in 1 .. Len(Ranges'[g]) |-> <<g, Ranges'[g][k]>>]
    BY <1>1, <1>4 DEF SumsAreRight
  <2>3. \A v \in Slots : At(v, "store")' =>
          job'[v].part = <<job'[v].task.handle, Ranges'[job'[v].task.handle][job'[v].task.index]>>
    BY <1>4, <1>5 DEF SumsAreRight, At
  <2> QED
    BY <2>1, <2>2, <2>3 DEF SumsAreRight
<1>17. NoShardLost'
  <2>1. \A g : Uncounted(g, job') = Uncounted(g, job)
    BY <1>2, <1>5 DEF Uncounted
  <2>2. \A v \in Slots : job'[v] # None <=> job[v] # None
    BY <1>2, <1>5
  <2> QED
    BY <1>1, <1>4, <2>1, <2>2 DEF NoShardLost, Uncounted
<1> QED
  BY <1>6, <1>9, <1>14, <1>15, <1>16, <1>17, TypePartsNext DEF ShardInv

\* When nothing of a section is pending, every sum is there and nobody owes one.
LEMMA NothingPending ==
  ASSUME ShardInv, NEW h \in Handles, Live(h), pending[h] = 0
  PROVE  /\ parts[h] = [i \in 1 .. Len(Ranges[h]) |-> <<h, Ranges[h][i]>>]
         /\ \A t \in queue : t.handle # h
         /\ \A w \in Slots : Owes(w) \/ At(w, "count") => job[w].task.handle # h
<1>1. /\ SchedulerTypes /\ NotSummedTwice /\ PendingIsExact /\ SumsAreRight
  BY TypeParts DEF ShardInv
<1>2. /\ parts[h] \in [1 .. Len(Ranges[h]) -> Sum \cup {None}]
      /\ 0 = Cardinality(Missing(h)) + Cardinality(Counting(h))
  BY <1>1 DEF PendingIsExact
<1>3. /\ IsFiniteSet(Missing(h)) /\ Cardinality(Missing(h)) \in Nat
      /\ IsFiniteSet(Counting(h)) /\ Cardinality(Counting(h)) \in Nat
  BY <1>1, CountedSets DEF SchedulerTypes
<1>4. Cardinality(Missing(h)) = 0 /\ Cardinality(Counting(h)) = 0
  BY <1>2, <1>3
<1>5. Missing(h) = {} /\ Counting(h) = {}
  BY <1>3, <1>4, FS_EmptySet
<1>6. \A i \in 1 .. Len(Ranges[h]) : parts[h][i] = <<h, Ranges[h][i]>>
  BY <1>1, <1>5 DEF SumsAreRight, Missing
<1>7. parts[h] = [i \in 1 .. Len(Ranges[h]) |-> <<h, Ranges[h][i]>>]
  BY <1>2, <1>6
<1>8. ASSUME NEW t \in queue, t.handle = h PROVE FALSE
  <2>1. t.index \in 1 .. Len(Ranges[h]) /\ parts[h][t.index] = None
    BY <1>1, <1>8 DEF SchedulerTypes, ValidTask, NotSummedTwice
  <2> QED
    BY <1>5, <2>1 DEF Missing
<1>9. ASSUME NEW w \in Slots, Owes(w) \/ At(w, "count"), job[w].task.handle = h PROVE FALSE
  <2>1. CASE At(w, "count")
    BY <1>5, <1>9, <2>1 DEF Counting
  <2>2. CASE Owes(w)
    <3>1. job[w].task.index \in 1 .. Len(Ranges[h])
      BY <1>9, <2>2, GoroutineTypes DEF Owes
    <3>2. parts[h][job[w].task.index] = None
      BY <1>1, <1>9, <2>2 DEF NotSummedTwice
    <3> QED
      BY <1>5, <3>1, <3>2 DEF Missing
  <2> QED
    BY <1>9, <2>1, <2>2
<1> QED
  BY <1>7, <1>8, <1>9

\* One section that nobody works on changes, and has succeeded.
LEMMA SectionChanges ==
  ASSUME ShardInv, UNCHANGED <<engine, queue, busy, job, terminal, nextRequestID, pool, pending>>,
         NEW h \in Handles, pending[h] = 0, outcome'[h] = "ok",
         \A t \in queue : t.handle # h,
         \A w \in Slots : Owes(w) \/ At(w, "count") => job[w].task.handle # h,
         handles' \subseteq Handles,
         outcome' \in [Handles -> {"new", "open", "ok", "error", "refused"}],
         freed' \in [Handles -> BOOLEAN],
         PerSection(parts)', PerSection(result)',
         \A g \in Handles : g # h => /\ outcome'[g] = outcome[g] /\ freed'[g] = freed[g]
                                     /\ parts'[g] = parts[g] /\ result'[g] = result[g],
         ~freed'[h] => parts'[h] = [i \in 1 .. Len(Ranges[h]) |-> <<h, Ranges[h][i]>>],
         result'[h] # None => result'[h] = [i \in 1 .. Len(Ranges[h]) |-> <<h, Ranges[h][i]>>]
  PROVE  ShardInv'
<1>1. /\ SchedulerTypes /\ NotSummedTwice /\ PendingIsExact /\ SumsAreRight /\ NoShardLost
      /\ Ranges' = Ranges
  BY TypeParts, EngineFixed DEF ShardInv
<1>2. /\ WorkerTypes' /\ RequestsAreFresh' /\ AttemptsLeft' /\ QueueBounded' /\ HeldOnce'
      /\ IsFiniteSet(queue') /\ \A u \in queue' : ValidTask(u)'
      /\ \A v \in Slots : job'[v] # None => ValidTask(job[v].task)'
  <2>1. job' \in [Slots -> Goroutines \cup {None}] /\ \A v \in Slots : job'[v] = job[v]
    BY <1>1 DEF SchedulerTypes
  <2> QED
    BY <2>1, SummedSteps
<1>3. SchedulerTypes'
  <2>1. \A g \in Handles : pending'[g] \in 0 .. Len(Ranges'[g])
    BY <1>1 DEF SchedulerTypes
  <2> QED
    BY <1>1, <1>2, <2>1 DEF SchedulerTypes
<1>4. \A g \in Handles : g # h => (Live(g)' <=> Live(g))
  BY DEF Live
<1>5. \A w \in Slots : (Owes(w)' <=> Owes(w)) /\ \A s : At(w, s)' <=> At(w, s)
  BY DEF Owes, At
<1>6. \A w \in Slots : job[w] # None => job[w].task.handle \in Handles
  BY GoroutineTypes
<1>7. \A u \in queue : u.handle \in Handles
  BY <1>1 DEF SchedulerTypes, ValidTask, Task
<1>8. NotSummedTwice'
  <2>1. \A u \in queue' : Live(u.handle)' /\ parts'[u.handle][u.index] = None
    BY <1>1, <1>4, <1>7 DEF NotSummedTwice
  <2>2. \A w \in Slots : Owes(w)' =>
          Live(job[w].task.handle)' /\ parts'[job'[w].task.handle][job'[w].task.index] = None
    <3> SUFFICES ASSUME NEW w \in Slots, Owes(w)
                 PROVE  Live(job[w].task.handle)' /\ parts'[job'[w].task.handle][job'[w].task.index] = None
      BY <1>5
    <3> DEFINE k == job[w].task.handle
    <3>1. k \in Handles /\ k # h /\ Live(k) /\ parts[k][job[w].task.index] = None
      BY <1>1, <1>6 DEF NotSummedTwice, Owes
    <3> QED
      BY <3>1 DEF Live
  <2>3. \A w \in Slots : At(w, "count")' => Live(job[w].task.handle)'
    <3> SUFFICES ASSUME NEW w \in Slots, At(w, "count")
                 PROVE  Live(job[w].task.handle)'
      BY <1>5
    <3> DEFINE k == job[w].task.handle
    <3>1. k \in Handles /\ k # h /\ Live(k)
      BY <1>1, <1>6 DEF NotSummedTwice, At
    <3> QED
      BY <3>1 DEF Live
  <2>4. \A w \in Slots : At(w, "settle")' =>
          pending'[job'[w].task.handle] = 0 /\ outcome'[job'[w].task.handle] \notin {"new", "refused"}
    BY <1>1, <1>5, <1>6 DEF NotSummedTwice, At
  <2> QED
    BY <2>1, <2>2, <2>3, <2>4 DEF NotSummedTwice
<1>9. \A i \in 1 .. Len(Ranges[h]) : <<h, Ranges[h][i]>> \in Sum /\ <<h, Ranges[h][i]>> # None
  BY <1>1, ShardSum DEF SchedulerTypes
<1>10. PendingIsExact'
  <2> SUFFICES ASSUME NEW g \in Handles
               PROVE  /\ IF Live(g)'
                         THEN /\ parts'[g] \in [1 .. Len(Ranges'[g]) -> Sum \cup {None}]
                              /\ pending'[g] = Cardinality(Missing(g)') + Cardinality(Counting(g)')
                         ELSE pending'[g] = 0
                      /\ outcome'[g] = "ok" => pending'[g] = 0
                      /\ freed'[g] => outcome'[g] = "ok"
    BY DEF PendingIsExact
  <2>1. CASE g # h
    <3>1. Missing(g)' = Missing(g) /\ Counting(g)' = Counting(g)
      BY <1>1, <1>5, <2>1 DEF Missing, Counting
    <3> QED
      BY <1>1, <1>4, <2>1, <3>1 DEF PendingIsExact
  <2>2. CASE g = h
    <3>1. Counting(h)' = {}
      BY <1>5 DEF Counting
    <3>2. Live(h)' => Missing(h)' = {} /\ parts'[h] \in [1 .. Len(Ranges[h]) -> Sum \cup {None}]
      BY <1>1, <1>9 DEF Missing, Live
    <3>3. Live(h)' => 0 = Cardinality(Missing(h)') + Cardinality(Counting(h)')
      <4>1. \A S : S = {} => Cardinality(S) = 0
        BY FS_EmptySet
      <4>2. Cardinality(Counting(h)') = 0 /\ (Live(h)' => Cardinality(Missing(h)') = 0)
        BY <3>1, <3>2, <4>1
      <4> QED
        BY <4>2
    <3> QED
      BY <1>1, <2>2, <3>2, <3>3
  <2> QED
    BY <2>1, <2>2
<1>11. SumsAreRight'
  <2>1. ASSUME NEW g \in Handles, Live(g)', NEW i \in 1 .. Len(Ranges[g])
        PROVE  parts'[g][i] \in {None, <<g, Ranges[g][i]>>}
    <3>1. CASE g = h
      BY <2>1, <3>1 DEF Live
    <3>2. CASE g # h
      BY <1>1, <1>4, <2>1, <3>2 DEF SumsAreRight
    <3> QED
      BY <3>1, <3>2
  <2>2. \A g \in Handles : result'[g] # None =>
            result'[g] = [k \in 1 .. Len(Ranges'[g]) |-> <<g, Ranges'[g][k]>>]
    BY <1>1, ZenonT(60) DEF SumsAreRight
  <2>3. \A v \in Slots : At(v, "store")' =>
          job'[v].part = <<job'[v].task.handle, Ranges'[job'[v].task.handle][job'[v].task.index]>>
    BY <1>1, <1>5 DEF SumsAreRight
  <2> QED
    BY <1>1, <2>1, <2>2, <2>3 DEF SumsAreRight
<1>12. NoShardLost'
  BY <1>1 DEF NoShardLost
<1> QED
  BY <1>2, <1>3, <1>8, <1>10, <1>11, <1>12, TypePartsNext DEF ShardInv

\* A collect returns the sums of all shards and drops them.
LEMMA CollectStep ==
  ASSUME ShardInv, UNCHANGED engine, NEW h \in Handles, Collect(h)
  PROVE  ShardInv'
<1>1. SchedulerTypes
  BY TypeParts DEF ShardInv
<1>2. Live(h) /\ pending[h] = 0
  BY DEF Collect, Live, ShardInv, PendingIsExact
<1>3. /\ parts[h] = [i \in 1 .. Len(Ranges[h]) |-> <<h, Ranges[h][i]>>]
      /\ \A t \in queue : t.handle # h
      /\ \A w \in Slots : Owes(w) \/ At(w, "count") => job[w].task.handle # h
  BY <1>2, NothingPending
<1>4. /\ result' = [result EXCEPT ![h] = parts[h]] /\ parts' = [parts EXCEPT ![h] = <<>>]
      /\ freed' = [freed EXCEPT ![h] = TRUE] /\ handles' = handles \ {h} /\ outcome[h] = "ok"
      /\ UNCHANGED <<queue, busy, job, terminal, nextRequestID, pool, outcome, pending>>
  BY DEF Collect
<1>5. /\ PerSection(parts)' /\ PerSection(result)' /\ result'[h] = parts[h]
      /\ \A g \in Handles : g # h => parts'[g] = parts[g] /\ result'[g] = result[g]
  <2>1. parts = [g \in Handles |-> parts[g]] /\ result = [g \in Handles |-> result[g]]
    BY <1>1 DEF SchedulerTypes, PerSection
  <2>2. /\ parts' = [g \in Handles |-> IF g = h THEN <<>> ELSE parts[g]]
        /\ result' = [g \in Handles |-> IF g = h THEN parts[h] ELSE result[g]]
    BY <1>4, <2>1
  <2> QED
    BY <2>2 DEF PerSection
<1>6. /\ freed' \in [Handles -> BOOLEAN] /\ freed'[h]
      /\ \A g \in Handles : g # h => freed'[g] = freed[g]
  BY <1>1, <1>4 DEF SchedulerTypes
<1>7. /\ handles' \subseteq Handles /\ outcome'[h] = "ok" /\ \A g \in Handles : outcome'[g] = outcome[g]
      /\ outcome' \in [Handles -> {"new", "open", "ok", "error", "refused"}]
  BY <1>1, <1>4 DEF SchedulerTypes
<1>8. result'[h] = [i \in 1 .. Len(Ranges[h]) |-> <<h, Ranges[h][i]>>]
  BY <1>3, <1>5
<1>9. UNCHANGED <<engine, queue, busy, job, terminal, nextRequestID, pool, pending>>
  BY <1>4
<1>10. \A g \in Handles : g # h => /\ outcome'[g] = outcome[g] /\ freed'[g] = freed[g]
                                     /\ parts'[g] = parts[g] /\ result'[g] = result[g]
  BY <1>5, <1>6, <1>7
<1>11. ~freed'[h] => parts'[h] = [i \in 1 .. Len(Ranges[h]) |-> <<h, Ranges[h][i]>>]
  BY <1>6
<1> QED
  BY <1>2, <1>3, <1>5, <1>6, <1>7, <1>8, <1>9, <1>10, <1>11, SectionChanges

\* A section without scalars succeeds at once.
LEMMA EmptyStep ==
  ASSUME ShardInv, UNCHANGED engine, NEW h \in Handles, outcome[h] = "new", Ranges[h] = <<>>,
         outcome' = [outcome EXCEPT ![h] = "ok"], parts' = [parts EXCEPT ![h] = <<>>],
         UNCHANGED <<queue, busy, job, terminal, nextRequestID, pool,
                     handles, pending, result, freed>>
  PROVE  ShardInv'
<1>1. SchedulerTypes /\ NotSummedTwice /\ PendingIsExact /\ SumsAreRight
  BY TypeParts DEF ShardInv
<1>2. ~Live(h) /\ pending[h] = 0
  BY <1>1 DEF Live, PendingIsExact
<1>3. /\ \A t \in queue : t.handle # h
      /\ \A w \in Slots : Owes(w) \/ At(w, "count") => job[w].task.handle # h
  BY <1>1, <1>2 DEF NotSummedTwice
<1>4. Len(Ranges[h]) = 0
  BY <1>1, EngineFacts DEF SchedulerTypes
<1>5. <<>> = [i \in 1 .. Len(Ranges[h]) |-> <<h, Ranges[h][i]>>]
  BY <1>4
<1>6. PerSection(parts)' /\ parts'[h] = <<>> /\ \A g \in Handles : g # h => parts'[g] = parts[g]
  <2>1. parts = [g \in Handles |-> parts[g]]
    BY <1>1 DEF SchedulerTypes, PerSection
  <2>2. parts' = [g \in Handles |-> IF g = h THEN <<>> ELSE parts[g]]
    BY <2>1
  <2> QED
    BY <2>2 DEF PerSection
<1>7. PerSection(result)'
  BY <1>1 DEF SchedulerTypes, PerSection
<1>8. /\ outcome' \in [Handles -> {"new", "open", "ok", "error", "refused"}] /\ outcome'[h] = "ok"
      /\ \A g \in Handles : g # h => outcome'[g] = outcome[g]
  BY <1>1 DEF SchedulerTypes
<1>9. result'[h] # None => result'[h] = [i \in 1 .. Len(Ranges[h]) |-> <<h, Ranges[h][i]>>]
  BY <1>1 DEF SumsAreRight
<1>10. /\ UNCHANGED <<engine, queue, busy, job, terminal, nextRequestID, pool, pending>>
       /\ handles' \subseteq Handles /\ freed' \in [Handles -> BOOLEAN]
  BY <1>1 DEF SchedulerTypes
<1>11. \A g \in Handles : g # h => /\ outcome'[g] = outcome[g] /\ freed'[g] = freed[g]
                                     /\ parts'[g] = parts[g] /\ result'[g] = result[g]
  BY <1>6, <1>8
<1>12. ~freed'[h] => parts'[h] = [i \in 1 .. Len(Ranges[h]) |-> <<h, Ranges[h][i]>>]
  BY <1>5, <1>6
<1> QED
  BY <1>2, <1>3, <1>6, <1>7, <1>8, <1>9, <1>10, <1>11, <1>12, SectionChanges

\* What holds of the queue q, the slots b and the goroutines j that a step hands
\* to pumpLocked, and of the sections the step leaves.
Pumpable(q, b, j) ==
  /\ UNCHANGED <<engine, terminal, pool>> /\ ~terminal
  /\ nextRequestID' \in Nat /\ nextRequestID <= nextRequestID'
  /\ IsFiniteSet(q) /\ \A t \in q : ValidTask(t)'
  /\ b \in [Slots -> BOOLEAN] /\ j \in [Slots -> Goroutines \cup {None}]
  /\ \A w \in Slots : b[w] <=> j[w] # None
  /\ \A w \in Slots : j[w] = job[w] \/ (At(w, "free") /\ j[w] = None)
  /\ \A t, u \in q : t.id = u.id \/ SameShard(t, u) => t = u
  /\ \A t \in q : \A w \in Slots :
        /\ Owes(w) => t.id # job[w].task.id /\ ~SameShard(t, job[w].task)
        /\ Unused(w, t.id)
  /\ Cardinality(q) + Cardinality({w \in Slots : b[w]}) <= asyncQueueCapacity
  /\ \A h \in Handles : pending'[h] = Cardinality({t \in q : t.handle = h}) + Cardinality(Uncounted(h, j))

SectionTypes ==
  /\ handles \subseteq Handles
  /\ outcome \in [Handles -> {"new", "open", "ok", "error", "refused"}]
  /\ pending \in [Handles -> Nat]
  /\ \A h \in Handles : pending[h] \in 0 .. Len(Ranges[h])
  /\ freed \in [Handles -> BOOLEAN]
  /\ PerSection(parts) /\ PerSection(result)

\* The sections are as the tasks in q, and the goroutines before the step, say.
Sectioned(q) ==
  /\ SectionTypes'
  /\ \A t \in q : Live(t.handle)' /\ parts'[t.handle][t.index] = None
  /\ \A h \in Handles :
       /\ Live(h) => Live(h)'
       /\ Live(h) => parts'[h] = parts[h] /\ pending'[h] = pending[h]
       /\ outcome[h] \notin {"new", "refused"} => /\ outcome'[h] \notin {"new", "refused"}
                                                  /\ pending'[h] = pending[h]
       /\ ~Live(h) /\ Live(h)' =>
            /\ parts'[h] = [i \in 1 .. Len(Ranges[h]) |-> None]
            /\ pending'[h] = Len(Ranges[h])
       /\ ~Live(h)' => pending'[h] = 0
       /\ outcome'[h] = "ok" => outcome[h] = "ok" /\ pending'[h] = pending[h]
       /\ freed'[h] => outcome'[h] = "ok"
       /\ result'[h] = result[h]

\* pumpLocked keeps the invariant.
LEMMA PumpStep ==
  ASSUME ShardInv, NEW q, NEW b, NEW j, Pumpable(q, b, j), Sectioned(q), pumpLocked(q, b, j)
  PROVE  ShardInv'
<1>1. /\ SchedulerTypes /\ WorkerTypes /\ HeldOnce /\ NotSummedTwice /\ PendingIsExact /\ SumsAreRight
      /\ RequestsAreFresh /\ AttemptsLeft
      /\ Ranges' = Ranges /\ MaxAttempts' = MaxAttempts /\ asyncQueueCapacity' = asyncQueueCapacity
  BY TypeParts, EngineFixed DEF ShardInv, Pumpable
<1>2. /\ IsFiniteSet(q) /\ b \in [Slots -> BOOLEAN] /\ j \in [Slots -> Goroutines \cup {None}]
      /\ \A w \in Slots : b[w] <=> j[w] # None
      /\ \A w \in Slots : j[w] = job[w] \/ (At(w, "free") /\ j[w] = None)
      /\ \A t \in q : t \in Task
  BY DEF Pumpable, ValidTask
<1>3. /\ queue' \subseteq q /\ IsFiniteSet(queue')
      /\ busy' \in [Slots -> BOOLEAN] /\ job' \in [Slots -> Goroutines \cup {None}]
      /\ \A w \in Slots : busy'[w] <=> job'[w] # None
      /\ \A w \in Slots :
           \/ job'[w] = j[w]
           \/ j[w] = None /\ \E t \in q : t \notin queue' /\ job'[w] = Job(t, "run")
      /\ \A v, w \in Slots :
           j[v] = None /\ j[w] = None /\ job'[v] # None /\ job'[w] # None
             /\ job'[v].task = job'[w].task => v = w
      /\ Cardinality(queue') + Cardinality({w \in Slots : busy'[w]})
           = Cardinality(q) + Cardinality({w \in Slots : b[w]})
      /\ \A h : Cardinality({t \in queue' : t.handle = h}) + Cardinality(Uncounted(h, job'))
           = Cardinality({t \in q : t.handle = h}) + Cardinality(Uncounted(h, j))
  <2>1. Pumped(q, b, j)
    BY <1>2, PumpMoves
  <2> QED
    BY <2>1 DEF Pumped
<1>4. \A t \in Task : /\ Job(t, "run") # None /\ Job(t, "run").task = t /\ Job(t, "run").stage = "run"
  BY NoneAssumption DEF Job, Goroutines, Stages
<1>5. ASSUME NEW w \in Slots, job'[w] # None
      PROVE  \/ job'[w] = job[w] /\ job[w] # None /\ j[w] # None
             \/ /\ j[w] = None /\ job'[w].stage = "run"
                /\ job'[w].task \in q /\ job'[w].task \notin queue'
  BY <1>2, <1>3, <1>4, <1>5
<1>6. /\ nextRequestID' \in Nat /\ nextRequestID <= nextRequestID' /\ nextRequestID \in Nat
      /\ \A t \in q : ValidTask(t)'
      /\ \A t, u \in q : t.id = u.id \/ SameShard(t, u) => t = u
      /\ \A t \in q : \A w \in Slots :
            /\ Owes(w) => t.id # job[w].task.id /\ ~SameShard(t, job[w].task)
            /\ Unused(w, t.id)
  BY <1>1 DEF Pumpable, SchedulerTypes
<1>7. SchedulerTypes'
  <2>1. \A t \in queue' : ValidTask(t)'
    BY <1>3, <1>6
  <2>2. ASSUME NEW w \in Slots, job'[w] # None
        PROVE  ValidTask(job[w].task)'
    <3>1. CASE job'[w] = job[w] /\ job[w] # None
      BY <1>1, <1>6, <3>1 DEF SchedulerTypes, ValidTask
    <3>2. CASE job'[w].task \in q
      <4>1. ASSUME NEW t \in q, t = job'[w].task
            PROVE  ValidTask(job[w].task)'
        BY <1>6, <4>1 DEF ValidTask
      <4> QED
        BY <3>2, <4>1
    <3> QED
      BY <1>5, <2>2, <3>1, <3>2
  <2>3. engine' \in Engines /\ terminal' \in BOOLEAN
    BY <1>1 DEF Pumpable, SchedulerTypes
  <2> QED
    BY <1>3, <1>6, <2>1, <2>2, <2>3 DEF SchedulerTypes, Sectioned, SectionTypes
<1>8. WorkerTypes'
  BY <1>6, WorkersUnchanged DEF Pumpable, pool
<1>9. \A w \in Slots : Owes(w)' =>
        \/ Owes(w) /\ job'[w] = job[w] /\ j[w] # None
        \/ j[w] = None /\ job'[w].task \in q /\ job'[w].task \notin queue'
  BY <1>5 DEF Owes
<1>10. HeldOnce'
  <2>1. \A t, u \in queue' : t.id = u.id \/ SameShard(t, u) => t = u
    BY <1>3, <1>6
  <2>2. ASSUME NEW t \in queue', NEW w \in Slots, Owes(w)'
        PROVE  t.id # job'[w].task.id /\ ~SameShard(t, job'[w].task)
    BY <1>3, <1>6, <1>9, <2>2
  <2>3. ASSUME NEW v \in Slots, NEW w \in Slots, Owes(v)', Owes(w)',
               SameShard(job'[v].task, job'[w].task)
        PROVE  v = w
    <3>1. CASE Owes(v) /\ job'[v] = job[v] /\ Owes(w) /\ job'[w] = job[w]
      BY <1>1, <2>3, <3>1 DEF HeldOnce
    <3>2. CASE Owes(v) /\ job'[v] = job[v] /\ job'[w].task \in q
      BY <1>6, <2>3, <3>2 DEF SameShard
    <3>3. CASE Owes(w) /\ job'[w] = job[w] /\ job'[v].task \in q
      BY <1>6, <2>3, <3>3
    <3>4. CASE j[v] = None /\ job'[v].task \in q /\ j[w] = None /\ job'[w].task \in q
      <4>1. job'[v].task = job'[w].task
        BY <1>6, <2>3, <3>4
      <4>2. job'[v] # None /\ job'[w] # None
        BY <2>3 DEF Owes
      <4> QED
        BY <1>3, <3>4, <4>1, <4>2
    <3> QED
      BY <1>9, <2>3, <3>1, <3>2, <3>3, <3>4
  <2> QED
    BY <2>1, <2>2, <2>3 DEF HeldOnce, SameShard
<1>11. \A w \in Slots : job[w] # None => job[w].task.handle \in Handles
  BY GoroutineTypes
<1>12. \A t \in q : t.handle \in Handles
  BY <1>2 DEF Task
<1>13. \A w \in Slots : \A s \in {"count", "settle", "store", "wait", "replace", "again", "backoff"} :
         /\ At(w, s)' => At(w, s) /\ job'[w] = job[w]
         /\ At(w, s) => At(w, s)'
  <2> SUFFICES ASSUME NEW w \in Slots,
                      NEW s \in {"count", "settle", "store", "wait", "replace", "again", "backoff"}
               PROVE  /\ At(w, s)' => At(w, s) /\ job'[w] = job[w]
                      /\ At(w, s) => At(w, s)'
    OBVIOUS
  <2>1. At(w, s)' => At(w, s) /\ job'[w] = job[w]
    BY <1>5 DEF At
  <2>2. At(w, s) => At(w, s)'
    BY <1>2, <1>3 DEF At
  <2> QED
    BY <2>1, <2>2
<1>14. NotSummedTwice'
  <2>1. \A t \in queue' : Live(t.handle)' /\ parts'[t.handle][t.index] = None
    BY <1>3 DEF Sectioned
  <2>2. ASSUME NEW w \in Slots, Owes(w)'
        PROVE  Live(job[w].task.handle)' /\ parts'[job'[w].task.handle][job'[w].task.index] = None
    <3>1. CASE Owes(w) /\ job'[w] = job[w]
      <4> DEFINE k == job[w].task.handle
      <4>1. k \in Handles /\ Live(k) /\ parts[k][job[w].task.index] = None
        BY <1>1, <1>11, <3>1 DEF NotSummedTwice, Owes
      <4>2. parts'[k] = parts[k] /\ outcome'[k] \notin {"new", "refused"} /\ ~freed'[k]
        BY <4>1 DEF Sectioned, Live
      <4> QED
        BY <3>1, <4>1, <4>2 DEF Live
    <3>2. CASE job'[w].task \in q
      <4>1. ASSUME NEW t \in q, t = job'[w].task
            PROVE  Live(job[w].task.handle)' /\ parts'[job'[w].task.handle][job'[w].task.index] = None
        BY <4>1 DEF Sectioned, Live
      <4> QED
        BY <3>2, <4>1
    <3> QED
      BY <1>9, <2>2, <3>1, <3>2
  <2>3. ASSUME NEW w \in Slots, At(w, "count")'
        PROVE  Live(job[w].task.handle)'
    <3> DEFINE k == job[w].task.handle
    <3>1. At(w, "count") /\ job'[w] = job[w]
      BY <1>13, <2>3
    <3>2. k \in Handles /\ Live(k)
      BY <1>1, <1>11, <3>1 DEF NotSummedTwice, At
    <3> QED
      BY <3>1, <3>2 DEF Sectioned, Live
  <2>4. ASSUME NEW w \in Slots, At(w, "settle")'
        PROVE  pending'[job'[w].task.handle] = 0 /\ outcome'[job'[w].task.handle] \notin {"new", "refused"}
    <3> DEFINE k == job[w].task.handle
    <3>1. At(w, "settle") /\ job'[w] = job[w]
      BY <1>13, <2>4
    <3>2. k \in Handles /\ pending[k] = 0 /\ outcome[k] \notin {"new", "refused"}
      BY <1>1, <1>11, <3>1 DEF NotSummedTwice, At
    <3> QED
      BY <3>1, <3>2 DEF Sectioned
  <2> QED
    BY <2>1, <2>2, <2>3, <2>4 DEF NotSummedTwice
<1>15. PendingIsExact'
  <2> SUFFICES ASSUME NEW h \in Handles
               PROVE  /\ IF Live(h)'
                         THEN /\ parts'[h] \in [1 .. Len(Ranges'[h]) -> Sum \cup {None}]
                              /\ pending'[h] = Cardinality(Missing(h)') + Cardinality(Counting(h)')
                         ELSE pending'[h] = 0
                      /\ outcome'[h] = "ok" => pending'[h] = 0
                      /\ freed'[h] => outcome'[h] = "ok"
    BY DEF PendingIsExact
  <2>1. Counting(h)' = Counting(h)
    BY <1>13 DEF Counting
  <2>2. CASE Live(h)
    <3>1. Missing(h)' = Missing(h)
      BY <1>1, <2>2 DEF Sectioned, Missing
    <3>2. pending'[h] = Cardinality(Missing(h)') + Cardinality(Counting(h)')
      BY <1>1, <2>1, <2>2, <3>1 DEF PendingIsExact, Sectioned
    <3> QED
      BY <1>1, <2>2, <3>2 DEF PendingIsExact, Sectioned
  <2>3. CASE ~Live(h) /\ Live(h)'
    <3>1. parts'[h] = [i \in 1 .. Len(Ranges[h]) |-> None] /\ pending'[h] = Len(Ranges[h])
          /\ Len(Ranges[h]) \in Nat
      BY <1>1, <2>3, EngineFacts DEF Sectioned, SchedulerTypes
    <3>2. Missing(h)' = 1 .. Len(Ranges[h])
      BY <1>1, <3>1 DEF Missing
    <3>3. Cardinality(Missing(h)') = Len(Ranges[h])
      BY <3>1, <3>2, FS_Interval
    <3>4. Counting(h)' = {}
      BY <1>1, <2>1, <2>3 DEF NotSummedTwice, Counting
    <3>5. Cardinality(Counting(h)') = 0
      BY <3>4, FS_EmptySet
    <3>6. parts'[h] \in [1 .. Len(Ranges'[h]) -> Sum \cup {None}]
      BY <1>1, <3>1
    <3>7. pending'[h] = Cardinality(Missing(h)') + Cardinality(Counting(h)')
      BY <3>1, <3>3, <3>5
    <3> QED
      BY <1>1, <2>3, <3>6, <3>7 DEF Sectioned, PendingIsExact
  <2>4. CASE ~Live(h)'
    BY <1>1, <2>4 DEF Sectioned, PendingIsExact
  <2> QED
    BY <2>2, <2>3, <2>4
<1>16. SumsAreRight'
  <2>1. ASSUME NEW h \in Handles, Live(h)', NEW i \in 1 .. Len(Ranges[h])
        PROVE  parts'[h][i] \in {None, <<h, Ranges[h][i]>>}
    <3>1. CASE Live(h)
      BY <1>1, <3>1 DEF Sectioned, SumsAreRight
    <3>2. CASE ~Live(h)
      <4>1. parts'[h] = [k \in 1 .. Len(Ranges[h]) |-> None]
        BY <2>1, <3>2 DEF Sectioned
      <4> QED
        BY <4>1
    <3> QED
      BY <3>1, <3>2
  <2>2. \A h \in Handles : result'[h] # None =>
            result'[h] = [k \in 1 .. Len(Ranges'[h]) |-> <<h, Ranges'[h][k]>>]
    <3>1. \A h \in Handles : result'[h] = result[h]
      BY DEF Sectioned
    <3> QED
      BY <1>1, <3>1 DEF SumsAreRight
  <2>3. \A w \in Slots : At(w, "store")' =>
          job'[w].part = <<job'[w].task.handle, Ranges'[job'[w].task.handle][job'[w].task.index]>>
    BY <1>1, <1>13 DEF SumsAreRight
  <2> QED
    BY <1>1, <2>1, <2>2, <2>3 DEF SumsAreRight
<1>17. AttemptsLeft'
  BY <1>1, <1>13 DEF AttemptsLeft
<1>18. RequestsAreFresh'
  <2>1. UNCHANGED <<working, replies>>
    BY DEF Pumpable, pool
  <2>2. \A t \in queue' : \A w \in Slots : Unused(w, t.id)'
    BY <1>3, <1>6, <2>1 DEF Unused
  <2>3. ASSUME NEW w \in Slots, At(w, "run")' \/ At(w, "backoff")'
        PROVE  Unused(w, job[w].task.id)'
    <3>1. Unused(w, job'[w].task.id)
      <4>1. CASE job'[w] = job[w]
        BY <1>1, <2>3, <4>1 DEF RequestsAreFresh, At
      <4>2. CASE job'[w].task \in q
        BY <1>6, <4>2
      <4> QED
        BY <1>5, <2>3, <4>1, <4>2 DEF At
    <3> QED
      BY <2>1, <3>1 DEF Unused
  <2>4. ASSUME NEW w \in Slots, At(w, "wait")'
        PROVE  /\ \A r \in working'[w] : r.id = job'[w].task.id => SameShard(r, job'[w].task) /\ r.intact
               /\ replies'[w] # None /\ replies'[w].id = job'[w].task.id /\ replies'[w].kind = "partial" =>
                    replies'[w].part =
                      <<job'[w].task.handle, Ranges'[job'[w].task.handle][job'[w].task.index]>>
    <3>1. At(w, "wait") /\ job'[w] = job[w]
      BY <1>13, <2>4
    <3> QED
      BY <1>1, <2>1, <3>1 DEF RequestsAreFresh
  <2> QED
    BY <2>2, <2>3, <2>4 DEF RequestsAreFresh, SameShard
<1>19. QueueBounded'
  <2>1. Cardinality(queue') + Cardinality({w \in Slots : busy'[w]}) <= asyncQueueCapacity
    BY <1>3 DEF Pumpable
  <2> QED
    BY <1>1, <2>1 DEF QueueBounded, inFlight
<1>20. NoShardLost'
  <2>1. \A h \in Handles : pending'[h] =
          Cardinality({t \in queue' : t.handle = h}) + Cardinality(Uncounted(h, job'))
    BY <1>3 DEF Pumpable
  <2> QED
    BY <1>3, <2>1 DEF NoShardLost, Uncounted
<1> QED
  BY <1>7, <1>8, <1>10, <1>14, <1>15, <1>16, <1>17, <1>18, <1>19, <1>20, TypePartsNext DEF ShardInv

\* complete, the slot.
LEMMA FreeStep ==
  ASSUME ShardInv, UNCHANGED engine, NEW w \in Slots, Free(w)
  PROVE  ShardInv'
<1> DEFINE b == [busy EXCEPT ![w] = FALSE]
           j == Ended(w)
<1>1. At(w, "free") /\ UNCHANGED <<terminal, nextRequestID, pool, sections>>
  BY DEF Free
<1>2. /\ SchedulerTypes /\ NotSummedTwice /\ PendingIsExact /\ HeldOnce /\ RequestsAreFresh
      /\ QueueBounded /\ NoShardLost /\ Ranges' = Ranges
  BY TypeParts, EngineFixed DEF ShardInv
<1>3. /\ b \in [Slots -> BOOLEAN] /\ ~b[w] /\ \A v \in Slots : v # w => b[v] = busy[v]
      /\ j \in [Slots -> Goroutines \cup {None}] /\ j[w] = None /\ \A v \in Slots : v # w => j[v] = job[v]
  BY <1>2 DEF SchedulerTypes, Ended
<1>4. CASE terminal
  <2>1. busy' = b /\ job' = j /\ UNCHANGED queue
    BY <1>4 DEF Free
  <2>2. terminal' = TRUE
    BY <1>1, <1>2, <1>4 DEF SchedulerTypes
  <2>3. \A v \in Slots : job'[v] = job[v] \/ ((Owes(v) \/ At(v, "free")) /\ job'[v] = None)
    BY <1>1, <1>3, <2>1
  <2>4. busy' \in [Slots -> BOOLEAN] /\ \A v \in Slots : busy'[v] => busy[v]
    BY <1>3, <2>1
  <2>5. UNCHANGED <<engine, nextRequestID, pool, pending, parts, result, freed, queue, handles, outcome>>
    BY <1>1, <2>1 DEF sections
  <2>6. job' \in [Slots -> Goroutines \cup {None}]
    BY <1>3, <2>1
  <2> QED
    BY <2>2, <2>3, <2>4, <2>5, <2>6, EndingSteps
<1>5. CASE ~terminal
  <2>1. pumpLocked(queue, b, j)
    BY <1>5 DEF Free
  <2>2. UNCHANGED <<pending, parts, result, freed, handles, outcome>>
    BY <1>1 DEF sections
  <2> HIDE DEF b, j
  <2>3. \A v \in Slots : b[v] <=> j[v] # None
    BY <1>2, <1>3, <1>5 DEF NoShardLost
  <2>4. Cardinality(queue) + Cardinality({v \in Slots : b[v]}) <= asyncQueueCapacity
    <3> DEFINE B == {v \in Slots : b[v]}
               C == {v \in Slots : busy[v]}
    <3>1. C \in SUBSET Slots /\ B \in SUBSET C
      BY <1>3
    <3>2. Cardinality(queue) + Cardinality(C) <= asyncQueueCapacity
      BY <1>2 DEF QueueBounded, inFlight
    <3> HIDE DEF B, C
    <3>3. IsFiniteSet(C) /\ IsFiniteSet(B)
      BY <3>1, SlotsFinite, FS_Subset
    <3>4. Cardinality(B) <= Cardinality(C) /\ Cardinality(B) \in Nat /\ Cardinality(C) \in Nat
      BY <3>1, <3>3, FS_Subset, FS_CardinalityType
    <3>5. Cardinality(queue) \in Nat /\ asyncQueueCapacity \in Nat
      BY <1>2, FS_CardinalityType, EngineFacts DEF SchedulerTypes
    <3>6. Cardinality(queue) + Cardinality(B) <= asyncQueueCapacity
      BY <3>2, <3>4, <3>5
    <3> QED
      BY <3>6 DEF B
  <2>5. \A h \in Handles : pending'[h] = Cardinality({t \in queue : t.handle = h}) + Cardinality(Uncounted(h, j))
    <3> TAKE h \in Handles
    <3>1. Uncounted(h, j) = Uncounted(h, job)
      BY <1>1, <1>3 DEF Uncounted, At
    <3> QED
      BY <1>2, <1>5, <2>2, <3>1 DEF NoShardLost, Uncounted
  <2>6. \A v \in Slots : j[v] = job[v] \/ (At(v, "free") /\ j[v] = None)
    BY <1>1, <1>3
  <2>7. \A t \in queue : ValidTask(t)'
    BY <1>1, <1>2, EngineFixed DEF SchedulerTypes, ValidTask
  <2>8. \A t \in queue : \A v \in Slots :
           /\ Owes(v) => t.id # job[v].task.id /\ ~SameShard(t, job[v].task)
           /\ Unused(v, t.id)
    BY <1>2 DEF HeldOnce, RequestsAreFresh
  <2>9. \A t, u \in queue : t.id = u.id \/ SameShard(t, u) => t = u
    BY <1>2 DEF HeldOnce
  <2>10. nextRequestID' \in Nat /\ nextRequestID <= nextRequestID' /\ IsFiniteSet(queue)
    BY <1>1, <1>2 DEF SchedulerTypes
  <2>11. Pumpable(queue, b, j)
    BY <1>1, <1>3, <1>5, <2>3, <2>4, <2>5, <2>6, <2>7, <2>8, <2>9, <2>10 DEF Pumpable
  <2>12. \A h \in Handles : Live(h)' <=> Live(h)
    BY <2>2 DEF Live
  <2>13. SectionTypes'
    BY <1>2, <2>2 DEF SchedulerTypes, SectionTypes, PerSection
  <2>14. \A t \in queue : Live(t.handle)' /\ parts'[t.handle][t.index] = None
    BY <1>2, <2>2 DEF NotSummedTwice, Live
  <2>15. \A h \in Handles : (~Live(h) => pending[h] = 0) /\ (freed[h] => outcome[h] = "ok")
    BY <1>2 DEF PendingIsExact
  <2>16. Sectioned(queue)
    BY <2>2, <2>12, <2>13, <2>14, <2>15 DEF Sectioned
  <2> QED
    BY <2>1, <2>11, <2>16, PumpStep
<1> QED
  BY <1>4, <1>5

\* A new section's shards get numbers and slots of their own.
LEMMA EnqueueStep ==
  ASSUME ShardInv, UNCHANGED engine, NEW h \in Handles, outcome[h] = "new", Ranges[h] # <<>>,
         ~terminal, asyncQueueHasCapacity(Len(Ranges[h])), Enqueue(h)
  PROVE  ShardInv'
<1> DEFINE count == Len(Ranges[h])
           slot(i) == IF OptW7 THEN workerForShard(i - 1, count, Workers) ELSE -1
           f == [i \in 1 .. count |-> [handle |-> h, index |-> i, id |-> nextRequestID + i,
                                        attempt |-> 1, affinity |-> slot(i)]]
           tasks == {f[i] : i \in 1 .. count}
           q == queue \cup tasks
<1>1. /\ SchedulerTypes /\ WorkerTypes /\ NotSummedTwice /\ PendingIsExact /\ HeldOnce /\ RequestsAreFresh
      /\ NoShardLost /\ Ranges' = Ranges /\ MaxAttempts' = MaxAttempts
  BY TypeParts, EngineFixed DEF ShardInv
<1>2. nextRequestID \in Nat /\ count \in Nat \ {0} /\ MaxAttempts \in Nat \ {0} /\ asyncQueueCapacity \in Nat
  BY <1>1, EngineFacts DEF SchedulerTypes
<1>3. /\ handles' = handles \cup {h}
      /\ outcome' = [outcome EXCEPT ![h] = "open"]
      /\ pending' = [pending EXCEPT ![h] = count]
      /\ parts' = [parts EXCEPT ![h] = [i \in 1 .. count |-> None]]
      /\ nextRequestID' = nextRequestID + count
      /\ UNCHANGED <<terminal, pool, result, freed>>
  BY DEF Enqueue
<1>4. pumpLocked(q, busy, job)
  <2>1. tasks = {[handle |-> h, index |-> i, id |-> nextRequestID + i, attempt |-> 1,
                  affinity |-> IF OptW7 THEN workerForShard(i - 1, count, Workers) ELSE -1] :
                     i \in 1 .. count}
    OBVIOUS
  <2> HIDE DEF tasks
  <2> QED
    BY <2>1 DEF Enqueue
<1>5. \A i \in 1 .. count : slot(i) \in {-1} \cup Slots
  <2> TAKE i \in 1 .. count
  <2>1. i - 1 \in 0 .. count - 1
    BY <1>2
  <2>2. workerForShard(i - 1, count, Workers) \in 0 .. Workers - 1
    BY <1>2, <2>1, ShardHasWorker, SchedulerAssumption
  <2> QED
    BY <2>2 DEF Slots
<1> HIDE DEF slot, count
<1>6. ASSUME NEW i \in 1 .. count
      PROVE  /\ f[i] \in Task /\ f[i].handle = h /\ f[i].index = i /\ f[i].id = nextRequestID + i
             /\ f[i].attempt = 1 /\ f[i].affinity \in {-1} \cup Slots
             /\ f[i].id > nextRequestID /\ f[i].id <= nextRequestID + count
  <2>1. slot(i) \in {-1} \cup Slots /\ slot(i) \in Int
    BY <1>5, SchedulerAssumption DEF Slots
  <2>2. i \in Nat /\ nextRequestID + i \in Nat /\ nextRequestID + i > nextRequestID
        /\ nextRequestID + i <= nextRequestID + count
    BY <1>2
  <2>3. f[i] = [handle |-> h, index |-> i, id |-> nextRequestID + i, attempt |-> 1, affinity |-> slot(i)]
    OBVIOUS
  <2> HIDE DEF f
  <2> QED
    BY <2>1, <2>2, <2>3 DEF Task
<1>7. f = [i \in 1 .. count |-> f[i]]
  OBVIOUS
<1> HIDE DEF f
<1>8. \A t \in tasks : \E i \in 1 .. count : t = f[i]
  OBVIOUS
<1>9. IsFiniteSet(tasks) /\ Cardinality(tasks) = count
  <2>1. f \in [1 .. count -> tasks] /\ (\A t \in tasks : \E i \in 1 .. count : f[i] = t)
        /\ \A i, k \in 1 .. count : f[i] = f[k] => i = k
    BY <1>6, <1>7
  <2> HIDE DEF tasks
  <2>2. f \in Surjection(1 .. count, tasks) /\ f \in Injection(1 .. count, tasks)
    BY <2>1 DEF Surjection, Injection, IsInjective
  <2>3. IsFiniteSet(1 .. count) /\ Cardinality(1 .. count) = count
    BY <1>2, FS_Interval
  <2> QED
    BY <2>2, <2>3, FS_Surjection
<1>10. \A t \in tasks : /\ t \in Task /\ t.handle = h /\ t.index \in 1 .. count
                        /\ t.id > nextRequestID /\ t.id <= nextRequestID + count
                        /\ t.attempt = 1 /\ t.affinity \in {-1} \cup Slots
  BY <1>6, <1>8
<1>11. \A t, u \in tasks : t.id = u.id \/ SameShard(t, u) => t = u
  <2> SUFFICES ASSUME NEW t \in tasks, NEW u \in tasks, t.id = u.id \/ SameShard(t, u)
               PROVE  t = u
    OBVIOUS
  <2>1. PICK i \in 1 .. count, k \in 1 .. count : t = f[i] /\ u = f[k]
    BY <1>8
  <2>2. i = k
    BY <1>2, <1>6, <2>1 DEF SameShard
  <2> QED
    BY <2>1, <2>2
<1> HIDE DEF tasks
<1>12. ~Live(h) /\ pending[h] = 0 /\ ~freed[h]
  BY <1>1 DEF Live, PendingIsExact
<1>13. /\ \A t \in queue : t.handle # h
       /\ \A w \in Slots : Owes(w) \/ At(w, "count") => job[w].task.handle # h
  BY <1>1, <1>12 DEF NotSummedTwice
<1>14. \A t \in queue : /\ t \in Task /\ t.id \in 1 .. nextRequestID
                        /\ t.index \in 1 .. Len(Ranges[t.handle]) /\ t.attempt \in 1 .. MaxAttempts
                        /\ t.affinity \in {-1} \cup Slots
  BY <1>1 DEF SchedulerTypes, ValidTask
<1>15. queue \cap tasks = {}
  BY <1>10, <1>13
<1>16. Pumpable(q, busy, job)
  <2>1. nextRequestID' \in Nat /\ nextRequestID <= nextRequestID'
    BY <1>2, <1>3
  <2>2. IsFiniteSet(queue) /\ Cardinality(queue) \in Nat
    BY <1>1, FS_CardinalityType DEF SchedulerTypes
  <2>3. IsFiniteSet(q) /\ Cardinality(q) = Cardinality(queue) + count
    <3>1. Cardinality(queue \cap tasks) = 0
      BY <1>15, FS_EmptySet
    <3>2. /\ IsFiniteSet(queue \cup tasks)
          /\ Cardinality(queue \cup tasks) =
               Cardinality(queue) + Cardinality(tasks) - Cardinality(queue \cap tasks)
      BY <1>9, <2>2, FS_Union
    <3> QED
      BY <1>2, <1>9, <2>2, <3>1, <3>2
  <2>4. \A t \in q : ValidTask(t)'
    <3>1. ASSUME NEW t \in queue PROVE ValidTask(t)'
      <4>1. t.id \in 1 .. nextRequestID'
        BY <1>2, <1>3, <1>14
      <4> QED
        BY <1>1, <1>14, <4>1 DEF ValidTask
    <3>2. ASSUME NEW t \in tasks PROVE ValidTask(t)'
      <4>1. t.id \in 1 .. nextRequestID' /\ t.attempt \in 1 .. MaxAttempts
        <5>1. t.id \in Nat
          BY <1>10 DEF Task
        <5> QED
          BY <1>2, <1>3, <1>10, <5>1
      <4> QED
        BY <1>1, <1>10, <4>1 DEF ValidTask, count
    <3> QED
      BY <3>1, <3>2
  <2>5. \A w \in Slots : busy[w] <=> job[w] # None
    BY <1>1 DEF NoShardLost
  <2>6. ASSUME NEW t \in q, NEW u \in q, t.id = u.id \/ SameShard(t, u)
        PROVE  t = u
    <3>1. CASE t \in queue /\ u \in queue
      BY <1>1, <2>6, <3>1 DEF HeldOnce
    <3>2. CASE t \in tasks /\ u \in tasks
      BY <1>11, <2>6, <3>2
    <3>3. ASSUME NEW x \in queue, NEW y \in tasks
          PROVE  x.id # y.id /\ x.handle # y.handle
      <4>1. y.id \in Nat
        BY <1>10 DEF Task
      <4> QED
        BY <1>2, <1>10, <1>13, <1>14, <4>1
    <3> QED
      BY <2>6, <3>1, <3>2, <3>3 DEF SameShard
  <2>7. ASSUME NEW t \in q, NEW w \in Slots
        PROVE  /\ Owes(w) => t.id # job[w].task.id /\ ~SameShard(t, job[w].task)
               /\ Unused(w, t.id)
    <3>1. CASE t \in queue
      BY <1>1, <3>1 DEF HeldOnce, RequestsAreFresh
    <3>2. CASE t \in tasks
      <4>1. t.id \in Nat /\ t.id > nextRequestID /\ t.handle = h
        BY <1>10, <3>2 DEF Task
      <4>2. Owes(w) => job[w].task.id \in Nat /\ job[w].task.id <= nextRequestID
        BY GoroutineTypes DEF Owes
      <4>3. Unused(w, t.id)
        BY <1>1, <1>2, <4>1 DEF Unused, WorkerTypes
      <4> QED
        BY <1>2, <1>13, <4>1, <4>2, <4>3 DEF SameShard
    <3> QED
      BY <2>7, <3>1, <3>2
  <2>8. Cardinality(q) + Cardinality({w \in Slots : busy[w]}) <= asyncQueueCapacity
    <3>1. Cardinality(queue) + Cardinality({w \in Slots : busy[w]}) + count <= asyncQueueCapacity
      BY DEF asyncQueueHasCapacity, inFlight, count
    <3>2. Cardinality({w \in Slots : busy[w]}) \in Nat
      BY SlotsFinite
    <3> QED
      BY <1>2, <2>2, <2>3, <3>1, <3>2
  <2>9. ASSUME NEW g \in Handles
        PROVE  pending'[g] = Cardinality({t \in q : t.handle = g}) + Cardinality(Uncounted(g, job))
    <3>1. CASE g = h
      <4>1. {t \in q : t.handle = g} = tasks
        BY <1>10, <1>13, <3>1
      <4>2. Uncounted(g, job) = {}
        BY <1>13, <3>1 DEF Uncounted, Owes, At
      <4>3. Cardinality(Uncounted(g, job)) = 0
        BY <4>2, FS_EmptySet
      <4>4. Cardinality({t \in q : t.handle = g}) = count
        BY <1>9, <4>1
      <4>5. pending'[g] = count
        BY <1>1, <1>3, <3>1 DEF SchedulerTypes
      <4> QED
        BY <1>2, <4>3, <4>4, <4>5
    <3>2. CASE g # h
      <4>1. {t \in q : t.handle = g} = {t \in queue : t.handle = g}
        BY <1>10, <3>2
      <4>2. pending'[g] = pending[g]
        BY <1>1, <1>3, <3>2 DEF SchedulerTypes
      <4>3. pending[g] = Cardinality({t \in queue : t.handle = g}) + Cardinality(Uncounted(g, job))
        BY <1>1 DEF NoShardLost, Uncounted
      <4> QED
        BY <4>1, <4>2, <4>3
    <3> QED
      BY <3>1, <3>2
  <2>10. /\ UNCHANGED <<engine, terminal, pool>>
         /\ busy \in [Slots -> BOOLEAN] /\ job \in [Slots -> Goroutines \cup {None}]
    BY <1>1, <1>3 DEF SchedulerTypes
  <2> HIDE DEF q
  <2> QED
    BY <2>1, <2>3, <2>4, <2>5, <2>6, <2>7, <2>8, <2>9, <2>10 DEF Pumpable
<1>17. /\ outcome' \in [Handles -> {"new", "open", "ok", "error", "refused"}] /\ outcome'[h] = "open"
       /\ pending' \in [Handles -> Nat] /\ pending'[h] = count
       /\ \A g \in Handles : g # h => outcome'[g] = outcome[g] /\ pending'[g] = pending[g]
       /\ freed' = freed /\ result' = result
  BY <1>1, <1>2, <1>3 DEF SchedulerTypes
<1>18. /\ PerSection(parts)' /\ parts'[h] = [i \in 1 .. count |-> None]
       /\ \A g \in Handles : g # h => parts'[g] = parts[g]
  <2> DEFINE p == [i \in 1 .. count |-> None]
  <2>1. parts = [g \in Handles |-> parts[g]]
    BY <1>1 DEF SchedulerTypes, PerSection
  <2>2. parts' = [parts EXCEPT ![h] = p]
    BY <1>3
  <2> HIDE DEF p
  <2>3. parts' = [g \in Handles |-> IF g = h THEN p ELSE parts[g]]
    BY <2>1, <2>2
  <2> QED
    BY <2>3 DEF PerSection, p
<1>19. \A g \in Handles : g # h => (Live(g)' <=> Live(g))
  BY <1>17 DEF Live
<1>20. Live(h)'
  BY <1>12, <1>17 DEF Live
<1>21. Sectioned(q)
  <2>1. SectionTypes'
    <3>1. \A g \in Handles : pending'[g] \in 0 .. Len(Ranges'[g])
      <4> SUFFICES ASSUME NEW g \in Handles
                   PROVE  pending'[g] \in 0 .. Len(Ranges[g])
        BY <1>1
      <4>1. CASE g = h
        <5>1. Len(Ranges[g]) = count
          BY <4>1 DEF count
        <5> QED
          BY <1>2, <1>17, <4>1, <5>1
      <4>2. CASE g # h
        BY <1>1, <1>17, <4>2 DEF SchedulerTypes
      <4> QED
        BY <4>1, <4>2
    <3>2. PerSection(result)'
      BY <1>1, <1>17 DEF SchedulerTypes, PerSection
    <3> QED
      BY <1>1, <1>3, <1>17, <1>18, <3>1, <3>2 DEF SectionTypes, SchedulerTypes
  <2>2. ASSUME NEW t \in q
        PROVE  Live(t.handle)' /\ parts'[t.handle][t.index] = None
    <3>1. CASE t \in tasks
      <4>1. t.handle = h /\ parts'[h][t.index] = None
        BY <1>10, <1>18, <3>1
      <4> QED
        BY <1>20, <4>1
    <3>2. CASE t \in queue
      <4>1. t.handle \in Handles /\ t.handle # h
        BY <1>13, <1>14, <3>2 DEF Task
      <4> QED
        BY <1>1, <1>18, <1>19, <3>2, <4>1 DEF NotSummedTwice
    <3> QED
      BY <2>2, <3>1, <3>2
  <2>3. ASSUME NEW g \in Handles
        PROVE  /\ Live(g) => Live(g)'
               /\ Live(g) => parts'[g] = parts[g] /\ pending'[g] = pending[g]
               /\ outcome[g] \notin {"new", "refused"} => /\ outcome'[g] \notin {"new", "refused"}
                                                          /\ pending'[g] = pending[g]
               /\ ~Live(g) /\ Live(g)' =>
                    /\ parts'[g] = [i \in 1 .. Len(Ranges[g]) |-> None]
                    /\ pending'[g] = Len(Ranges[g])
               /\ ~Live(g)' => pending'[g] = 0
               /\ outcome'[g] = "ok" => outcome[g] = "ok" /\ pending'[g] = pending[g]
               /\ freed'[g] => outcome'[g] = "ok"
               /\ result'[g] = result[g]
    <3>1. CASE g = h
      BY <1>12, <1>17, <1>18, <1>20, <3>1 DEF count
    <3>2. CASE g # h
      BY <1>1, <1>17, <1>18, <1>19, <3>2 DEF PendingIsExact
    <3> QED
      BY <3>1, <3>2
  <2> HIDE DEF q
  <2> QED
    BY <2>1, <2>2, <2>3 DEF Sectioned
<1> QED
  BY <1>4, <1>16, <1>21, PumpStep

\* A section that is dispatched is complete, queued or refused.
LEMMA DispatchStep ==
  ASSUME ShardInv, UNCHANGED engine, NEW h \in Handles, dispatchSection(h)
  PROVE  ShardInv'
<1>1. CASE Ranges[h] = <<>>
  BY <1>1, EmptyStep DEF dispatchSection
<1>2. CASE Ranges[h] # <<>> /\ ~terminal /\ asyncQueueHasCapacity(Len(Ranges[h]))
  BY <1>2, EnqueueStep DEF dispatchSection
<1>3. CASE Ranges[h] # <<>> /\ ~(~terminal /\ asyncQueueHasCapacity(Len(Ranges[h])))
  BY <1>3, RefuseStep DEF dispatchSection
<1> QED
  BY <1>1, <1>2, <1>3

\* A scheduler that was just created.
LEMMA InitShardInv == Init => ShardInv
<1> SUFFICES ASSUME Init PROVE ShardInv
  OBVIOUS
<1> USE DEF Init
<1>1. engine \in Engines /\ IsFiniteSet(queue) /\ \A S : S = {} => Cardinality(S) = 0
  BY FS_EmptySet
<1>2. /\ asyncQueueCapacity \in Nat /\ \A h \in Handles : Len(Ranges[h]) \in Nat
  BY <1>1, EngineFacts
<1>3. TypeOK
  <2>1. /\ busy \in [Slots -> BOOLEAN] /\ job \in [Slots -> Goroutines \cup {None}]
        /\ \A w \in Slots : job[w] = None
    OBVIOUS
  <2>2. /\ outcome \in [Handles -> {"new", "open", "ok", "error", "refused"}]
        /\ pending \in [Handles -> Nat] /\ freed \in [Handles -> BOOLEAN]
        /\ PerSection(parts) /\ PerSection(result)
    BY DEF PerSection
  <2>3. \A h \in Handles : pending[h] \in 0 .. Len(Ranges[h])
    BY <1>2
  <2>4. /\ working \in [Slots -> SUBSET [id : 1 .. nextRequestID, handle : Handles,
                                          index : Nat, intact : BOOLEAN]]
        /\ \A w \in Slots : working[w] = {}
    OBVIOUS
  <2>5. replies \in [Slots -> [kind : {"partial", "fetch", "fatal", "lost"},
                               id : 0 .. nextRequestID, part : Sum \cup {None}] \cup {None}]
    OBVIOUS
  <2>6. queue = {} /\ handles \subseteq Handles /\ nextRequestID \in Nat
        /\ terminal \in BOOLEAN /\ closed \in BOOLEAN
    OBVIOUS
  <2> QED
    BY <1>1, <2>1, <2>2, <2>3, <2>4, <2>5, <2>6 DEF TypeOK
<1>4. \A h \in Handles : ~Live(h)
  BY DEF Live
<1>5. \A w \in Slots : ~Owes(w) /\ \A s : ~At(w, s)
  BY DEF Owes, At
<1>6. HeldOnce /\ NotSummedTwice /\ RequestsAreFresh /\ AttemptsLeft
  BY <1>5 DEF HeldOnce, NotSummedTwice, RequestsAreFresh, AttemptsLeft
<1>7. PendingIsExact /\ SumsAreRight
  BY <1>4, <1>5 DEF PendingIsExact, SumsAreRight
<1>8. {w \in Slots : busy[w]} = {}
  OBVIOUS
<1>9. QueueBounded
  <2>1. Cardinality(queue) = 0 /\ Cardinality({w \in Slots : busy[w]}) = 0
    BY <1>1, <1>8
  <2> QED
    BY <1>2, <2>1 DEF QueueBounded, inFlight
<1>10. NoShardLost
  <2> SUFFICES ASSUME NEW h \in Handles
               PROVE  pending[h] = Cardinality({t \in queue : t.handle = h}) + Cardinality(Uncounted(h, job))
    BY DEF NoShardLost, Uncounted
  <2>1. {t \in queue : t.handle = h} = {} /\ Uncounted(h, job) = {}
    BY DEF Uncounted
  <2>2. Cardinality({t \in queue : t.handle = h}) = 0 /\ Cardinality(Uncounted(h, job)) = 0
    BY <1>1, <2>1
  <2> QED
    BY <2>2
<1> QED
  BY <1>3, <1>6, <1>7, <1>9, <1>10 DEF ShardInv

\* The invariant speaks of the variables alone.
LEMMA StutterShardInv == ASSUME ShardInv, UNCHANGED vars PROVE ShardInv'
<1>1. UNCHANGED <<engine, queue, busy, job, terminal, nextRequestID, pool, sections>>
  BY DEF vars
<1>2. Quiet /\ AttemptsLeft' /\ \A w \in Slots : \A s : At(w, s)' <=> At(w, s)
  BY <1>1, WorkersAlone
<1>3. nextRequestID \in Nat
  BY DEF ShardInv, TypeOK
<1>4. WorkerTypes'
  BY <1>1, <1>3, WorkersUnchanged DEF pool
<1>5. RequestsAreFresh'
  BY <1>1, <1>2, FreshKept DEF pool
<1> QED
  BY <1>2, <1>4, <1>5, QuietInv

\* Every step keeps the invariant.
LEMMA NextShardInv == ASSUME ShardInv, [Next]_vars PROVE ShardInv'
<1>1. ASSUME NEW w \in Slots, Goroutine(w) PROVE ShardInv'
  <2>1. UNCHANGED engine
    BY <1>1 DEF Goroutine
  <2>2. CASE Run(w)
    BY <2>1, <2>2, RunStep
  <2>3. CASE TakeReply(w)
    BY <2>1, <2>3, TakeReplyStep
  <2>4. CASE WaitExpires(w)
    BY <2>1, <2>4, WaitExpiresStep
  <2>5. CASE Store(w)
    BY <2>1, <2>5, StoreStep
  <2>6. CASE Count(w)
    BY <2>1, <2>6, CountStep
  <2>7. CASE Settle(w)
    BY <2>1, <2>7, SettleStep
  <2>8. CASE Free(w)
    BY <2>1, <2>8, FreeStep
  <2>9. CASE Retry(w)
    BY <2>1, <2>9, RetryStep
  <2>10. CASE Replace(w)
    BY <2>1, <2>10, ReplaceStep
  <2>11. CASE Again(w)
    BY <2>1, <2>11, AgainStep
  <2>12. CASE Backoff(w)
    BY <2>1, <2>12, BackoffStep
  <2> QED
    BY <1>1, <2>2, <2>3, <2>4, <2>5, <2>6, <2>7, <2>8, <2>9, <2>10, <2>11, <2>12 DEF Goroutine
<1>2. CASE Shutdown
  BY <1>2, ClosePoolStep DEF Shutdown
<1>3. ASSUME NEW h \in Handles, UNCHANGED engine, dispatchSection(h) \/ Collect(h) PROVE ShardInv'
  BY <1>3, DispatchStep, CollectStep
<1>4. CASE UNCHANGED engine /\ CancelOutstanding
  BY <1>4, FailStep DEF CancelOutstanding
<1>5. ASSUME NEW w \in Slots, UNCHANGED engine, WorkerAnswers(w) \/ WorkerErrors(w) PROVE ShardInv'
  BY <1>5, WorkerAnswersStep, WorkerErrorsStep
<1>6. CASE UNCHANGED vars
  BY <1>6, StutterShardInv
<1> QED
  BY <1>1, <1>2, <1>3, <1>4, <1>5, <1>6 DEF Next

\* The inductive invariant holds for any sections, workers and engines.
THEOREM ShardsAccounted == Spec => []ShardInv
<1>1. ShardInv /\ [Next]_vars => ShardInv'
  BY NextShardInv
<1> QED
  BY <1>1, InitShardInv, PTL DEF Spec

\* The scheduler's slots, queue and counters agree: the bound of the queue holds,
\* and no shard of an open section is without a goroutine or a place in the queue.
THEOREM SchedulerIsSound == Spec => []SchedulerInv
<1>1. ShardInv => SchedulerInv
  BY DEF ShardInv, SchedulerInv
<1> QED
  BY <1>1, ShardsAccounted, PTL

\* What a collect returns is the sum of its section: however shards were cut,
\* retried, answered late or answered twice, every scalar is added exactly once.
THEOREM CollectedSumsAreExact == Spec => []ExactSum
<1>1. ASSUME ShardInv PROVE ExactSum
  <2> SUFFICES ASSUME NEW h \in Handles, result[h] # None
               PROVE  /\ \A i \in DOMAIN result[h] : result[h][i] # None /\ result[h][i][1] = h
                      /\ \A i, k \in DOMAIN result[h] :
                              i # k => result[h][i][2] \cap result[h][k][2] = {}
                      /\ UNION {result[h][i][2] : i \in DOMAIN result[h]} = 0 .. Size[h] - 1
    BY DEF ExactSum
  <2>1. engine \in Engines /\ result[h] = [i \in 1 .. Len(Ranges[h]) |-> <<h, Ranges[h][i]>>]
    BY <1>1 DEF ShardInv, TypeOK, SumsAreRight
  <2>2. /\ Size[h] \in Nat
        /\ \A i \in 1 .. Len(Ranges[h]) : Ranges[h][i] \in SUBSET (0 .. Size[h] - 1)
        /\ \A i, k \in 1 .. Len(Ranges[h]) : i # k => Ranges[h][i] \cap Ranges[h][k] = {}
        /\ \A x \in 0 .. Size[h] - 1 : \E i \in 1 .. Len(Ranges[h]) : x \in Ranges[h][i]
    BY <2>1, EngineFacts
  <2>3. /\ DOMAIN result[h] = 1 .. Len(Ranges[h])
        /\ \A i \in 1 .. Len(Ranges[h]) : result[h][i][1] = h /\ result[h][i][2] = Ranges[h][i]
    BY <2>1
  <2>4. \A i \in 1 .. Len(Ranges[h]) : result[h][i] # None
    BY <2>1, ShardSum
  <2>5. UNION {result[h][i][2] : i \in DOMAIN result[h]} = 0 .. Size[h] - 1
    <3>1. {result[h][i][2] : i \in DOMAIN result[h]} = {Ranges[h][i] : i \in 1 .. Len(Ranges[h])}
      BY <2>3
    <3>2. UNION {Ranges[h][i] : i \in 1 .. Len(Ranges[h])} = 0 .. Size[h] - 1
      BY <2>2, SMTT(60)
    <3> QED
      BY <3>1, <3>2
  <2>6. \A i \in DOMAIN result[h] : result[h][i] # None /\ result[h][i][1] = h
    BY <2>3, <2>4
  <2>7. ASSUME NEW i \in DOMAIN result[h], NEW k \in DOMAIN result[h], i # k
        PROVE  result[h][i][2] \cap result[h][k][2] = {}
    <3>1. i \in 1 .. Len(Ranges[h]) /\ k \in 1 .. Len(Ranges[h])
      BY <2>3, <2>7
    <3>2. result[h][i][2] = Ranges[h][i] /\ result[h][k][2] = Ranges[h][k]
      BY <2>3, <3>1
    <3> QED
      BY <2>2, <2>7, <3>1, <3>2
  <2> QED
    BY <2>5, <2>6, <2>7
<1> QED
  BY <1>1, ShardsAccounted, PTL

\* A collect never drops scalars or sums under a goroutine that still uses them.
THEOREM NoGoroutineOutlivesCollect == Spec => []NoUseAfterCollect
<1>1. ASSUME ShardInv PROVE NoUseAfterCollect
  BY <1>1 DEF ShardInv, NotSummedTwice, NoUseAfterCollect, Owes, Live
<1> QED
  BY <1>1, ShardsAccounted, PTL

-----------------------------------------------------------------------------
(* Failure and outcomes. *)

\* A scheduler without sections satisfies OpenIsRegistered.
LEMMA InitOpenIsRegistered == Init => OpenIsRegistered
  BY DEF Init, OpenIsRegistered

\* fail settles exactly the registered sections that are open, and empties
\* the registry.
LEMMA FailSettles ==
  ASSUME OpenIsRegistered, NEW j, fail(j)
  PROVE  /\ OpenIsRegistered'
         /\ \A h \in Handles : outcome[h] \in {"ok", "error"} => outcome'[h] = outcome[h]
  BY DEF OpenIsRegistered, fail, Completed

\* The steps of a slot's goroutine that neither fail nor settle leave every
\* outcome and the registry alone.
LEMMA GoroutineSteps ==
  ASSUME OpenIsRegistered, NEW w \in Slots, Goroutine(w)
  PROVE  /\ OpenIsRegistered'
         /\ \A h \in Handles : outcome[h] \in {"ok", "error"} => outcome'[h] = outcome[h]
<1>1. CASE Run(w)
  <2>1. CASE closed
    BY <1>1, <2>1, FailSettles DEF Run
  <2>2. CASE ~closed
    BY <1>1, <2>2 DEF Run, sections, OpenIsRegistered
  <2> QED
    BY <2>1, <2>2
<1>2. CASE TakeReply(w)
  BY <1>2 DEF TakeReply, WaitEnds, sections, OpenIsRegistered
<1>3. CASE WaitExpires(w)
  BY <1>3 DEF WaitExpires, WaitEnds, sections, OpenIsRegistered
<1>4. CASE Store(w) \/ Count(w)
  BY <1>4 DEF Store, Count, OpenIsRegistered
<1>5. CASE Settle(w)
  BY <1>5 DEF Settle, Completed, OpenIsRegistered
<1>6. CASE Free(w)
  BY <1>6 DEF Free, sections, OpenIsRegistered
<1>7. CASE Retry(w)
  <2>1. CASE job[w].cause = "fatal" \/ job[w].task.attempt >= MaxAttempts
    BY <1>7, <2>1, FailSettles DEF Retry
  <2>2. CASE ~(job[w].cause = "fatal" \/ job[w].task.attempt >= MaxAttempts)
    BY <1>7, <2>2 DEF Retry, sections, OpenIsRegistered
  <2> QED
    BY <2>1, <2>2
<1>8. CASE Replace(w)
  <2>1. CASE closed
    BY <1>8, <2>1, FailSettles DEF Replace
  <2>2. CASE ~closed
    BY <1>8, <2>2 DEF Replace, sections, OpenIsRegistered
  <2> QED
    BY <2>1, <2>2
<1>9. CASE Again(w) \/ Backoff(w)
  BY <1>9 DEF Again, Backoff, sections, OpenIsRegistered
<1> QED
  BY <1>1, <1>2, <1>3, <1>4, <1>5, <1>6, <1>7, <1>8, <1>9 DEF Goroutine

\* Every step keeps open sections registered and settled outcomes as they are.
LEMMA NextOpenIsRegistered ==
  ASSUME OpenIsRegistered, [Next]_vars
  PROVE  /\ OpenIsRegistered'
         /\ \A h \in Handles : outcome[h] \in {"ok", "error"} => outcome'[h] = outcome[h]
<1>1. ASSUME NEW h \in Handles, dispatchSection(h)
      PROVE  /\ OpenIsRegistered'
             /\ \A g \in Handles : outcome[g] \in {"ok", "error"} => outcome'[g] = outcome[g]
  <2>1. CASE Enqueue(h) /\ ~terminal
    BY <1>1, <2>1 DEF Enqueue, OpenIsRegistered, dispatchSection
  <2>2. CASE Refuse(h)
    BY <1>1, <2>2 DEF Refuse, OpenIsRegistered, dispatchSection
  <2>3. CASE outcome' = [outcome EXCEPT ![h] = "ok"] /\ UNCHANGED <<terminal, handles>>
    BY <1>1, <2>3 DEF OpenIsRegistered, dispatchSection
  <2> QED
    BY <1>1, <2>1, <2>2, <2>3 DEF dispatchSection
<1>2. ASSUME NEW h \in Handles, Collect(h)
      PROVE  /\ OpenIsRegistered'
             /\ \A g \in Handles : outcome[g] \in {"ok", "error"} => outcome'[g] = outcome[g]
  BY <1>2 DEF Collect, OpenIsRegistered
<1>3. CASE CancelOutstanding
  BY <1>3, FailSettles DEF CancelOutstanding
<1>4. CASE ClosePool
  BY <1>4 DEF ClosePool, sections, OpenIsRegistered
<1>5. ASSUME NEW w \in Slots, WorkerAnswers(w) \/ WorkerErrors(w)
      PROVE  /\ OpenIsRegistered'
             /\ \A g \in Handles : outcome[g] \in {"ok", "error"} => outcome'[g] = outcome[g]
  <2>1. CASE WorkerAnswers(w)
    <3>1. UNCHANGED <<terminal, sections>>
      BY <2>1, Zenon DEF WorkerAnswers
    <3> QED
      BY <3>1 DEF sections, OpenIsRegistered
  <2>2. CASE WorkerErrors(w)
    BY <2>2 DEF WorkerErrors, sections, OpenIsRegistered
  <2> QED
    BY <1>5, <2>1, <2>2
<1>6. CASE UNCHANGED vars
  BY <1>6 DEF vars, sections, OpenIsRegistered
<1> QED
  BY <1>1, <1>2, <1>3, <1>4, <1>5, <1>6, GoroutineSteps DEF Next, Shutdown

\* Open sections are registered throughout.
LEMMA AlwaysRegistered == Spec => []OpenIsRegistered
<1>1. OpenIsRegistered /\ [Next]_vars => OpenIsRegistered'
  BY NextOpenIsRegistered
<1> QED
  BY InitOpenIsRegistered, <1>1, PTL DEF Spec

\* Once the scheduler has failed, no collect of a dispatched section waits.
THEOREM FailureSettles == Spec => []FailureSettlesAll
<1>1. OpenIsRegistered => FailureSettlesAll
  BY DEF OpenIsRegistered, FailureSettlesAll
<1> QED
  BY <1>1, AlwaysRegistered, PTL

\* A settled section keeps its outcome, whichever of complete and fail comes
\* second.
THEOREM OutcomeStands == Spec => OutcomeFinal
<1> DEFINE Kept == \A h \in Handles :
                      outcome[h] \in {"ok", "error"} => outcome'[h] = outcome[h]
<1>1. OpenIsRegistered /\ [Next]_vars => [Kept]_vars
  BY NextOpenIsRegistered
<1> QED
  BY <1>1, AlwaysRegistered, PTL DEF Spec, OutcomeFinal
=============================================================================
