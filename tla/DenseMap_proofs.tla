--------------------------- MODULE DenseMap_proofs ---------------------------
(***************************************************************************)
(* The hash table keeps its promise: for any keys, hashes, widths and      *)
(* ranges, and after any operations, every value has exactly one bucket,   *)
(* the buckets are in the order that lets searches end early, every key    *)
(* is found and no other, erasing several values erases these, and the     *)
(* table implements AtomicMap.                                             *)
(***************************************************************************)
EXTENDS DenseMap, FiniteSetTheorems, SequenceTheorems, WellFoundedInduction, TLAPS

----------------------------------------------------------------------------
(* Numbers and iteration.                                                  *)

\* A nonempty set of natural numbers has a least element.
LEMMA LeastNat ==
  ASSUME NEW T, T \subseteq Nat, T # {}
  PROVE  \E x \in T : \A y \in T : x <= y
<1> DEFINE R == {p \in Nat \X Nat : p[1] < p[2]}
<1>1. IsWellFoundedOn(R, Nat)
  BY NatLessThanWellFounded, Zenon DEF OpToRel
<1>2. \A x, y \in Nat : <<y, x>> \notin R => x <= y
  OBVIOUS
<1> HIDE DEF R
<1>3. \E x \in T : \A y \in T : ~(<<y, x>> \in R)
  BY <1>1, WFMin, Zenon
<1> QED
  BY <1>2, <1>3

\* A set with 0 that has n + 1 if it has n has every natural number.
LEMMA NatsAll ==
  ASSUME NEW S, 0 \in S, \A n \in Nat : n \in S => n + 1 \in S
  PROVE  Nat \subseteq S
<1> DEFINE T == Nat \ S
<1> SUFFICES ASSUME T # {} PROVE FALSE
  OBVIOUS
<1>1. PICK x \in T : \A y \in T : x <= y
  BY LeastNat
<1>2. x - 1 \in Nat /\ x - 1 \notin T
  BY <1>1
<1> QED
  BY <1>1, <1>2

\* The values of an iteration from a, up to the n-th.
RunsTo(U, F, a, n) ==
  {g \in [0 .. n -> U] : g[0] = a /\ \A i \in 1 .. n : g[i] = F[i][g[i - 1]]}

\* Two such tables agree where both are defined.
LEMMA RunsAgree ==
  ASSUME NEW U, NEW F, NEW a, NEW m \in Nat, NEW n \in Nat,
         NEW g \in RunsTo(U, F, a, m), NEW h \in RunsTo(U, F, a, n)
  PROVE  \A i \in Nat : i <= m /\ i <= n => g[i] = h[i]
<1> DEFINE S == {i \in Nat : i <= m /\ i <= n => g[i] = h[i]}
<1>1. 0 \in S
  BY DEF RunsTo
<1>2. ASSUME NEW i \in Nat, i \in S PROVE i + 1 \in S
  <2>1. SUFFICES ASSUME i + 1 <= m, i + 1 <= n PROVE g[i + 1] = h[i + 1]
    OBVIOUS
  <2>2. g[i] = h[i]
    BY <1>2, <2>1
  <2>3. i + 1 \in 1 .. m /\ i + 1 \in 1 .. n /\ (i + 1) - 1 = i
    BY <2>1
  <2>4. g[i + 1] = F[i + 1][g[i]] /\ h[i + 1] = F[i + 1][h[i]]
    BY <2>3 DEF RunsTo
  <2> QED BY <2>2, <2>4
<1> HIDE DEF S
<1>3. Nat \subseteq S
  BY <1>1, <1>2, NatsAll
<1> QED
  BY <1>3 DEF S

\* There is a table for every n.
LEMMA RunsExist ==
  ASSUME NEW U, NEW F \in [Nat -> [U -> U]], NEW a \in U
  PROVE  \A n \in Nat : RunsTo(U, F, a, n) # {}
<1> DEFINE S == {n \in Nat : RunsTo(U, F, a, n) # {}}
<1>1. 0 \in S
  <2>1. [i \in 0 .. 0 |-> a] \in RunsTo(U, F, a, 0)
    BY DEF RunsTo
  <2> QED BY <2>1
<1>2. ASSUME NEW n \in Nat, n \in S PROVE n + 1 \in S
  <2>1. PICK g : g \in RunsTo(U, F, a, n)
    BY <1>2
  <2> DEFINE h == [i \in 0 .. n + 1 |-> IF i = n + 1 THEN F[n + 1][g[n]] ELSE g[i]]
  <2>2. g \in [0 .. n -> U] /\ g[0] = a /\ \A i \in 1 .. n : g[i] = F[i][g[i - 1]]
    BY <2>1 DEF RunsTo
  <2>3. F[n + 1][g[n]] \in U
    <3>1. F[n + 1] \in [U -> U] /\ g[n] \in U
      BY <2>2
    <3> QED BY <3>1
  <2>4. h \in [0 .. n + 1 -> U] /\ h[0] = a
    BY <2>2, <2>3
  <2>5. ASSUME NEW i \in 1 .. n + 1 PROVE h[i] = F[i][h[i - 1]]
    BY <2>2
  <2>6. h \in RunsTo(U, F, a, n + 1)
    BY <2>4, <2>5 DEF RunsTo
  <2> QED BY <2>6
<1> HIDE DEF S
<1>3. Nat \subseteq S
  BY <1>1, <1>2, NatsAll
<1> QED
  BY <1>3 DEF S

Iterates(U, F, a, g) ==
  /\ g \in [Nat -> U]
  /\ g[0] = a
  /\ \A n \in Nat : g[n + 1] = F[n + 1][g[n]]

\* An iteration whose steps stay in U has a value for every number of steps.
LEMMA Iteration ==
  ASSUME NEW U, NEW F \in [Nat -> [U -> U]], NEW a \in U
  PROVE  \E g : Iterates(U, F, a, g)
<1> DEFINE T(n) == CHOOSE g : g \in RunsTo(U, F, a, n)
           G == [n \in Nat |-> T(n)[n]]
<1>1. \A n \in Nat : T(n) \in RunsTo(U, F, a, n)
  BY RunsExist
<1> HIDE DEF T
<1>2. G \in [Nat -> U]
  <2>1. ASSUME NEW n \in Nat PROVE T(n)[n] \in U
    <3>1. T(n) \in RunsTo(U, F, a, n) /\ n \in 0 .. n
      BY <1>1
    <3> QED BY <3>1 DEF RunsTo
  <2> QED BY <2>1
<1>3. G[0] = a
  BY <1>1 DEF RunsTo
<1>4. ASSUME NEW n \in Nat PROVE G[n + 1] = F[n + 1][G[n]]
  <2>1. n + 1 \in Nat /\ (n + 1) - 1 = n /\ n + 1 \in 1 .. n + 1 /\ n <= n + 1 /\ n <= n
    OBVIOUS
  <2>2. T(n) \in RunsTo(U, F, a, n) /\ T(n + 1) \in RunsTo(U, F, a, n + 1)
    BY <1>1, <2>1
  <2>3. T(n + 1)[n] = T(n)[n]
    BY <2>1, <2>2, RunsAgree
  <2>4. T(n + 1)[n + 1] = F[n + 1][T(n + 1)[n]]
    BY <2>1, <2>2 DEF RunsTo
  <2> QED BY <2>1, <2>3, <2>4
<1>5. Iterates(U, F, a, G)
  BY <1>2, <1>3, <1>4 DEF Iterates
<1> QED
  BY <1>5

\* The powers of two are positive numbers, each twice the one before.
LEMMA Powers ==
  /\ Power[0] = 1
  /\ \A n \in Nat : Power[n] \in Nat \ {0} /\ Power[n + 1] = 2 * Power[n]
<1> DEFINE U == Nat
           F == [n \in Nat |-> [x \in U |-> 2 * x]]
<1>1. PICK g : Iterates(U, F, 1, g)
  <2>1. F \in [Nat -> [U -> U]] /\ 1 \in U
    OBVIOUS
  <2> HIDE DEF U, F
  <2> QED BY <2>1, Iteration
<1>2. g = [n \in Nat |-> IF n = 0 THEN 1 ELSE 2 * g[n - 1]]
  <2>1. ASSUME NEW n \in Nat PROVE g[n] = IF n = 0 THEN 1 ELSE 2 * g[n - 1]
    <3>1. CASE n = 0
      BY <1>1, <3>1 DEF Iterates
    <3>2. CASE n # 0
      <4>1. n - 1 \in Nat /\ (n - 1) + 1 = n
        BY <3>2
      <4>2. g[(n - 1) + 1] = F[(n - 1) + 1][g[n - 1]]
        BY <1>1, <4>1 DEF Iterates
      <4>3. F[n][g[n - 1]] = 2 * g[n - 1]
        BY <1>1, <4>1 DEF Iterates
      <4> HIDE DEF F
      <4> QED BY <3>2, <4>1, <4>2, <4>3
    <3> QED BY <3>1, <3>2
  <2>2. g = [n \in Nat |-> g[n]]
    BY <1>1 DEF Iterates
  <2> QED BY <2>1, <2>2
<1>3. Power = [n \in Nat |-> IF n = 0 THEN 1 ELSE 2 * Power[n - 1]]
  <2>1. \E f : f = [n \in Nat |-> IF n = 0 THEN 1 ELSE 2 * f[n - 1]]
    BY <1>2, Zenon
  <2> QED BY <2>1, Zenon DEF Power
<1>4. Power[0] = 1
  BY <1>3
<1>5. \A n \in Nat : Power[n + 1] = 2 * Power[n]
  <2> TAKE n \in Nat
  <2>1. n + 1 \in Nat /\ n + 1 # 0 /\ (n + 1) - 1 = n
    OBVIOUS
  <2> QED BY <1>3, <2>1
<1> DEFINE S == {n \in Nat : Power[n] \in Nat \ {0}}
<1>6. 0 \in S
  BY <1>4
<1>7. ASSUME NEW n \in Nat, n \in S PROVE n + 1 \in S
  BY <1>5, <1>7
<1> HIDE DEF S
<1>8. Nat \subseteq S
  BY <1>6, <1>7, NatsAll
<1> QED
  BY <1>4, <1>5, <1>8 DEF S

\* They grow with the exponent, and multiply when exponents are added.
LEMMA PowersGrow ==
  ASSUME NEW m \in Nat, NEW n \in Nat
  PROVE  /\ Power[m + n] = Power[m] * Power[n]
         /\ m < n => Power[m] < Power[n]
         /\ m <= n => Power[m] <= Power[n]
<1> DEFINE S == {i \in Nat : Power[m + i] = Power[m] * Power[i] /\ (i > 0 => Power[m + i] > Power[m])}
<1>1. 0 \in S
  BY Powers
<1>2. ASSUME NEW i \in Nat, i \in S PROVE i + 1 \in S
  <2> DEFINE a == Power[m]
             b == Power[i]
             c == Power[m + i]
             d == Power[i + 1]
             e == Power[m + (i + 1)]
  <2>1. m + i \in Nat /\ (m + i) + 1 = m + (i + 1)
    OBVIOUS
  <2>2. a \in Nat \ {0} /\ b \in Nat \ {0} /\ c \in Nat \ {0} /\ d = 2 * b /\ e = 2 * c
    BY <2>1, Powers
  <2>3. c = a * b /\ (i > 0 => c > a) /\ (i = 0 => c = a)
    BY <1>2
  <2> HIDE DEF a, b, c, d, e
  <2>4. e = a * d
    BY <2>2, <2>3
  <2>5. e > a
    BY <2>2, <2>3
  <2> QED BY <2>4, <2>5 DEF a, b, c, d, e
<1> HIDE DEF S
<1>3. Nat \subseteq S
  BY <1>1, <1>2, NatsAll
<1>4. Power[m + n] = Power[m] * Power[n]
  BY <1>3 DEF S
<1>5. ASSUME m < n PROVE Power[m] < Power[n]
  <2>1. n - m \in Nat /\ n - m > 0 /\ m + (n - m) = n
    BY <1>5
  <2>2. n - m \in S
    BY <1>3, <2>1
  <2> QED BY <2>1, <2>2, Powers DEF S
<1>6. ASSUME m <= n PROVE Power[m] <= Power[n]
  BY <1>5, <1>6, Powers, SMTT(30)
<1> QED
  BY <1>4, <1>5, <1>6

\* g has the values of a loop of n rounds F from a on, which are in X[0], ...,
\* X[n] one after the other.
LoopFits(n, X, F) == \A i \in 1 .. n : F[i] \in [X[i - 1] -> X[i]]
LoopValues(n, X, F, a, g) ==
  /\ g = [i \in 0 .. n |-> IF i = 0 THEN a ELSE F[i][g[i - 1]]]
  /\ \A i \in 0 .. n : g[i] \in X[i]

\* There are such values if each round leads from one set to the next.
LEMMA LoopRuns ==
  ASSUME NEW n \in Nat, NEW X, NEW F, NEW a, a \in X[0], LoopFits(n, X, F)
  PROVE  \E g : LoopValues(n, X, F, a, g)
<1> DEFINE U == UNION {X[i] : i \in 0 .. n}
           G == [i \in Nat |-> [x \in U |-> IF i \in 1 .. n /\ x \in X[i - 1] THEN F[i][x] ELSE x]]
<1>0. \A i \in 1 .. n : F[i] \in [X[i - 1] -> X[i]]
  BY DEF LoopFits
<1>1. \A i \in 0 .. n : X[i] \subseteq U
  OBVIOUS
<1>2. a \in U
  BY <1>1
<1>3. G \in [Nat -> [U -> U]]
  <2>1. ASSUME NEW i \in Nat, NEW x \in U
        PROVE  (IF i \in 1 .. n /\ x \in X[i - 1] THEN F[i][x] ELSE x) \in U
    <3>1. CASE i \in 1 .. n /\ x \in X[i - 1]
      <4>1. F[i][x] \in X[i] /\ i \in 0 .. n
        BY <1>0, <3>1
      <4> QED BY <1>1, <3>1, <4>1
    <3> QED BY <3>1
  <2> QED BY <2>1
<1>4. PICK g : g \in RunsTo(U, G, a, n)
  <2> HIDE DEF U, G
  <2> QED BY <1>2, <1>3, RunsExist
<1>5. /\ g \in [0 .. n -> U] /\ g[0] = a
      /\ \A i \in 1 .. n : g[i] = G[i][g[i - 1]]
  BY <1>4 DEF RunsTo
<1> HIDE DEF U
<1>6. ASSUME NEW i \in 1 .. n, g[i - 1] \in X[i - 1] PROVE g[i] = F[i][g[i - 1]] /\ g[i] \in X[i]
  <2>1. i - 1 \in 0 .. n /\ i \in Nat
    OBVIOUS
  <2>2. g[i - 1] \in U
    BY <1>5, <2>1
  <2>3. G[i][g[i - 1]] = F[i][g[i - 1]]
    BY <1>6, <2>1, <2>2
  <2>4. F[i][g[i - 1]] \in X[i]
    BY <1>0, <1>6
  <2> HIDE DEF G
  <2> QED BY <1>5, <2>3, <2>4
<1> DEFINE S == {i \in Nat : i <= n => g[i] \in X[i]}
<1>7. 0 \in S
  BY <1>5
<1>8. ASSUME NEW i \in Nat, i \in S PROVE i + 1 \in S
  <2>1. CASE i + 1 <= n
    <3>1. i + 1 \in 1 .. n /\ (i + 1) - 1 = i /\ g[i] \in X[i]
      BY <1>8, <2>1
    <3> QED BY <1>6, <3>1
  <2> QED BY <2>1
<1> HIDE DEF S
<1>9. Nat \subseteq S
  BY <1>7, <1>8, NatsAll
<1>10. \A i \in 0 .. n : g[i] \in X[i]
  BY <1>9 DEF S
<1>11. \A i \in 1 .. n : g[i] = F[i][g[i - 1]]
  <2> TAKE i \in 1 .. n
  <2>1. i - 1 \in 0 .. n
    OBVIOUS
  <2> QED BY <1>6, <1>10, <2>1
<1>12. g = [i \in 0 .. n |-> IF i = 0 THEN a ELSE F[i][g[i - 1]]]
  BY <1>5, <1>11
<1> QED
  BY <1>10, <1>12 DEF LoopValues

\* What holds before a loop, and is kept by each round, holds after it.
LEMMA LoopKeeps ==
  ASSUME NEW n \in Nat, NEW X, NEW f, f[0] \in X[0],
         \A i \in 1 .. n : f[i - 1] \in X[i - 1] => f[i] \in X[i]
  PROVE  f[n] \in X[n]
<1> DEFINE S == {i \in Nat : i <= n => f[i] \in X[i]}
<1>1. 0 \in S
  OBVIOUS
<1>2. ASSUME NEW i \in Nat, i \in S PROVE i + 1 \in S
  <2>1. CASE i + 1 <= n
    <3>1. i + 1 \in 1 .. n /\ (i + 1) - 1 = i /\ f[i] \in X[i]
      BY <1>2, <2>1
    <3> QED BY <3>1
  <2> QED BY <2>1
<1> HIDE DEF S
<1>3. Nat \subseteq S
  BY <1>1, <1>2, NatsAll
<1> QED
  BY <1>3 DEF S

----------------------------------------------------------------------------
(* The inductive invariant.                                                *)

Bucket == [dist_and_fingerprint : Nat, value_idx : Nat]
Table ==
  [m_values : Seq(Key \X Val),
   m_buckets : UNION {[0 .. n - 1 -> Bucket] : n \in Nat},
   m_max_bucket_capacity : Nat, m_max_load_factor : Nat, m_shifts : Nat]

\* n steps on from bucket b of N, at most once around.
Hop(N, b, n) == IF b + n < N THEN b + n ELSE b + n - N

Df(T, b) == T.m_buckets[b].dist_and_fingerprint
Idx(T, b) == T.m_buckets[b].value_idx

\* A table that has buckets, as many as its shift asks for.
Allocated(T) ==
  /\ T \in Table
  /\ T.m_shifts \in 0 .. initial_shifts
  /\ bucket_count(T) = calc_num_buckets(T.m_shifts)
  /\ T.m_buckets \in [0 .. bucket_count(T) - 1 -> Bucket]

\* Bucket b is vacant, or it is where the key of its value may be searched
\* for, and knows its distance from home.
Stands(T, I, b) ==
  \/ T.m_buckets[b] = Vacant
  \/ /\ Idx(T, b) \in I
     /\ \E n \in 0 .. bucket_count(T) - 1 :
          /\ b = Hop(bucket_count(T), Home(T, get_key(T, Idx(T, b))), n)
          /\ Df(T, b) = Dist(get_key(T, Idx(T, b)), n)

\* No bucket is more than one step farther from home than the one before, and
\* one is at home or vacant: loops over a run of buckets end.
Ordered(T) ==
  \A b \in 0 .. bucket_count(T) - 1 :
    \/ Df(T, b) < 2 * dist_inc
    \/ Df(T, b) <= Df(T, Hop(bucket_count(T), b, bucket_count(T) - 1)) + dist_inc
SomeAtHome(T) == \E b \in 0 .. bucket_count(T) - 1 : Df(T, b) < 2 * dist_inc
SomeVacant(T) == \E b \in 0 .. bucket_count(T) - 1 : T.m_buckets[b] = Vacant

\* The values with an index in I have buckets, one each, and others have none.
Sound(T, I) ==
  /\ \A b \in 0 .. bucket_count(T) - 1 : Stands(T, I, b)
  /\ \A idx \in I : \E b \in 0 .. bucket_count(T) - 1 :
       T.m_buckets[b] # Vacant /\ Idx(T, b) = idx
  /\ \A b, c \in 0 .. bucket_count(T) - 1 :
       T.m_buckets[b] # Vacant /\ T.m_buckets[c] # Vacant /\ Idx(T, b) = Idx(T, c) => b = c
  /\ Ordered(T)
  /\ SomeAtHome(T)
  /\ I \subseteq 0 .. size(T) - 1
  /\ \A i, j \in I : get_key(T, i) = get_key(T, j) => i = j

\* The widths of a table fit each other: it is full at its maximum load.
Indices(T) == 0 .. size(T) - 1
Framed(T) ==
  /\ T \in Table
  /\ T.m_shifts \in 0 .. initial_shifts
  /\ T.m_max_load_factor \in Percents \cup {default_max_load_factor}
  /\ T.m_max_bucket_capacity =
       IF bucket_count(T) = max_bucket_count THEN max_bucket_count
       ELSE Load(bucket_count(T), T.m_max_load_factor)

\* A table between two operations has a bucket for each value, or no buckets
\* at all, after a failed allocation; keys are different then, too.
Exact(T) == Allocated(T) /\ Sound(T, Indices(T))
Distinct(T) == \A i, j \in Indices(T) : get_key(T, i) = get_key(T, j) => i = j
Ready(T) == Framed(T) /\ Exact(T) /\ size(T) <= bucket_count(T)
Bare(T) == Framed(T) /\ bucket_count(T) = 0 /\ size(T) <= max_size /\ Distinct(T)

TableInv ==
  /\ m_hash \in [Key -> HashValues]
  /\ Ready(tbl) \/ Bare(tbl)
  /\ calls \in 0 .. MaxCalls

----------------------------------------------------------------------------
(* Widths, distances and places.                                           *)

HashOK == m_hash \in [Key -> HashValues]

\* The constants of the table.
LEMMA Widths ==
  /\ dist_inc \in Nat \ {0} /\ max_bucket_count \in Nat \ {0} /\ max_size = max_bucket_count
  /\ initial_shifts \in Nat /\ initial_shifts <= HashBits
  /\ HashBits \in Nat /\ IndexBits \in Nat /\ IndexBits <= HashBits
<1>1. /\ HashBits \in Nat /\ IndexBits \in Nat /\ FingerprintBits \in Nat /\ InitialBits \in Nat
      /\ InitialBits <= IndexBits /\ IndexBits <= HashBits
  BY DenseMapAssumption
<1>2. /\ dist_inc = Power[FingerprintBits] /\ max_bucket_count = Power[IndexBits]
      /\ max_size = Power[IndexBits] /\ initial_shifts = HashBits - InitialBits
  BY DEF dist_inc, max_bucket_count, max_size, initial_shifts
<1>3. Power[FingerprintBits] \in Nat \ {0} /\ Power[IndexBits] \in Nat \ {0}
  BY <1>1, Powers
<1> QED
  BY <1>1, <1>2, <1>3

\* The smaller and the larger of two numbers.
LEMMA MinMax ==
  ASSUME NEW a \in Int, NEW b \in Int
  PROVE  /\ Min({a, b}) = IF a <= b THEN a ELSE b
         /\ Max({a, b}) = IF a <= b THEN b ELSE a
<1> DEFINE m == IF a <= b THEN a ELSE b
           n == IF a <= b THEN b ELSE a
<1>1. m \in {a, b} /\ \A y \in {a, b} : m <= y
  OBVIOUS
<1>2. n \in {a, b} /\ \A y \in {a, b} : n >= y
  OBVIOUS
<1>3. \A x \in {a, b} : (\A y \in {a, b} : x <= y) => x = m
  OBVIOUS
<1>4. \A x \in {a, b} : (\A y \in {a, b} : x >= y) => x = n
  OBVIOUS
<1> HIDE DEF m, n
<1>5. Min({a, b}) = m
  BY <1>1, <1>3 DEF Min
<1>6. Max({a, b}) = n
  BY <1>2, <1>4 DEF Max
<1> QED
  BY <1>5, <1>6 DEF m, n

\* How many buckets a shift asks for.
LEMMA Counts ==
  ASSUME NEW s \in 0 .. initial_shifts
  PROVE  /\ HashBits - s \in Nat /\ Power[HashBits - s] \in Nat \ {0}
         /\ calc_num_buckets(s) =
              IF Power[HashBits - s] < max_bucket_count THEN Power[HashBits - s]
              ELSE max_bucket_count
         /\ calc_num_buckets(s) \in Nat \ {0}
         /\ calc_num_buckets(s) <= max_bucket_count
<1>1. HashBits - s \in Nat
  BY Widths
<1>2. Power[HashBits - s] \in Nat \ {0} /\ max_bucket_count \in Nat \ {0}
  BY <1>1, Powers, Widths
<1>3. calc_num_buckets(s) = IF max_bucket_count <= Power[HashBits - s] THEN max_bucket_count
                            ELSE Power[HashBits - s]
  BY <1>2, MinMax DEF calc_num_buckets
<1> QED
  BY <1>1, <1>2, <1>3

\* What a bucket with key k holds n steps from home.
LEMMA Distances ==
  ASSUME HashOK, NEW k \in Key
  PROVE  /\ Dist(k, 0) < 2 * dist_inc
         /\ \A n \in Nat : /\ Dist(k, n) \in Nat /\ dist_inc <= Dist(k, n) /\ 0 < Dist(k, n)
                           /\ Dist(k, n + 1) = Dist(k, n) + dist_inc
                           /\ 1 <= n => 2 * dist_inc <= Dist(k, n)
<1> DEFINE D == dist_inc
           f == m_hash[k] % D
<1>1. D \in Nat \ {0} /\ m_hash[k] \in Nat
  <2>1. m_hash[k] \in HashValues
    BY DEF HashOK
  <2>2. HashValues \subseteq Nat
    BY DenseMapAssumption, Powers
  <2> QED BY <2>1, <2>2, Widths
<1>2. f \in 0 .. D - 1
  BY <1>1
<1>3. \A n \in Nat : Dist(k, n) = (D + f) + n * D
  BY DEF Dist, dist_and_fingerprint_from_hash
<1> HIDE DEF D, f
<1>4. \A n \in Nat : n * D \in Nat /\ (n + 1) * D = n * D + D /\ (1 <= n => D <= n * D)
  BY <1>1
<1>5. 0 * D = 0
  BY <1>1
<1>6. Dist(k, 0) < 2 * D
  <2>1. Dist(k, 0) = (D + f) + 0 * D
    BY <1>3
  <2> QED BY <1>1, <1>2, <1>5, <2>1
<1>7. ASSUME NEW n \in Nat
      PROVE  /\ Dist(k, n) \in Nat /\ D <= Dist(k, n) /\ 0 < Dist(k, n)
             /\ Dist(k, n + 1) = Dist(k, n) + D
             /\ 1 <= n => 2 * D <= Dist(k, n)
  <2>1. Dist(k, n) = (D + f) + n * D /\ Dist(k, n + 1) = (D + f) + (n + 1) * D
    BY <1>3
  <2> QED BY <1>1, <1>2, <1>4, <2>1
<1> QED
  BY <1>6, <1>7 DEF D

\* Farther from home is more, whatever the fingerprints.
LEMMA FartherIsMore ==
  ASSUME HashOK, NEW k \in Key, NEW j \in Key, NEW m \in Nat, NEW n \in Nat, m < n
  PROVE  Dist(j, m) < Dist(k, n)
<1> DEFINE S == {i \in Nat : Dist(j, i) < Dist(k, i + 1)}
<1>1. 0 \in S
  BY Distances, Widths
<1>2. ASSUME NEW i \in Nat, i \in S PROVE i + 1 \in S
  BY <1>2, Distances, Widths
<1> HIDE DEF S
<1>3. Nat \subseteq S
  BY <1>1, <1>2, NatsAll
<1>4. Dist(j, m) < Dist(k, m + 1)
  BY <1>3 DEF S
<1> DEFINE R == {i \in Nat : Dist(k, m + 1) <= Dist(k, (m + 1) + i)}
<1>5. 0 \in R
  BY Distances
<1>6. ASSUME NEW i \in Nat, i \in R PROVE i + 1 \in R
  <2>1. (m + 1) + i \in Nat /\ ((m + 1) + i) + 1 = (m + 1) + (i + 1) /\ m + 1 \in Nat
    OBVIOUS
  <2>2. Dist(k, ((m + 1) + i) + 1) = Dist(k, (m + 1) + i) + dist_inc
        /\ Dist(k, (m + 1) + i) \in Nat /\ Dist(k, m + 1) \in Nat
    BY <2>1, Distances
  <2> QED BY <1>6, <2>1, <2>2, Widths
<1> HIDE DEF R
<1>7. Nat \subseteq R
  BY <1>5, <1>6, NatsAll
<1>8. Dist(k, m + 1) <= Dist(k, n)
  <2>1. n - (m + 1) \in Nat /\ (m + 1) + (n - (m + 1)) = n
    OBVIOUS
  <2>2. n - (m + 1) \in R
    BY <1>7, <2>1
  <2> QED BY <2>1, <2>2 DEF R
<1> QED
  BY <1>4, <1>8, Distances

\* The buckets of a table.
LEMMA Buckets ==
  ASSUME NEW T, Allocated(T)
  PROVE  /\ bucket_count(T) \in Nat \ {0} /\ bucket_count(T) <= max_bucket_count
         /\ DOMAIN T.m_buckets = 0 .. bucket_count(T) - 1
         /\ \A b \in 0 .. bucket_count(T) - 1 :
              T.m_buckets[b] \in Bucket /\ Df(T, b) \in Nat /\ Idx(T, b) \in Nat
<1>1. bucket_count(T) \in Nat \ {0} /\ bucket_count(T) <= max_bucket_count
  BY Counts DEF Allocated
<1>2. T.m_buckets \in [0 .. bucket_count(T) - 1 -> Bucket]
  BY DEF Allocated
<1> HIDE DEF bucket_count
<1>3. \A b \in 0 .. bucket_count(T) - 1 : T.m_buckets[b] \in Bucket
  BY <1>2
<1>4. \A b \in 0 .. bucket_count(T) - 1 : Df(T, b) \in Nat /\ Idx(T, b) \in Nat
  BY <1>3 DEF Bucket, Df, Idx
<1> QED
  BY <1>1, <1>2, <1>3, <1>4

\* Going around a ring of N buckets.
LEMMA Hops ==
  ASSUME NEW N \in Nat \ {0}, NEW b \in 0 .. N - 1
  PROVE  /\ \A n \in 0 .. N : Hop(N, b, n) \in 0 .. N - 1
         /\ Hop(N, b, 0) = b /\ Hop(N, b, N) = b
         /\ \A i \in 0 .. N - 1 : Hop(N, Hop(N, b, i), 1) = Hop(N, b, i + 1)
         /\ \A i \in 0 .. N - 1 : Hop(N, Hop(N, b, i + 1), N - 1) = Hop(N, b, i)
         /\ \A i, j \in 0 .. N - 1 : Hop(N, b, i) = Hop(N, b, j) => i = j
         /\ \A c \in 0 .. N - 1 : \E i \in 0 .. N - 1 : c = Hop(N, b, i)
<1>1. \A n \in 0 .. N : Hop(N, b, n) \in 0 .. N - 1
  BY DEF Hop
<1>2. Hop(N, b, 0) = b /\ Hop(N, b, N) = b
  BY DEF Hop
<1>3. \A i \in 0 .. N - 1 : Hop(N, Hop(N, b, i), 1) = Hop(N, b, i + 1)
  BY DEF Hop
<1>4. \A i \in 0 .. N - 1 : Hop(N, Hop(N, b, i + 1), N - 1) = Hop(N, b, i)
  BY DEF Hop
<1>5. \A i, j \in 0 .. N - 1 : Hop(N, b, i) = Hop(N, b, j) => i = j
  BY DEF Hop
<1>6. ASSUME NEW c \in 0 .. N - 1 PROVE \E i \in 0 .. N - 1 : c = Hop(N, b, i)
  <2>1. CASE b <= c
    <3>1. c - b \in 0 .. N - 1 /\ c = Hop(N, b, c - b)
      BY <2>1 DEF Hop
    <3> QED BY <3>1
  <2>2. CASE c < b
    <3>1. N - (b - c) \in 0 .. N - 1 /\ c = Hop(N, b, N - (b - c))
      BY <2>2 DEF Hop
    <3> QED BY <3>1
  <2> QED BY <2>1, <2>2
<1> QED
  BY <1>1, <1>2, <1>3, <1>4, <1>5, <1>6

\* next() repeated goes around the ring.
LEMMA ForwardIs ==
  ASSUME NEW T, Allocated(T), NEW b \in 0 .. bucket_count(T) - 1
  PROVE  /\ \A n \in 0 .. bucket_count(T) :
              /\ Forward(T, b, n) = Hop(bucket_count(T), b, n)
              /\ At(T, b, n) = T.m_buckets[Hop(bucket_count(T), b, n)]
         /\ \A n \in Nat : Forward(T, b, n) \in 0 .. bucket_count(T) - 1
<1> DEFINE N == bucket_count(T)
<1>1. N \in Nat \ {0}
  BY Buckets
<1> HIDE DEF N
<1>2. \A n \in 0 .. N : (b + n) % N = IF b + n < N THEN b + n ELSE b + n - N
  BY <1>1 DEF N
<1>3. \A n \in Nat : (b + n) % N \in 0 .. N - 1
  BY <1>1 DEF N
<1> QED
  BY <1>2, <1>3 DEF N, Forward, At, Hop

\* The home of a key is a bucket.
LEMMA HomeIs ==
  ASSUME HashOK, NEW T, Allocated(T), NEW k \in Key
  PROVE  Home(T, k) \in 0 .. bucket_count(T) - 1
<1> DEFINE s == T.m_shifts
           P == Power[s]
           Q == Power[HashBits - s]
           x == m_hash[k]
           q == x \div P
           M == max_bucket_count
<1>1. s \in 0 .. initial_shifts /\ s \in Nat /\ HashBits - s \in Nat /\ s + (HashBits - s) = HashBits
  BY Widths DEF Allocated
<1>2. P \in Nat \ {0} /\ Q \in Nat \ {0} /\ Power[HashBits] = P * Q /\ M \in Nat \ {0}
  <2>1. Power[s + (HashBits - s)] = Power[s] * Power[HashBits - s]
    <3> HIDE DEF s
    <3> QED BY <1>1, PowersGrow
  <2>2. P \in Nat \ {0} /\ Q \in Nat \ {0} /\ M \in Nat \ {0}
    BY <1>1, Powers, Widths
  <2> QED BY <1>1, <2>1, <2>2
<1>3. x \in Nat /\ x < P * Q
  <2>1. x \in HashValues
    BY DEF HashOK
  <2>2. x \in 0 .. Power[HashBits] - 1
    BY <2>1, DenseMapAssumption
  <2>3. P * Q \in Nat
    BY <1>2
  <2> QED BY <1>2, <2>2, <2>3
<1>4. bucket_count(T) = IF Q < M THEN Q ELSE M
  BY <1>1, Counts DEF Allocated
<1>5. Home(T, k) = q % M
  BY DEF Home, bucket_idx_from_hash
<1> HIDE DEF s, P, Q, x, M
<1>6. q \in Nat /\ P * q <= x
  BY <1>2, <1>3
<1> HIDE DEF q
<1>7. q < Q
  <2> SUFFICES ASSUME Q <= q PROVE FALSE
    BY <1>2, <1>6
  <2>1. P * Q <= P * q
    BY <1>2, <1>6
  <2> QED BY <1>2, <1>3, <1>6, <2>1
<1>8. q % M \in 0 .. M - 1 /\ (q < M => q % M = q)
  BY <1>2, <1>6
<1> QED
  BY <1>2, <1>4, <1>5, <1>6, <1>7, <1>8

----------------------------------------------------------------------------
(* Searching.                                                              *)

\* Where a bucket is at least as far from home as a key would be there, the
\* buckets before it are, back to the home of the key.
LEMMA RunBack ==
  ASSUME HashOK, NEW T, Allocated(T), Ordered(T), NEW k \in Key,
         NEW h \in 0 .. bucket_count(T) - 1, NEW j \in 0 .. bucket_count(T) - 1,
         Dist(k, j) <= Df(T, Hop(bucket_count(T), h, j))
  PROVE  \A i \in 0 .. j : Dist(k, i) <= Df(T, Hop(bucket_count(T), h, i))
<1> DEFINE N == bucket_count(T)
           S == {i \in Nat : i <= j => Dist(k, j - i) <= Df(T, Hop(N, h, j - i))}
<1>1. N \in Nat \ {0} /\ \A b \in 0 .. N - 1 : Df(T, b) \in Nat
  BY Buckets
<1> HIDE DEF N
<1>2. 0 \in S
  BY DEF N
<1>3. ASSUME NEW i \in Nat, i \in S PROVE i + 1 \in S
  <2> SUFFICES ASSUME i + 1 <= j
               PROVE  Dist(k, j - (i + 1)) <= Df(T, Hop(N, h, j - (i + 1)))
    OBVIOUS
  <2> DEFINE x == j - (i + 1)
             b == Hop(N, h, x + 1)
             c == Hop(N, h, x)
  <2>1. x \in Nat /\ x \in 0 .. N - 1 /\ x + 1 \in 0 .. N /\ x + 1 = j - i
    BY <1>1 DEF N
  <2>2. b \in 0 .. N - 1 /\ c \in 0 .. N - 1 /\ Hop(N, b, N - 1) = c
    BY <1>1, <2>1, Hops DEF N
  <2>3. Dist(k, x + 1) <= Df(T, b)
    BY <1>3, <2>1
  <2>4. Df(T, b) < 2 * dist_inc \/ Df(T, b) <= Df(T, c) + dist_inc
    BY <2>2 DEF Ordered, N
  <2> HIDE DEF x, b, c
  <2>5. /\ Dist(k, x + 1) = Dist(k, x) + dist_inc /\ 2 * dist_inc <= Dist(k, x + 1)
        /\ Dist(k, x) \in Nat
    <3>1. x + 1 \in Nat /\ 1 <= x + 1
      BY <2>1
    <3> QED BY <2>1, <3>1, Distances
  <2>6. Df(T, b) \in Nat /\ Df(T, c) \in Nat
    BY <1>1, <2>2
  <2>7. Dist(k, x) <= Df(T, c)
    BY <2>3, <2>4, <2>5, <2>6, Widths
  <2> QED BY <2>7 DEF x, c
<1> HIDE DEF S
<1>4. Nat \subseteq S
  BY <1>2, <1>3, NatsAll
<1> TAKE i \in 0 .. j
<1>5. j - i \in Nat /\ j - i <= j /\ j - (j - i) = i
  BY <1>1 DEF N
<1>6. j - i \in S
  BY <1>4, <1>5
<1> QED
  BY <1>5, <1>6 DEF S, N

\* The key of a value.
LEMMA KeyIs ==
  ASSUME NEW T \in Table, NEW idx \in 0 .. size(T) - 1
  PROVE  get_key(T, idx) \in Key
<1>1. T.m_values \in Seq(Key \X Val)
  BY DEF Table
<1>2. idx + 1 \in 1 .. Len(T.m_values)
  BY <1>1 DEF size
<1>3. T.m_values[idx + 1] \in Key \X Val
  BY <1>1, <1>2
<1> QED
  BY <1>3 DEF get_key

\* A bucket in use, its value and its distance.
LEMMA InUse ==
  ASSUME HashOK, NEW T, Allocated(T), NEW I, Sound(T, I),
         NEW b \in 0 .. bucket_count(T) - 1, T.m_buckets[b] # Vacant
  PROVE  /\ Idx(T, b) \in I /\ Idx(T, b) \in 0 .. size(T) - 1
         /\ get_key(T, Idx(T, b)) \in Key
         /\ dist_inc <= Df(T, b)
         /\ \E n \in 0 .. bucket_count(T) - 1 :
              /\ b = Hop(bucket_count(T), Home(T, get_key(T, Idx(T, b))), n)
              /\ Df(T, b) = Dist(get_key(T, Idx(T, b)), n)
<1>1. Stands(T, I, b) /\ I \subseteq 0 .. size(T) - 1 /\ T \in Table
  BY DEF Sound, Allocated
<1>2. /\ Idx(T, b) \in I
      /\ \E n \in 0 .. bucket_count(T) - 1 :
           /\ b = Hop(bucket_count(T), Home(T, get_key(T, Idx(T, b))), n)
           /\ Df(T, b) = Dist(get_key(T, Idx(T, b)), n)
  BY <1>1 DEF Stands
<1>3. Idx(T, b) \in 0 .. size(T) - 1 /\ get_key(T, Idx(T, b)) \in Key
  BY <1>1, <1>2, KeyIs
<1>4. PICK n \in 0 .. bucket_count(T) - 1 : Df(T, b) = Dist(get_key(T, Idx(T, b)), n)
  BY <1>2
<1>5. dist_inc <= Df(T, b)
  <2>1. n \in Nat
    BY <1>4, Buckets
  <2> QED BY <1>3, <1>4, <2>1, Distances
<1> QED
  BY <1>2, <1>3, <1>5

\* A bucket is vacant if its distance is 0, and only then.
LEMMA VacantIs ==
  ASSUME HashOK, NEW T, Allocated(T), NEW I, Sound(T, I), NEW b \in 0 .. bucket_count(T) - 1
  PROVE  T.m_buckets[b] = Vacant <=> Df(T, b) = 0
<1>1. T.m_buckets[b] = Vacant => Df(T, b) = 0
  BY DEF Df, Vacant
<1>2. T.m_buckets[b] # Vacant => dist_inc <= Df(T, b)
  BY InUse
<1> QED
  BY <1>1, <1>2, Widths, Buckets

\* The bucket of a value is found from the home of its key: all before it are
\* in use, at least as far from home as this key would be, and hold others.
LEMMA Present ==
  ASSUME HashOK, NEW T, Allocated(T), NEW I, Sound(T, I), NEW idx \in I
  PROVE  \E j \in 0 .. bucket_count(T) - 1 :
           LET k == get_key(T, idx)
               b(i) == Hop(bucket_count(T), Home(T, k), i)
           IN /\ T.m_buckets[b(j)] # Vacant /\ Idx(T, b(j)) = idx /\ Df(T, b(j)) = Dist(k, j)
              /\ \A i \in 0 .. j : Dist(k, i) <= Df(T, b(i))
              /\ \A i \in 0 .. j - 1 : /\ T.m_buckets[b(i)] # Vacant
                                       /\ Idx(T, b(i)) # idx
                                       /\ get_key(T, Idx(T, b(i))) # k
<1> DEFINE N == bucket_count(T)
           k == get_key(T, idx)
           h == Home(T, k)
           b(i) == Hop(N, h, i)
<1>1. N \in Nat \ {0} /\ T \in Table /\ I \subseteq 0 .. size(T) - 1 /\ Ordered(T)
  BY Buckets DEF Allocated, Sound
<1>2. k \in Key /\ h \in 0 .. N - 1
  BY <1>1, KeyIs, HomeIs
<1>3. PICK c \in 0 .. N - 1 : T.m_buckets[c] # Vacant /\ Idx(T, c) = idx
  BY DEF Sound
<1>4. PICK j \in 0 .. N - 1 : c = b(j) /\ Df(T, c) = Dist(k, j)
  BY <1>3, InUse
<1>5. \A i \in 0 .. j : Dist(k, i) <= Df(T, b(i))
  <2>1. Dist(k, j) <= Df(T, Hop(bucket_count(T), h, j))
    <3>1. j \in Nat
      BY <1>1
    <3> QED BY <1>2, <1>4, <3>1, Distances
  <2> HIDE DEF k, h
  <2> QED BY <1>1, <1>2, <2>1, RunBack
<1>6. ASSUME NEW i \in 0 .. j - 1
      PROVE  T.m_buckets[b(i)] # Vacant /\ Idx(T, b(i)) # idx /\ get_key(T, Idx(T, b(i))) # k
  <2>1. i \in 0 .. N - 1 /\ i # j /\ i \in 0 .. j /\ i \in Nat
    BY <1>1
  <2>2. b(i) \in 0 .. N - 1 /\ b(i) # c
    BY <1>1, <1>2, <1>4, <2>1, Hops
  <2>3. T.m_buckets[b(i)] # Vacant
    <3>1. Dist(k, i) <= Df(T, b(i)) /\ 0 < Dist(k, i) /\ Dist(k, i) \in Nat
      BY <1>2, <1>5, <2>1, Distances
    <3>2. Df(T, b(i)) # 0
      BY <2>2, <3>1, Buckets
    <3> QED BY <2>2, <3>2, VacantIs
  <2>4. Idx(T, b(i)) # idx
    BY <1>3, <2>2, <2>3 DEF Sound
  <2>5. Idx(T, b(i)) \in I
    BY <2>2, <2>3, InUse
  <2>6. get_key(T, Idx(T, b(i))) # k
    BY <2>4, <2>5 DEF Sound
  <2> QED BY <2>3, <2>4, <2>6
<1> QED
  BY <1>3, <1>4, <1>5, <1>6

\* What a search for k looks at after n steps.
LEMMA ThereIs ==
  ASSUME HashOK, NEW T, Allocated(T), NEW k \in Key, NEW n \in 0 .. bucket_count(T)
  PROVE  LET b == Hop(bucket_count(T), Home(T, k), n)
         IN /\ b \in 0 .. bucket_count(T) - 1
            /\ Forward(T, Home(T, k), n) = b
            /\ There(T, k, n) = Df(T, b)
            /\ At(T, Home(T, k), n).value_idx = Idx(T, b)
            /\ Hit(T, k, n) <=> Dist(k, n) = Df(T, b) /\ get_key(T, Idx(T, b)) = k
<1> DEFINE N == bucket_count(T)
           h == Home(T, k)
           b == Hop(N, h, n)
<1>1. N \in Nat \ {0} /\ h \in 0 .. N - 1
  BY Buckets, HomeIs
<1>2. b \in 0 .. N - 1
  BY <1>1, Hops
<1>3. Forward(T, h, n) = b /\ At(T, h, n) = T.m_buckets[b]
  BY <1>1, ForwardIs
<1> QED
  BY <1>2, <1>3 DEF There, Hit, Df, Idx

\* N steps from home nothing is as far as the key would be.
LEMMA FarEnd ==
  ASSUME HashOK, NEW T, Allocated(T), NEW I, Sound(T, I), NEW k \in Key,
         NEW b \in 0 .. bucket_count(T) - 1, NEW m \in Nat, bucket_count(T) <= m
  PROVE  Df(T, b) < Dist(k, m)
<1>1. CASE T.m_buckets[b] = Vacant
  <2>1. Df(T, b) = 0
    BY <1>1 DEF Df, Vacant
  <2> QED BY <2>1, Distances
<1>2. CASE T.m_buckets[b] # Vacant
  <2>1. PICK n \in 0 .. bucket_count(T) - 1 : Df(T, b) = Dist(get_key(T, Idx(T, b)), n)
    BY <1>2, InUse
  <2>2. n \in Nat /\ n < m /\ get_key(T, Idx(T, b)) \in Key
    BY <1>2, <2>1, Buckets, InUse
  <2> QED BY <2>1, <2>2, FartherIsMore
<1> QED
  BY <1>1, <1>2

\* A key that no value has is hit nowhere.
LEMMA Missing ==
  ASSUME HashOK, NEW T, Allocated(T), NEW I, Sound(T, I), NEW k \in Key,
         \A idx \in I : get_key(T, idx) # k
  PROVE  \A n \in Nat : ~Hit(T, k, n)
<1> SUFFICES ASSUME NEW n \in Nat, Hit(T, k, n) PROVE FALSE
  OBVIOUS
<1> DEFINE b == Forward(T, Home(T, k), n)
<1>1. b \in 0 .. bucket_count(T) - 1
  BY HomeIs, ForwardIs
<1>2. Dist(k, n) = Df(T, b) /\ get_key(T, Idx(T, b)) = k
  BY DEF Hit, There, At, Df, Idx
<1> HIDE DEF b
<1>3. T.m_buckets[b] # Vacant
  <2>1. 0 < Dist(k, n) /\ Dist(k, n) \in Nat
    BY Distances
  <2>2. Df(T, b) # 0
    BY <1>2, <2>1
  <2> QED BY <1>1, <2>2, VacantIs
<1>4. Idx(T, b) \in I
  BY <1>1, <1>3, InUse
<1> QED
  BY <1>2, <1>4

\* A place, n steps from home, where a new key may be put: nothing before it
\* is nearer to home than the key would be, and it is not farther.
Belongs(T, k, n) ==
  /\ n \in 0 .. bucket_count(T)
  /\ \A i \in 0 .. n - 1 : Dist(k, i) <= Df(T, Hop(bucket_count(T), Home(T, k), i))
  /\ Df(T, Hop(bucket_count(T), Home(T, k), n)) <= Dist(k, n)

\* The search for a key that is not there ends at such a place.
LEMMA ProbeMissing ==
  ASSUME HashOK, NEW T, Allocated(T), NEW I, Sound(T, I), NEW k \in Key,
         \A idx \in I : get_key(T, idx) # k
  PROVE  ~Hit(T, k, Probe(T, k)) /\ Belongs(T, k, Probe(T, k))
<1> DEFINE N == bucket_count(T)
           S == {n \in Nat : n <= N /\ Dist(k, n) > There(T, k, n)}
           p == Probe(T, k)
<1>1. N \in Nat \ {0} /\ \A n \in 0 .. N : There(T, k, n) \in Nat
  BY Buckets, ThereIs
<1>2. \A n \in Nat : ~Hit(T, k, n) /\ Dist(k, n) \in Nat
  BY Missing, Distances
<1>3. N \in S
  <2>1. N \in 0 .. N /\ N \in Nat /\ N <= N
    BY <1>1
  <2> QED BY <2>1, ThereIs, FarEnd
<1>4. PICK x \in S : \A y \in S : x <= y
  BY <1>3, LeastNat
<1>5. /\ x \in 0 .. N + 1 /\ Dist(k, x) > There(T, k, x)
      /\ \A i \in 0 .. x - 1 : ~(Hit(T, k, i) \/ Dist(k, i) > There(T, k, i))
  BY <1>1, <1>2, <1>4
<1>6. /\ p \in 0 .. N + 1
      /\ Hit(T, k, p) \/ Dist(k, p) > There(T, k, p)
      /\ \A i \in 0 .. p - 1 : ~(Hit(T, k, i) \/ Dist(k, i) > There(T, k, i))
  <2> HIDE DEF N, S
  <2> QED BY <1>5 DEF Probe, Steps, N
<1> HIDE DEF p
<1>7. p <= x
  BY <1>1, <1>5, <1>6
<1>8. p \in 0 .. N /\ p \in Nat
  BY <1>1, <1>4, <1>6, <1>7
<1>9. Df(T, Hop(N, Home(T, k), p)) <= Dist(k, p)
  BY <1>1, <1>2, <1>6, <1>8, ThereIs
<1>10. ASSUME NEW i \in 0 .. p - 1 PROVE Dist(k, i) <= Df(T, Hop(N, Home(T, k), i))
  <2>1. i \in 0 .. N /\ i \in Nat
    BY <1>1, <1>8
  <2>2. There(T, k, i) = Df(T, Hop(N, Home(T, k), i))
    BY <2>1, ThereIs
  <2>3. There(T, k, i) \in Nat /\ Dist(k, i) \in Nat /\ ~(Dist(k, i) > There(T, k, i))
    BY <1>1, <1>2, <1>6, <2>1
  <2> QED BY <2>2, <2>3
<1> QED
  BY <1>2, <1>8, <1>9, <1>10 DEF Belongs, p

\* So does the loop of a rebuild, which does not compare keys.
LEMMA LessMissing ==
  ASSUME HashOK, NEW T, Allocated(T), NEW I, Sound(T, I), NEW k \in Key
  PROVE  /\ Belongs(T, k, next_while_less(T, k))
         /\ \A i \in 0 .. next_while_less(T, k) - 1 :
              Dist(k, i) < Df(T, Hop(bucket_count(T), Home(T, k), i))
<1> DEFINE N == bucket_count(T)
           S == {n \in Nat : n <= N /\ ~(Dist(k, n) < There(T, k, n))}
           p == next_while_less(T, k)
<1>1. N \in Nat \ {0} /\ \A n \in 0 .. N : There(T, k, n) \in Nat
  BY Buckets, ThereIs
<1>2. \A n \in Nat : Dist(k, n) \in Nat
  BY Distances
<1>3. N \in S
  <2>1. N \in 0 .. N /\ N \in Nat /\ N <= N
    BY <1>1
  <2>2. There(T, k, N) < Dist(k, N)
    BY <2>1, ThereIs, FarEnd
  <2> QED BY <1>1, <1>2, <2>1, <2>2
<1>4. PICK x \in S : \A y \in S : x <= y
  BY <1>3, LeastNat
<1>5. /\ x \in 0 .. N + 1 /\ ~(Dist(k, x) < There(T, k, x))
      /\ \A i \in 0 .. x - 1 : Dist(k, i) < There(T, k, i)
  BY <1>1, <1>2, <1>4
<1>6. /\ p \in 0 .. N + 1
      /\ ~(Dist(k, p) < There(T, k, p))
      /\ \A i \in 0 .. p - 1 : Dist(k, i) < There(T, k, i)
  <2> HIDE DEF N, S
  <2> QED BY <1>5 DEF next_while_less, Steps, N
<1> HIDE DEF p
<1>7. p <= x
  BY <1>1, <1>5, <1>6
<1>8. p \in 0 .. N /\ p \in Nat
  BY <1>1, <1>4, <1>6, <1>7
<1>9. Df(T, Hop(N, Home(T, k), p)) <= Dist(k, p)
  BY <1>1, <1>2, <1>6, <1>8, ThereIs
<1>10. ASSUME NEW i \in 0 .. p - 1
       PROVE  /\ Dist(k, i) < Df(T, Hop(N, Home(T, k), i))
              /\ Dist(k, i) <= Df(T, Hop(N, Home(T, k), i))
  <2>1. i \in 0 .. N /\ i \in Nat
    BY <1>1, <1>8
  <2>2. There(T, k, i) = Df(T, Hop(N, Home(T, k), i))
    BY <2>1, ThereIs
  <2>3. There(T, k, i) \in Nat /\ Dist(k, i) \in Nat /\ Dist(k, i) < There(T, k, i)
    BY <1>1, <1>2, <1>6, <2>1
  <2> QED BY <2>2, <2>3
<1> QED
  BY <1>8, <1>9, <1>10 DEF Belongs, p

Holds(T, b, idx) ==
  b \in 0 .. bucket_count(T) - 1 /\ T.m_buckets[b] # Vacant /\ Idx(T, b) = idx

\* The search for a key that is there ends at the bucket of its value.
LEMMA ProbePresent ==
  ASSUME HashOK, NEW T, Allocated(T), NEW I, Sound(T, I), NEW idx \in I
  PROVE  LET k == get_key(T, idx)
         IN /\ Hit(T, k, Probe(T, k))
            /\ Holds(T, Forward(T, Home(T, k), Probe(T, k)), idx)
<1> DEFINE N == bucket_count(T)
           k == get_key(T, idx)
           b(i) == Hop(N, Home(T, k), i)
           p == Probe(T, k)
<1>1. PICK j \in 0 .. N - 1 :
        /\ T.m_buckets[b(j)] # Vacant /\ Idx(T, b(j)) = idx /\ Df(T, b(j)) = Dist(k, j)
        /\ \A i \in 0 .. j : Dist(k, i) <= Df(T, b(i))
        /\ \A i \in 0 .. j - 1 : /\ T.m_buckets[b(i)] # Vacant
                                 /\ Idx(T, b(i)) # idx
                                 /\ get_key(T, Idx(T, b(i))) # k
  BY Present
<1>2. N \in Nat \ {0} /\ k \in Key
  BY Buckets, KeyIs DEF Allocated, Sound
<1>3. \A i \in 0 .. N : /\ b(i) \in 0 .. N - 1 /\ There(T, k, i) = Df(T, b(i)) /\ There(T, k, i) \in Nat
                        /\ Forward(T, Home(T, k), i) = b(i)
                        /\ Hit(T, k, i) <=> Dist(k, i) = Df(T, b(i)) /\ get_key(T, Idx(T, b(i))) = k
  BY <1>2, ThereIs, Buckets
<1>4. \A i \in Nat : Dist(k, i) \in Nat
  BY <1>2, Distances
<1> HIDE DEF N, k, b
<1>5. /\ j \in 0 .. N + 1 /\ Hit(T, k, j)
      /\ \A i \in 0 .. j - 1 : ~(Hit(T, k, i) \/ Dist(k, i) > There(T, k, i))
  <2>1. j \in 0 .. N + 1 /\ j \in 0 .. N
    BY <1>2
  <2>2. Hit(T, k, j)
    BY <1>1, <1>3, <2>1 DEF k
  <2>3. ASSUME NEW i \in 0 .. j - 1 PROVE ~(Hit(T, k, i) \/ Dist(k, i) > There(T, k, i))
    <3>1. i \in 0 .. N /\ i \in 0 .. j /\ i \in Nat
      BY <1>2
    <3>2. ~Hit(T, k, i)
      BY <1>1, <1>3, <3>1
    <3>3. ~(Dist(k, i) > There(T, k, i))
      BY <1>1, <1>3, <1>4, <3>1
    <3> QED BY <3>2, <3>3
  <2> QED BY <2>1, <2>2, <2>3
<1>6. /\ p \in 0 .. N + 1
      /\ Hit(T, k, p) \/ Dist(k, p) > There(T, k, p)
      /\ \A i \in 0 .. p - 1 : ~(Hit(T, k, i) \/ Dist(k, i) > There(T, k, i))
  BY <1>5 DEF Probe, Steps, N
<1> HIDE DEF p
<1>7. p = j
  BY <1>2, <1>5, <1>6
<1>8. j \in 0 .. N
  BY <1>2
<1> QED
  BY <1>1, <1>3, <1>5, <1>7, <1>8 DEF Holds, p, k, N, b

\* do_find() returns the index of a key that is there.
LEMMA FindPresent ==
  ASSUME HashOK, NEW T, Allocated(T), NEW I, Sound(T, I), NEW idx \in I
  PROVE  do_find(T, get_key(T, idx)) = idx
<1> DEFINE N == bucket_count(T)
           k == get_key(T, idx)
           b(i) == Hop(N, Home(T, k), i)
           p == Steps(T, LAMBDA i : Hit(T, k, i) \/ (i >= 2 /\ Dist(k, i) > There(T, k, i)))
<1>1. PICK j \in 0 .. N - 1 :
        /\ T.m_buckets[b(j)] # Vacant /\ Idx(T, b(j)) = idx /\ Df(T, b(j)) = Dist(k, j)
        /\ \A i \in 0 .. j : Dist(k, i) <= Df(T, b(i))
        /\ \A i \in 0 .. j - 1 : /\ T.m_buckets[b(i)] # Vacant
                                 /\ Idx(T, b(i)) # idx
                                 /\ get_key(T, Idx(T, b(i))) # k
  BY Present
<1>2. N \in Nat \ {0} /\ k \in Key /\ ~empty(T)
  <2>1. T \in Table /\ idx \in 0 .. size(T) - 1
    BY DEF Allocated, Sound
  <2>2. T.m_values \in Seq(Key \X Val)
    BY <2>1 DEF Table
  <2>3. ~empty(T)
    BY <2>1, <2>2 DEF empty, size
  <2> QED BY <2>1, <2>3, Buckets, KeyIs
<1>3. \A i \in 0 .. N : /\ b(i) \in 0 .. N - 1 /\ There(T, k, i) = Df(T, b(i)) /\ There(T, k, i) \in Nat
                        /\ At(T, Home(T, k), i).value_idx = Idx(T, b(i))
                        /\ Hit(T, k, i) <=> Dist(k, i) = Df(T, b(i)) /\ get_key(T, Idx(T, b(i))) = k
  BY <1>2, ThereIs, Buckets
<1>4. \A i \in Nat : Dist(k, i) \in Nat
  BY <1>2, Distances
<1>9. do_find(T, k) = IF Hit(T, k, p) THEN At(T, Home(T, k), p).value_idx ELSE none
  BY <1>2 DEF do_find
<1> HIDE DEF N, k, b
<1>5. /\ j \in 0 .. N + 1 /\ Hit(T, k, j)
      /\ \A i \in 0 .. j - 1 : ~(Hit(T, k, i) \/ (i >= 2 /\ Dist(k, i) > There(T, k, i)))
  <2>1. j \in 0 .. N + 1 /\ j \in 0 .. N
    BY <1>2
  <2>2. Hit(T, k, j)
    BY <1>1, <1>3, <2>1 DEF k
  <2>3. ASSUME NEW i \in 0 .. j - 1 PROVE ~(Hit(T, k, i) \/ Dist(k, i) > There(T, k, i))
    <3>1. i \in 0 .. N /\ i \in 0 .. j /\ i \in Nat
      BY <1>2
    <3>2. ~Hit(T, k, i)
      BY <1>1, <1>3, <3>1
    <3>3. ~(Dist(k, i) > There(T, k, i))
      BY <1>1, <1>3, <1>4, <3>1
    <3> QED BY <3>2, <3>3
  <2> QED BY <2>1, <2>2, <2>3
<1>6. /\ p \in 0 .. N + 1
      /\ Hit(T, k, p) \/ (p >= 2 /\ Dist(k, p) > There(T, k, p))
      /\ \A i \in 0 .. p - 1 : ~(Hit(T, k, i) \/ (i >= 2 /\ Dist(k, i) > There(T, k, i)))
  BY <1>5 DEF Steps, N
<1> HIDE DEF p
<1>7. p = j
  BY <1>2, <1>5, <1>6
<1>8. j \in 0 .. N
  BY <1>2
<1>10. do_find(T, k) = idx
  BY <1>1, <1>3, <1>5, <1>7, <1>8, <1>9
<1> QED
  BY <1>10 DEF k

\* It returns none for a key that no value has.
LEMMA FindMissing ==
  ASSUME HashOK, NEW T, Allocated(T), NEW I, Sound(T, I), NEW k \in Key,
         \A idx \in I : get_key(T, idx) # k
  PROVE  do_find(T, k) = none
<1> DEFINE N == bucket_count(T)
           p == Steps(T, LAMBDA i : Hit(T, k, i) \/ (i >= 2 /\ Dist(k, i) > There(T, k, i)))
           S == {n \in Nat : n >= 2 /\ Dist(k, n) > There(T, k, n)}
<1>1. N \in Nat \ {0}
  BY Buckets
<1>2. \A n \in Nat : ~Hit(T, k, n)
  BY Missing
<1>3. N + 1 \in S
  <2> DEFINE b == Forward(T, Home(T, k), N + 1)
  <2>1. b \in 0 .. N - 1 /\ N + 1 \in Nat /\ N <= N + 1 /\ N + 1 >= 2
    <3>1. N + 1 \in Nat /\ N <= N + 1 /\ N + 1 >= 2
      BY <1>1
    <3>2. Home(T, k) \in 0 .. bucket_count(T) - 1
      BY HomeIs
    <3>3. \A n \in Nat : Forward(T, Home(T, k), n) \in 0 .. bucket_count(T) - 1
      BY <3>2, ForwardIs
    <3> HIDE DEF N
    <3> QED BY <3>1, <3>3 DEF N
  <2>2. There(T, k, N + 1) = Df(T, b)
    BY DEF There, At, Df
  <2> HIDE DEF b
  <2>3. Df(T, b) < Dist(k, N + 1)
    BY <2>1, FarEnd
  <2>4. Df(T, b) \in Nat /\ Dist(k, N + 1) \in Nat
    BY <2>1, Buckets, Distances
  <2> QED BY <2>1, <2>2, <2>3, <2>4
<1>4. PICK x \in S : \A y \in S : x <= y
  BY <1>3, LeastNat
<1>5. /\ x \in 0 .. N + 1 /\ x >= 2 /\ Dist(k, x) > There(T, k, x)
      /\ \A i \in 0 .. x - 1 : ~(Hit(T, k, i) \/ (i >= 2 /\ Dist(k, i) > There(T, k, i)))
  BY <1>1, <1>2, <1>3, <1>4
<1>6. p \in 0 .. N + 1
  <2> HIDE DEF N, S
  <2> QED BY <1>5 DEF Steps, N
<1>7. ~Hit(T, k, p)
  <2> HIDE DEF p
  <2>1. p \in Nat
    BY <1>1, <1>6
  <2> QED BY <1>2, <2>1
<1> QED
  BY <1>7 DEF do_find

\* The bucket of a value is found by its index alone.
LEMMA BucketOfIs ==
  ASSUME HashOK, NEW T, Allocated(T), NEW I, Sound(T, I), NEW idx \in I
  PROVE  Holds(T, BucketOf(T, get_key(T, idx), idx), idx)
<1> DEFINE N == bucket_count(T)
           k == get_key(T, idx)
           b(i) == Hop(N, Home(T, k), i)
           p == Steps(T, LAMBDA i : At(T, Home(T, k), i).value_idx = idx)
<1>1. PICK j \in 0 .. N - 1 :
        /\ T.m_buckets[b(j)] # Vacant /\ Idx(T, b(j)) = idx /\ Df(T, b(j)) = Dist(k, j)
        /\ \A i \in 0 .. j : Dist(k, i) <= Df(T, b(i))
        /\ \A i \in 0 .. j - 1 : /\ T.m_buckets[b(i)] # Vacant
                                 /\ Idx(T, b(i)) # idx
                                 /\ get_key(T, Idx(T, b(i))) # k
  BY Present
<1>2. N \in Nat \ {0} /\ k \in Key
  BY Buckets, KeyIs DEF Allocated, Sound
<1>3. \A i \in 0 .. N : /\ b(i) \in 0 .. N - 1 /\ Forward(T, Home(T, k), i) = b(i)
                        /\ At(T, Home(T, k), i).value_idx = Idx(T, b(i))
  BY <1>2, ThereIs
<1>4. BucketOf(T, k, idx) = Forward(T, Home(T, k), p)
  BY DEF BucketOf
<1> HIDE DEF N, k, b
<1>5. /\ j \in 0 .. N + 1 /\ At(T, Home(T, k), j).value_idx = idx
      /\ \A i \in 0 .. j - 1 : ~(At(T, Home(T, k), i).value_idx = idx)
  <2>1. j \in 0 .. N + 1 /\ j \in 0 .. N
    BY <1>2
  <2>2. At(T, Home(T, k), j).value_idx = idx
    BY <1>1, <1>3, <2>1
  <2>3. ASSUME NEW i \in 0 .. j - 1 PROVE ~(At(T, Home(T, k), i).value_idx = idx)
    <3>1. i \in 0 .. N
      BY <1>2
    <3> QED BY <1>1, <1>3, <3>1
  <2> QED BY <2>1, <2>2, <2>3
<1>6. /\ p \in 0 .. N + 1
      /\ At(T, Home(T, k), p).value_idx = idx
      /\ \A i \in 0 .. p - 1 : ~(At(T, Home(T, k), i).value_idx = idx)
  BY <1>5 DEF Steps, N
<1> HIDE DEF p
<1>7. p = j
  BY <1>2, <1>5, <1>6
<1>8. j \in 0 .. N
  BY <1>2
<1>9. Holds(T, BucketOf(T, k, idx), idx)
  BY <1>1, <1>3, <1>4, <1>7, <1>8 DEF Holds, N
<1> QED
  BY <1>9 DEF k

\* The steps of the second loop of do_erase_key().
EraseStop(T, k) ==
  Steps(T, LAMBDA i : i >= next_while_less(T, k) /\ ~(Dist(k, i) = There(T, k, i) /\ ~Hit(T, k, i)))

\* do_erase_key() finds the bucket of a key that is there: from the first bucket
\* that is not farther from home on they are all as far as it.
LEMMA ErasePresent ==
  ASSUME HashOK, NEW T, Allocated(T), NEW I, Sound(T, I), NEW idx \in I
  PROVE  LET k == get_key(T, idx)
         IN /\ Dist(k, EraseStop(T, k)) = There(T, k, EraseStop(T, k))
            /\ Holds(T, Forward(T, Home(T, k), EraseStop(T, k)), idx)
<1> DEFINE N == bucket_count(T)
           k == get_key(T, idx)
           b(i) == Hop(N, Home(T, k), i)
           m == next_while_less(T, k)
           p == EraseStop(T, k)
           Stop(i) == i >= m /\ ~(Dist(k, i) = There(T, k, i) /\ ~Hit(T, k, i))
<1>1. PICK j \in 0 .. N - 1 :
        /\ T.m_buckets[b(j)] # Vacant /\ Idx(T, b(j)) = idx /\ Df(T, b(j)) = Dist(k, j)
        /\ \A i \in 0 .. j : Dist(k, i) <= Df(T, b(i))
        /\ \A i \in 0 .. j - 1 : /\ T.m_buckets[b(i)] # Vacant
                                 /\ Idx(T, b(i)) # idx
                                 /\ get_key(T, Idx(T, b(i))) # k
  BY Present
<1>2. N \in Nat \ {0} /\ k \in Key /\ Home(T, k) \in 0 .. N - 1 /\ Ordered(T)
  BY Buckets, KeyIs, HomeIs DEF Allocated, Sound
<1>3. \A i \in 0 .. N : /\ b(i) \in 0 .. N - 1 /\ There(T, k, i) = Df(T, b(i)) /\ There(T, k, i) \in Nat
                        /\ Forward(T, Home(T, k), i) = b(i)
                        /\ Hit(T, k, i) <=> Dist(k, i) = Df(T, b(i)) /\ get_key(T, Idx(T, b(i))) = k
  BY <1>2, ThereIs, Buckets
<1>4. \A i \in Nat : Dist(k, i) \in Nat /\ Dist(k, i + 1) = Dist(k, i) + dist_inc /\ (1 <= i => 2 * dist_inc <= Dist(k, i))
  BY <1>2, Distances
<1>5. m \in 0 .. N /\ Df(T, b(m)) <= Dist(k, m) /\ \A i \in 0 .. m - 1 : Dist(k, i) < Df(T, b(i))
  BY <1>2, LessMissing DEF Belongs
<1>6. \A i \in 0 .. N - 1 : /\ b(i + 1) \in 0 .. N - 1
                            /\ Df(T, b(i + 1)) < 2 * dist_inc \/ Df(T, b(i + 1)) <= Df(T, b(i)) + dist_inc
  <2> TAKE i \in 0 .. N - 1
  <2>1. i + 1 \in 0 .. N
    BY <1>2
  <2>2. Hop(N, b(i + 1), N - 1) = b(i) /\ b(i + 1) \in 0 .. N - 1
    <3> DEFINE h == Home(T, k)
    <3> HIDE DEF N, h
    <3> QED BY <1>2, <2>1, Hops DEF h
  <2> QED BY <1>2, <2>2 DEF Ordered
<1> HIDE DEF N, k, b, m
<1>7. m <= j
  <2> SUFFICES ASSUME j < m PROVE FALSE
    BY <1>2, <1>5
  <2>1. j \in 0 .. m - 1 /\ j \in 0 .. N
    BY <1>2, <1>5
  <2> QED BY <1>1, <1>3, <1>4, <1>5, <2>1
<1> DEFINE S == {i \in Nat : m + i <= j => Dist(k, m + i) = Df(T, b(m + i))}
<1>8. 0 \in S
  <2>1. m \in 0 .. j /\ m \in 0 .. N /\ m + 0 = m /\ m \in Nat
    BY <1>2, <1>5, <1>7
  <2>2. Dist(k, m) <= Df(T, b(m)) /\ Df(T, b(m)) <= Dist(k, m) /\ Df(T, b(m)) \in Nat /\ Dist(k, m) \in Nat
    BY <1>1, <1>3, <1>4, <1>5, <2>1
  <2> QED BY <2>1, <2>2
<1>9. ASSUME NEW i \in Nat, i \in S PROVE i + 1 \in S
  <2> SUFFICES ASSUME m + (i + 1) <= j PROVE Dist(k, m + (i + 1)) = Df(T, b(m + (i + 1)))
    OBVIOUS
  <2> DEFINE x == m + i
  <2>1. x \in Nat /\ m + (i + 1) = x + 1 /\ x \in 0 .. N - 1 /\ x + 1 \in 0 .. j /\ x <= j
        /\ x + 1 \in 0 .. N /\ x \in 0 .. N /\ 1 <= x + 1 /\ x + 1 \in Nat
    BY <1>2, <1>5
  <2>2. Dist(k, x) = Df(T, b(x))
    BY <1>9, <2>1
  <2> HIDE DEF x
  <2>3. Dist(k, x + 1) <= Df(T, b(x + 1))
    BY <1>1, <2>1
  <2>4. Df(T, b(x + 1)) < 2 * dist_inc \/ Df(T, b(x + 1)) <= Df(T, b(x)) + dist_inc
    BY <1>6, <2>1
  <2>5. /\ Dist(k, x + 1) = Dist(k, x) + dist_inc /\ 2 * dist_inc <= Dist(k, x + 1)
        /\ Dist(k, x) \in Nat /\ Df(T, b(x + 1)) \in Nat
    BY <1>3, <1>4, <2>1
  <2>6. Dist(k, x + 1) = Df(T, b(x + 1))
    BY <2>2, <2>3, <2>4, <2>5, Widths
  <2> QED BY <2>1, <2>6
<1> HIDE DEF S
<1>10. Nat \subseteq S
  BY <1>8, <1>9, NatsAll
<1>11. j \in 0 .. N + 1 /\ Stop(j) /\ \A i \in 0 .. j - 1 : ~Stop(i)
  <2>1. j \in 0 .. N + 1 /\ j \in 0 .. N
    BY <1>2
  <2>2. Hit(T, k, j)
    BY <1>1, <1>3, <2>1 DEF k
  <2>3. ASSUME NEW i \in 0 .. j - 1 PROVE ~Stop(i)
    <3> SUFFICES ASSUME i >= m PROVE Dist(k, i) = There(T, k, i) /\ ~Hit(T, k, i)
      OBVIOUS
    <3>1. i \in 0 .. N /\ i - m \in Nat /\ m + (i - m) = i /\ i <= j
      BY <1>2, <1>5
    <3>2. i - m \in S
      BY <1>10, <3>1
    <3>3. Dist(k, i) = Df(T, b(i))
      BY <3>1, <3>2 DEF S
    <3> QED BY <1>1, <1>3, <3>1, <3>3
  <2> QED BY <1>7, <2>1, <2>2, <2>3
<1>12. p \in 0 .. N + 1 /\ Stop(p) /\ \A i \in 0 .. p - 1 : ~Stop(i)
  BY <1>11 DEF EraseStop, Steps, N, m
<1> HIDE DEF p, Stop
<1>13. p = j
  BY <1>2, <1>11, <1>12
<1>14. j \in 0 .. N
  BY <1>2
<1>15. Dist(k, p) = There(T, k, p) /\ Holds(T, Forward(T, Home(T, k), p), idx)
  BY <1>1, <1>3, <1>13, <1>14 DEF Holds, N
<1> QED
  BY <1>15 DEF k, p

\* It finds none for a key that no value has.
LEMMA EraseMissing ==
  ASSUME HashOK, NEW T, Allocated(T), NEW I, Sound(T, I), NEW k \in Key,
         \A idx \in I : get_key(T, idx) # k
  PROVE  Dist(k, EraseStop(T, k)) # There(T, k, EraseStop(T, k))
<1> DEFINE N == bucket_count(T)
           m == next_while_less(T, k)
           p == EraseStop(T, k)
           Stop(i) == i >= m /\ ~(Dist(k, i) = There(T, k, i) /\ ~Hit(T, k, i))
           S == {i \in Nat : Stop(i)}
<1>1. N \in Nat \ {0} /\ m \in 0 .. N
  BY Buckets, LessMissing DEF Belongs
<1>2. \A n \in Nat : ~Hit(T, k, n)
  BY Missing
<1>3. N \in S
  <2>1. N \in 0 .. N /\ N \in Nat /\ N <= N /\ N >= m
    BY <1>1
  <2>2. There(T, k, N) < Dist(k, N)
    BY <2>1, ThereIs, FarEnd
  <2>3. There(T, k, N) \in Nat /\ Dist(k, N) \in Nat
    <3>1. PICK b \in 0 .. N - 1 : There(T, k, N) = Df(T, b)
      BY <2>1, ThereIs
    <3> QED BY <2>1, <3>1, Buckets, Distances
  <2> HIDE DEF m
  <2> QED BY <2>1, <2>2, <2>3
<1> HIDE DEF N, m, Stop
<1>4. PICK x \in S : \A y \in S : x <= y
  BY <1>3, LeastNat
<1>5. x \in 0 .. N + 1 /\ Stop(x) /\ \A i \in 0 .. x - 1 : ~Stop(i)
  BY <1>1, <1>3, <1>4
<1>6. p \in 0 .. N + 1 /\ Stop(p)
  BY <1>5 DEF EraseStop, Steps, N, m, Stop
<1>7. p \in Nat
  BY <1>1, <1>6
<1> QED
  BY <1>2, <1>6, <1>7 DEF Stop

----------------------------------------------------------------------------
(* Placing.                                                                *)

\* Only the buckets of a table are changed.
Rebucketed(T, U) ==
  /\ Allocated(U) /\ bucket_count(U) = bucket_count(T)
  /\ U.m_values = T.m_values /\ U.m_shifts = T.m_shifts
  /\ U.m_max_bucket_capacity = T.m_max_bucket_capacity
  /\ U.m_max_load_factor = T.m_max_load_factor

\* Sizes, keys and homes stay the same then.
LEMMA Rebucket ==
  ASSUME NEW T, Allocated(T), NEW B \in [0 .. bucket_count(T) - 1 -> Bucket]
  PROVE  /\ Rebucketed(T, [T EXCEPT !.m_buckets = B])
         /\ [T EXCEPT !.m_buckets = B].m_buckets = B
<1> DEFINE U == [T EXCEPT !.m_buckets = B]
           N == bucket_count(T)
<1>1. N \in Nat \ {0} /\ T \in Table /\ DOMAIN T.m_buckets = 0 .. N - 1
  BY Buckets DEF Allocated
<1> HIDE DEF N
<1>2. /\ U.m_values = T.m_values /\ U.m_shifts = T.m_shifts
      /\ U.m_max_bucket_capacity = T.m_max_bucket_capacity
      /\ U.m_max_load_factor = T.m_max_load_factor /\ U.m_buckets = B
  BY <1>1 DEF Table
<1>3. B \in UNION {[0 .. n - 1 -> Bucket] : n \in Nat}
  BY <1>1 DEF N
<1>4. U \in Table
  BY <1>1, <1>3 DEF Table
<1>5. bucket_count(U) = N
  <2>1. DOMAIN U.m_buckets = DOMAIN T.m_buckets
    BY <1>1, <1>2 DEF N
  <2> QED BY <2>1 DEF bucket_count, N
<1> HIDE DEF U
<1>6. Allocated(U)
  BY <1>2, <1>4, <1>5 DEF Allocated, N
<1> QED
  BY <1>2, <1>5, <1>6 DEF Rebucketed, U, N

\* What depends on values and shift only.
LEMMA SameKeys ==
  ASSUME NEW T, NEW U, U.m_values = T.m_values, U.m_shifts = T.m_shifts
  PROVE  /\ size(U) = size(T)
         /\ \A idx : get_key(U, idx) = get_key(T, idx)
         /\ \A k : Home(U, k) = Home(T, k)
  BY DEF size, get_key, Home, bucket_idx_from_hash

\* U is T with the bucket put into its place and the ones up to the next vacant
\* bucket, m steps on, moved up.
ShiftedUp(T, U, place, bucket, m) ==
  LET q(i) == Hop(bucket_count(T), place, i)
  IN /\ Rebucketed(T, U)
     /\ T.m_buckets[q(m)] = Vacant /\ \A i \in 0 .. m - 1 : T.m_buckets[q(i)] # Vacant
     /\ U.m_buckets[place] = bucket
     /\ \A i \in 1 .. m :
          U.m_buckets[q(i)] = [T.m_buckets[q(i - 1)] EXCEPT !.dist_and_fingerprint = @ + dist_inc]
     /\ \A i \in m + 1 .. bucket_count(T) - 1 : U.m_buckets[q(i)] = T.m_buckets[q(i)]

\* That is what place_and_shift_up() does, if a bucket is vacant.
LEMMA PlaceIs ==
  ASSUME HashOK, NEW T, Allocated(T), NEW I, Sound(T, I), SomeVacant(T),
         NEW place \in 0 .. bucket_count(T) - 1, NEW bucket \in Bucket
  PROVE  \E m \in 0 .. bucket_count(T) - 1 :
           ShiftedUp(T, place_and_shift_up(T, bucket, place), place, bucket, m)
<1> DEFINE N == bucket_count(T)
           q(i) == Hop(N, place, i)
           m == Steps(T, LAMBDA i : At(T, place, i).dist_and_fingerprint = 0)
           B == [b \in DOMAIN T.m_buckets |->
                  IF b = place THEN bucket
                  ELSE IF \E i \in 1 .. m : b = Forward(T, place, i)
                    THEN [At(T, b, N - 1) EXCEPT !.dist_and_fingerprint = @ + dist_inc]
                  ELSE T.m_buckets[b]]
           U == [T EXCEPT !.m_buckets = B]
<1>1. N \in Nat \ {0} /\ DOMAIN T.m_buckets = 0 .. N - 1
  BY Buckets
<1>2. \A i \in 0 .. N : /\ q(i) \in 0 .. N - 1 /\ Forward(T, place, i) = q(i)
                        /\ At(T, place, i) = T.m_buckets[q(i)]
  BY <1>1, ForwardIs, Hops
<1>3. /\ \A c \in 0 .. N - 1 : \E i \in 0 .. N - 1 : c = q(i)
      /\ \A i, j \in 0 .. N - 1 : q(i) = q(j) => i = j
      /\ q(0) = place
      /\ \A i \in 0 .. N - 1 : Hop(N, q(i + 1), N - 1) = q(i)
  <2>1. place \in 0 .. N - 1
    OBVIOUS
  <2> HIDE DEF N
  <2> QED BY <1>1, <2>1, Hops, SMTT(30)
<1>4. place_and_shift_up(T, bucket, place) = U
  BY Zenon DEF place_and_shift_up
<1>5. PICK x \in 0 .. N - 1 : T.m_buckets[q(x)] = Vacant /\ \A i \in 0 .. x - 1 : T.m_buckets[q(i)] # Vacant
  <2> DEFINE S == {i \in Nat : i <= N - 1 /\ T.m_buckets[q(i)] = Vacant}
  <2>1. PICK c \in 0 .. N - 1 : T.m_buckets[c] = Vacant
    BY DEF SomeVacant
  <2>2. PICK i \in 0 .. N - 1 : c = q(i)
    BY <1>3, <2>1
  <2> HIDE DEF N, q
  <2>3. i \in S
    BY <1>1, <2>1, <2>2
  <2>4. PICK x \in S : \A y \in S : x <= y
    BY <2>3, LeastNat
  <2>5. x \in 0 .. N - 1 /\ T.m_buckets[q(x)] = Vacant
    BY <1>1, <2>4
  <2>6. \A j \in 0 .. x - 1 : T.m_buckets[q(j)] # Vacant
    BY <1>1, <2>4
  <2> QED BY <2>5, <2>6
<1>6. \A i \in 0 .. N - 1 : At(T, place, i).dist_and_fingerprint = 0 <=> T.m_buckets[q(i)] = Vacant
  <2> TAKE i \in 0 .. N - 1
  <2>1. i \in 0 .. N
    BY <1>1
  <2>2. q(i) \in 0 .. N - 1 /\ At(T, place, i).dist_and_fingerprint = Df(T, q(i))
    BY <1>2, <2>1 DEF Df
  <2> HIDE DEF q
  <2> QED BY <2>2, VacantIs
<1> HIDE DEF N, q
<1>7. /\ x \in 0 .. N + 1 /\ At(T, place, x).dist_and_fingerprint = 0
      /\ \A i \in 0 .. x - 1 : At(T, place, i).dist_and_fingerprint # 0
  BY <1>1, <1>5, <1>6
<1>8. /\ m \in 0 .. N + 1 /\ At(T, place, m).dist_and_fingerprint = 0
      /\ \A i \in 0 .. m - 1 : At(T, place, i).dist_and_fingerprint # 0
  BY <1>7 DEF Steps, N
<1> HIDE DEF m
<1>9. m = x
  BY <1>1, <1>7, <1>8
<1>10. B[place] = bucket
  BY <1>1 DEF N
<1>11. ASSUME NEW i \in 1 .. m
       PROVE  B[q(i)] = [T.m_buckets[q(i - 1)] EXCEPT !.dist_and_fingerprint = @ + dist_inc]
  <2>1. i \in 0 .. N - 1 /\ i # 0 /\ 0 \in 0 .. N - 1 /\ i - 1 \in 0 .. N - 1 /\ (i - 1) + 1 = i
        /\ i \in 0 .. N
    BY <1>1, <1>9
  <2>2. q(i) \in DOMAIN T.m_buckets /\ q(i) # place /\ q(i) = Forward(T, place, i)
    BY <1>1, <1>2, <1>3, <2>1
  <2>3. Hop(N, q(i), N - 1) = q(i - 1)
    BY <1>3, <2>1
  <2>4. At(T, q(i), N - 1) = T.m_buckets[q(i - 1)]
    <3>1. q(i) \in 0 .. N - 1 /\ N - 1 \in 0 .. N
      BY <1>1, <2>2
    <3> QED BY <2>3, <3>1, ForwardIs DEF N
  <2>5. B[q(i)] = [At(T, q(i), N - 1) EXCEPT !.dist_and_fingerprint = @ + dist_inc]
    BY <2>2
  <2> QED BY <2>4, <2>5
<1>12. ASSUME NEW i \in m + 1 .. N - 1 PROVE B[q(i)] = T.m_buckets[q(i)]
  <2>1. i \in 0 .. N - 1 /\ i # 0 /\ 0 \in 0 .. N - 1 /\ i \in 0 .. N
    BY <1>1, <1>9
  <2>2. q(i) \in DOMAIN T.m_buckets /\ q(i) # place
    BY <1>1, <1>2, <1>3, <2>1
  <2>3. ~ \E j \in 1 .. m : q(i) = Forward(T, place, j)
    <3> SUFFICES ASSUME NEW j \in 1 .. m, q(i) = Forward(T, place, j) PROVE FALSE
      OBVIOUS
    <3>1. j \in 0 .. N - 1 /\ j \in 0 .. N /\ j # i
      BY <1>1, <1>9
    <3>2. q(i) = q(j)
      BY <1>2, <3>1
    <3>3. \A x1, y \in 0 .. N - 1 : q(x1) = q(y) => x1 = y
      BY <1>3
    <3> QED BY <2>1, <3>1, <3>2, <3>3
  <2> QED BY <2>2, <2>3
<1>13. B \in [0 .. N - 1 -> Bucket]
  <2>1. ASSUME NEW b \in 0 .. N - 1 PROVE B[b] \in Bucket
    <3>1. PICK i \in 0 .. N - 1 : b = q(i)
      BY <1>3
    <3>2. \A j \in 0 .. N - 1 : T.m_buckets[q(j)] \in Bucket
      <4>1. \A c \in 0 .. N - 1 : T.m_buckets[c] \in Bucket
        BY Buckets DEF N
      <4>2. \A j \in 0 .. N - 1 : j \in 0 .. N
        BY <1>1
      <4> QED BY <1>2, <4>1, <4>2
    <3>3. CASE i = 0
      BY <1>3, <1>10, <3>1, <3>3
    <3>4. CASE i \in 1 .. m
      <4>1. i - 1 \in 0 .. N - 1
        BY <1>1, <3>4
      <4>2. T.m_buckets[q(i - 1)] \in Bucket
        BY <3>2, <4>1
      <4>3. [T.m_buckets[q(i - 1)] EXCEPT !.dist_and_fingerprint = @ + dist_inc] \in Bucket
        BY <4>2, Widths DEF Bucket
      <4> QED BY <1>11, <3>1, <3>4, <4>3
    <3>5. CASE i \in m + 1 .. N - 1
      BY <1>12, <3>1, <3>2, <3>5
    <3> QED
      <4>1. i = 0 \/ i \in 1 .. m \/ i \in m + 1 .. N - 1
        BY <1>1, <1>9
      <4> QED BY <3>3, <3>4, <3>5, <4>1
  <2>2. B = [b \in 0 .. N - 1 |-> B[b]]
    BY <1>1
  <2> HIDE DEF B
  <2> QED BY <2>1, <2>2
<1> HIDE DEF B
<1>14. Rebucketed(T, U) /\ U.m_buckets = B
  BY <1>13, Rebucket DEF N
<1>15. m \in 0 .. N - 1 /\ T.m_buckets[q(m)] = Vacant /\ \A i \in 0 .. m - 1 : T.m_buckets[q(i)] # Vacant
  BY <1>5, <1>9
<1> HIDE DEF U
<1>16. ShiftedUp(T, U, place, bucket, m)
  BY <1>10, <1>11, <1>12, <1>14, <1>15 DEF ShiftedUp, N, q
<1> QED
  BY <1>4, <1>15, <1>16 DEF N

\* The buckets of a table, counted from bucket p on.
Ring(T, p) ==
  LET N == bucket_count(T)
      q(i) == Hop(N, p, i)
  IN /\ \A i \in 0 .. N : q(i) \in 0 .. N - 1 /\ Df(T, q(i)) \in Nat
     /\ q(0) = p /\ q(N) = p
     /\ \A c \in 0 .. N - 1 : \E i \in 0 .. N - 1 : c = q(i)
     /\ \A i, j \in 0 .. N - 1 : q(i) = q(j) => i = j
     /\ \A i \in 1 .. N : Hop(N, q(i), N - 1) = q(i - 1) /\ Hop(N, q(i - 1), 1) = q(i)

\* They are the buckets of the table.
LEMMA RingIs ==
  ASSUME NEW T, Allocated(T), NEW p \in 0 .. bucket_count(T) - 1
  PROVE  Ring(T, p)
<1> DEFINE N == bucket_count(T)
           q(i) == Hop(N, p, i)
<1>1. N \in Nat \ {0} /\ p \in 0 .. N - 1
  BY Buckets
<1>a. \A b \in 0 .. N - 1 : Df(T, b) \in Nat
  BY Buckets
<1> HIDE DEF N
<1>2. /\ \A i \in 0 .. N : q(i) \in 0 .. N - 1
      /\ q(0) = p /\ q(N) = p
      /\ \A c \in 0 .. N - 1 : \E i \in 0 .. N - 1 : c = q(i)
      /\ \A i, j \in 0 .. N - 1 : q(i) = q(j) => i = j
  <2>1. /\ \A i \in 0 .. N : q(i) \in 0 .. N - 1
        /\ q(0) = p /\ q(N) = p
    BY <1>1, Hops
  <2>2. \A c \in 0 .. N - 1 : \E i \in 0 .. N - 1 : c = q(i)
    BY <1>1, Hops
  <2>3. \A i, j \in 0 .. N - 1 : q(i) = q(j) => i = j
    BY <1>1, Hops
  <2> QED BY <2>1, <2>2, <2>3
<1>3. /\ \A i \in 0 .. N - 1 : Hop(N, q(i + 1), N - 1) = q(i)
      /\ \A i \in 0 .. N - 1 : Hop(N, q(i), 1) = q(i + 1)
  BY <1>1, Hops, ZenonT(40)
<1> HIDE DEF q
<1>4. ASSUME NEW i \in 1 .. N
      PROVE  Hop(N, q(i), N - 1) = q(i - 1) /\ Hop(N, q(i - 1), 1) = q(i)
  <2>1. i - 1 \in 0 .. N - 1 /\ (i - 1) + 1 = i
    BY <1>1
  <2> QED BY <1>3, <2>1
<1> QED
  BY <1>a, <1>2, <1>4 DEF Ring, N, q

\* The order of the buckets, read from bucket p around to it.
Downhill(T, p) ==
  LET d(i) == Df(T, Hop(bucket_count(T), p, i))
  IN \A i \in 1 .. bucket_count(T) : d(i) < 2 * dist_inc \/ d(i) <= d(i - 1) + dist_inc

\* It is the same order, wherever one begins.
LEMMA OrderedFrom ==
  ASSUME NEW T, Allocated(T), NEW p \in 0 .. bucket_count(T) - 1
  PROVE  Ordered(T) <=> Downhill(T, p)
<1> DEFINE N == bucket_count(T)
           q(i) == Hop(N, p, i)
<1>1. N \in Nat \ {0} /\ p \in 0 .. N - 1
  BY Buckets
<1>2. /\ \A i \in 0 .. N : q(i) \in 0 .. N - 1
      /\ q(0) = p /\ q(N) = p
      /\ \A c \in 0 .. N - 1 : \E i \in 0 .. N - 1 : c = q(i)
      /\ \A i \in 1 .. N : Hop(N, q(i), N - 1) = q(i - 1)
  <2>1. Ring(T, p)
    BY RingIs
  <2> QED BY <2>1 DEF Ring
<1> HIDE DEF N, q
<1>3. ASSUME Ordered(T), NEW i \in 1 .. N
      PROVE  Df(T, q(i)) < 2 * dist_inc \/ Df(T, q(i)) <= Df(T, q(i - 1)) + dist_inc
  <2>1. q(i) \in 0 .. N - 1 /\ Hop(N, q(i), N - 1) = q(i - 1)
    BY <1>1, <1>2
  <2> QED BY <1>3, <2>1 DEF Ordered, N
<1>4. ASSUME \A i \in 1 .. N : Df(T, q(i)) < 2 * dist_inc \/ Df(T, q(i)) <= Df(T, q(i - 1)) + dist_inc,
             NEW b \in 0 .. N - 1
      PROVE  Df(T, b) < 2 * dist_inc \/ Df(T, b) <= Df(T, Hop(N, b, N - 1)) + dist_inc
  <2>1. PICK i \in 1 .. N : b = q(i)
    <3>1. PICK j \in 0 .. N - 1 : b = q(j)
      BY <1>2
    <3>2. CASE j = 0
      BY <1>1, <1>2, <3>1, <3>2
    <3>3. CASE j # 0
      BY <1>1, <3>1, <3>3
    <3> QED BY <3>2, <3>3
  <2> QED BY <1>2, <1>4, <2>1
<1> QED
  BY <1>3, <1>4 DEF Ordered, Downhill, N, q

\* With a vacant bucket no run of buckets goes all around.
LEMMA NoFullRun ==
  ASSUME HashOK, NEW T, Allocated(T), NEW I, Sound(T, I), SomeVacant(T), NEW k \in Key,
         NEW h \in 0 .. bucket_count(T) - 1
  PROVE  /\ ~(\A i \in 0 .. bucket_count(T) - 1 : Dist(k, i) <= Df(T, Hop(bucket_count(T), h, i)))
         /\ ~(Dist(k, bucket_count(T) - 1) <= Df(T, Hop(bucket_count(T), h, bucket_count(T) - 1)))
<1> DEFINE N == bucket_count(T)
           q(i) == Hop(N, h, i)
<1>1. N \in Nat \ {0} /\ N - 1 \in 0 .. N - 1 /\ Ordered(T)
  BY Buckets DEF Sound
<1>2. PICK c \in 0 .. N - 1 : T.m_buckets[c] = Vacant
  BY DEF SomeVacant
<1>3. PICK j \in 0 .. N - 1 : c = q(j)
  BY RingIs DEF Ring
<1>4. Df(T, q(j)) = 0 /\ j \in Nat
  BY <1>1, <1>2, <1>3 DEF Df, Vacant
<1>5. 0 < Dist(k, j) /\ Dist(k, j) \in Nat
  BY <1>4, Distances
<1>6. ~(\A i \in 0 .. N - 1 : Dist(k, i) <= Df(T, q(i)))
  <2> HIDE DEF N, q
  <2> QED BY <1>3, <1>4, <1>5
<1>7. ASSUME Dist(k, N - 1) <= Df(T, q(N - 1)) PROVE FALSE
  <2>1. \A i \in 0 .. N - 1 : Dist(k, i) <= Df(T, q(i))
    BY <1>1, <1>7, RunBack
  <2> QED BY <1>6, <2>1
<1> QED
  BY <1>6, <1>7

\* The buckets after place_and_shift_up(): the new one, and each of the others
\* with the value it had one bucket before, or that it had.
ShiftedView(T, U, place, bucket, m) ==
  LET q(i) == Hop(bucket_count(T), place, i)
      d(i) == Df(T, q(i))
      e(i) == Df(U, q(i))
  IN /\ \A i \in 0 .. bucket_count(T) : d(i) \in Nat /\ e(i) \in Nat
     /\ d(m) = 0 /\ \A i \in 0 .. m - 1 : dist_inc <= d(i)
     /\ e(0) = bucket.dist_and_fingerprint /\ Idx(U, q(0)) = bucket.value_idx
     /\ \A i \in 1 .. m : e(i) = d(i - 1) + dist_inc /\ Idx(U, q(i)) = Idx(T, q(i - 1))
                          /\ T.m_buckets[q(i - 1)] # Vacant
     /\ \A i \in m + 1 .. bucket_count(T) - 1 :
          e(i) = d(i) /\ U.m_buckets[q(i)] = T.m_buckets[q(i)]

\* ShiftedUp() in these terms.
LEMMA ShiftedBuckets ==
  ASSUME HashOK, NEW T, Allocated(T), NEW I, Sound(T, I), NEW U,
         NEW place \in 0 .. bucket_count(T) - 1, NEW bucket \in Bucket,
         NEW m \in 0 .. bucket_count(T) - 1, ShiftedUp(T, U, place, bucket, m)
  PROVE  ShiftedView(T, U, place, bucket, m)
<1> DEFINE N == bucket_count(T)
           q(i) == Hop(N, place, i)
           d(i) == Df(T, q(i))
           e(i) == Df(U, q(i))
<1>1. N \in Nat \ {0} /\ Rebucketed(T, U)
  BY Buckets DEF ShiftedUp
<1>2. Allocated(U) /\ bucket_count(U) = N
  BY <1>1 DEF Rebucketed
<1>3. Ring(T, place) /\ Ring(U, place)
  BY <1>2, RingIs
<1>4. q(0) = place /\ \A i \in 0 .. N : q(i) \in 0 .. N - 1 /\ d(i) \in Nat
  BY <1>3 DEF Ring
<1>5. \A i \in 0 .. N : e(i) \in Nat
  BY <1>2, <1>3 DEF Ring
<1>6. /\ T.m_buckets[q(m)] = Vacant /\ \A i \in 0 .. m - 1 : T.m_buckets[q(i)] # Vacant
      /\ U.m_buckets[q(0)] = bucket
      /\ \A i \in 1 .. m :
           U.m_buckets[q(i)] = [T.m_buckets[q(i - 1)] EXCEPT !.dist_and_fingerprint = @ + dist_inc]
      /\ \A i \in m + 1 .. N - 1 : U.m_buckets[q(i)] = T.m_buckets[q(i)]
  BY <1>4 DEF ShiftedUp
<1>7. \A b \in 0 .. N - 1 : T.m_buckets[b] \in Bucket
  BY Buckets
<1> HIDE DEF N, q
<1>8. d(m) = 0
  BY <1>6 DEF Df, Vacant
<1>9. ASSUME NEW i \in 0 .. m - 1 PROVE dist_inc <= d(i) /\ T.m_buckets[q(i)] # Vacant
  <2>1. i \in 0 .. N
    BY <1>1 DEF N
  <2>2. q(i) \in 0 .. N - 1 /\ T.m_buckets[q(i)] # Vacant
    BY <1>4, <1>6, <2>1
  <2> QED BY <2>2, InUse DEF N
<1>10. e(0) = bucket.dist_and_fingerprint /\ Idx(U, q(0)) = bucket.value_idx
  BY <1>6 DEF Df, Idx
<1>11. ASSUME NEW i \in 1 .. m
       PROVE  e(i) = d(i - 1) + dist_inc /\ Idx(U, q(i)) = Idx(T, q(i - 1)) /\ T.m_buckets[q(i - 1)] # Vacant
  <2>1. i - 1 \in 0 .. N /\ i - 1 \in 0 .. m - 1
    BY <1>1 DEF N
  <2>2. T.m_buckets[q(i - 1)] \in Bucket
    BY <1>4, <1>7, <2>1
  <2>3. U.m_buckets[q(i)] = [T.m_buckets[q(i - 1)] EXCEPT !.dist_and_fingerprint = @ + dist_inc]
    BY <1>6
  <2>4. T.m_buckets[q(i - 1)] # Vacant
    BY <1>6, <2>1
  <2> QED BY <2>2, <2>3, <2>4 DEF Bucket, Df, Idx
<1>12. ASSUME NEW i \in m + 1 .. N - 1 PROVE e(i) = d(i) /\ U.m_buckets[q(i)] = T.m_buckets[q(i)]
  BY <1>6 DEF Df
<1> HIDE DEF d, e
<1>13. /\ \A i \in 0 .. N : d(i) \in Nat /\ e(i) \in Nat
       /\ d(m) = 0 /\ \A i \in 0 .. m - 1 : dist_inc <= d(i)
       /\ e(0) = bucket.dist_and_fingerprint /\ Idx(U, q(0)) = bucket.value_idx
       /\ \A i \in 1 .. m : e(i) = d(i - 1) + dist_inc /\ Idx(U, q(i)) = Idx(T, q(i - 1))
                            /\ T.m_buckets[q(i - 1)] # Vacant
       /\ \A i \in m + 1 .. N - 1 : e(i) = d(i) /\ U.m_buckets[q(i)] = T.m_buckets[q(i)]
  BY <1>4, <1>5, <1>8, <1>9, <1>10, <1>11, <1>12 DEF d
<1> QED
  BY <1>13, Zenon DEF ShiftedView, d, e, q, N

\* The place for a new key is less than once around, and the bucket before it
\* is at least as far from home as the key would be there.
LEMMA InsertPlace ==
  ASSUME HashOK, NEW T, Allocated(T), NEW I, Sound(T, I), SomeVacant(T), NEW k \in Key,
         NEW n, Belongs(T, k, n)
  PROVE  LET place == Hop(bucket_count(T), Home(T, k), n)
         IN /\ n \in 0 .. bucket_count(T) - 1 /\ n \in Nat
            /\ place \in 0 .. bucket_count(T) - 1 /\ Forward(T, Home(T, k), n) = place
            /\ Dist(k, n) \in Nat /\ Df(T, place) <= Dist(k, n)
            /\ n # 0 => Dist(k, n) <= Df(T, Hop(bucket_count(T), place, bucket_count(T) - 1)) + dist_inc
                        /\ 0 < Df(T, Hop(bucket_count(T), place, bucket_count(T) - 1))
            /\ n = 0 => Dist(k, n) < 2 * dist_inc
<1> DEFINE N == bucket_count(T)
           h == Home(T, k)
           q(i) == Hop(N, h, i)
<1>1. N \in Nat \ {0} /\ h \in 0 .. N - 1
  BY Buckets, HomeIs
<1>2. /\ n \in 0 .. N
      /\ \A i \in 0 .. n - 1 : Dist(k, i) <= Df(T, q(i))
      /\ Df(T, q(n)) <= Dist(k, n)
  BY DEF Belongs
<1>3. n # N
  <2> SUFFICES ASSUME n = N PROVE FALSE
    OBVIOUS
  <2>1. \A i \in 0 .. N - 1 : Dist(k, i) <= Df(T, q(i))
    BY <1>2
  <2> QED BY <1>1, <2>1, NoFullRun
<1>4. n \in 0 .. N - 1 /\ n \in Nat /\ Dist(k, n) \in Nat
  <2>1. n \in 0 .. N - 1 /\ n \in Nat
    BY <1>1, <1>2, <1>3
  <2> QED BY <2>1, Distances
<1>5. q(n) \in 0 .. N - 1 /\ Forward(T, h, n) = q(n)
  BY <1>2, ThereIs
<1>6. ASSUME n # 0
      PROVE  Dist(k, n) <= Df(T, Hop(N, q(n), N - 1)) + dist_inc /\ 0 < Df(T, Hop(N, q(n), N - 1))
  <2>1. n \in 1 .. N /\ n - 1 \in 0 .. n - 1 /\ n - 1 \in 0 .. N /\ n - 1 \in Nat /\ (n - 1) + 1 = n
    BY <1>1, <1>4, <1>6
  <2>2. Hop(N, q(n), N - 1) = q(n - 1) /\ Df(T, q(n - 1)) \in Nat
    <3>1. Ring(T, h)
      BY <1>1, RingIs
    <3> QED BY <2>1, <3>1 DEF Ring
  <2>3. Dist(k, n - 1) <= Df(T, q(n - 1))
    BY <1>2, <2>1
  <2>4. Dist(k, n) = Dist(k, n - 1) + dist_inc /\ Dist(k, n - 1) \in Nat /\ 0 < Dist(k, n - 1)
    <3>1. Dist(k, (n - 1) + 1) = Dist(k, n - 1) + dist_inc /\ Dist(k, n - 1) \in Nat /\ 0 < Dist(k, n - 1)
      BY <2>1, Distances
    <3> QED BY <2>1, <3>1
  <2> HIDE DEF N, q, h
  <2> QED BY <2>2, <2>3, <2>4, Widths
<1>7. n = 0 => Dist(k, n) < 2 * dist_inc
  BY Distances
<1> QED
  BY <1>2, <1>4, <1>5, <1>6, <1>7

\* A new bucket put there leaves the order of the buckets.
LEMMA PlacedOrder ==
  ASSUME HashOK, NEW T, Allocated(T), NEW I, Sound(T, I), SomeVacant(T), NEW k \in Key,
         NEW n, Belongs(T, k, n), NEW idx \in Nat, NEW U, NEW m \in 0 .. bucket_count(T) - 1,
         ShiftedUp(T, U, Hop(bucket_count(T), Home(T, k), n),
                   [dist_and_fingerprint |-> Dist(k, n), value_idx |-> idx], m)
  PROVE  Ordered(U) /\ SomeAtHome(U)
<1> DEFINE N == bucket_count(T)
           place == Hop(N, Home(T, k), n)
           bucket == [dist_and_fingerprint |-> Dist(k, n), value_idx |-> idx]
           q(i) == Hop(N, place, i)
           d(i) == Df(T, q(i))
           e(i) == Df(U, q(i))
           D == dist_inc
<1>1. N \in Nat \ {0} /\ D \in Nat \ {0} /\ Allocated(U) /\ bucket_count(U) = N /\ Ordered(T)
  BY Buckets, Widths DEF ShiftedUp, Rebucketed, Sound
<1>2. /\ n \in 0 .. N - 1 /\ n \in Nat /\ place \in 0 .. N - 1 /\ Dist(k, n) \in Nat
      /\ Df(T, place) <= Dist(k, n)
      /\ n # 0 => Dist(k, n) <= d(N - 1) + D /\ 0 < d(N - 1)
      /\ n = 0 => Dist(k, n) < 2 * D
  BY InsertPlace
<1>3. bucket \in Bucket /\ bucket.dist_and_fingerprint = Dist(k, n)
  BY <1>2 DEF Bucket
<1> HIDE DEF N, place, bucket
<1>4. /\ \A i \in 0 .. N : d(i) \in Nat /\ e(i) \in Nat
      /\ d(m) = 0 /\ \A i \in 0 .. m - 1 : D <= d(i)
      /\ e(0) = bucket.dist_and_fingerprint
      /\ \A i \in 1 .. m : e(i) = d(i - 1) + D
      /\ \A i \in m + 1 .. N - 1 : e(i) = d(i)
  <2>1. ShiftedUp(T, U, place, bucket, m) /\ place \in 0 .. bucket_count(T) - 1
    BY <1>2 DEF N, place, bucket
  <2>2. m \in 0 .. bucket_count(T) - 1
    OBVIOUS
  <2>3. ShiftedView(T, U, place, bucket, m)
    BY <1>3, <2>1, <2>2, ShiftedBuckets
  <2> QED BY <2>3 DEF ShiftedView, N
<1>5. q(0) = place /\ q(N) = place /\ \A i \in 0 .. N : q(i) \in 0 .. N - 1
  <2>1. Ring(T, place)
    BY <1>2, RingIs DEF N
  <2> QED BY <2>1 DEF Ring, N
<1>6. \A i \in 1 .. N : d(i) < 2 * D \/ d(i) <= d(i - 1) + D
  <2>1. Downhill(T, place)
    BY <1>1, <1>2, OrderedFrom DEF N
  <2> QED BY <2>1 DEF Downhill, N
<1>7. d(0) <= e(0) /\ e(0) = Dist(k, n) /\ e(N) = e(0) /\ m \in 0 .. N - 1
  BY <1>2, <1>3, <1>4, <1>5 DEF N
<1> HIDE DEF d, e, D, q
<1>8. ASSUME m = N - 1 PROVE e(0) < 2 * D
  BY <1>2, <1>4, <1>7, <1>8
<1>9. ASSUME m # N - 1 PROVE m + 1 \in 0 .. N - 1 /\ e(m + 1) < 2 * D
  <2>1. m \in 0 .. N /\ m + 1 \in 1 .. N /\ m + 1 \in m + 1 .. N - 1 /\ (m + 1) - 1 = m /\ m + 1 \in 0 .. N
        /\ m + 1 \in 0 .. N - 1
    BY <1>1, <1>7, <1>9
  <2>2. d(m + 1) < 2 * D \/ d(m + 1) <= d((m + 1) - 1) + D
    BY <1>6, <2>1
  <2>3. d(m + 1) < 2 * D \/ d(m + 1) <= D
    BY <1>1, <1>4, <2>1, <2>2
  <2>4. e(m + 1) = d(m + 1) /\ d(m + 1) \in Nat
    BY <1>4, <2>1
  <2> QED BY <1>1, <2>1, <2>3, <2>4
<1>10. ASSUME NEW i \in 1 .. N PROVE e(i) < 2 * D \/ e(i) <= e(i - 1) + D
  <2>1. CASE i = N
    <3>1. CASE n = 0
      BY <1>2, <1>7, <2>1, <3>1
    <3>2. CASE n # 0
      <4>1. Dist(k, n) <= d(N - 1) + D /\ 0 < d(N - 1)
        BY <1>2, <3>2
      <4>2. m # N - 1
        BY <1>4, <4>1
      <4>3. N - 1 \in m + 1 .. N - 1
        BY <1>1, <1>7, <4>2
      <4>4. e(N - 1) = d(N - 1)
        BY <1>4, <4>3
      <4> QED BY <1>7, <2>1, <4>1, <4>4
    <3> QED BY <3>1, <3>2
  <2>2. CASE i = 1 /\ i <= m
    <3>1. 1 \in 1 .. m /\ 1 - 1 = 0 /\ 0 \in 0 .. N
      BY <1>1, <1>7, <2>2
    <3>2. e(1) = d(1 - 1) + D
      BY <1>4, <3>1
    <3>3. e(1) = d(0) + D /\ d(0) \in Nat /\ e(0) \in Nat
      BY <1>4, <3>1, <3>2
    <3>4. e(1) <= e(0) + D
      BY <1>1, <1>7, <3>3
    <3> QED BY <2>2, <3>1, <3>4
  <2>3. CASE 1 < i /\ i <= m
    <3> DEFINE j == i - 1
               l == i - 2
    <3>1. /\ i \in 1 .. m /\ j \in 1 .. m /\ j \in 1 .. N /\ l \in 0 .. m - 1 /\ j - 1 = l
          /\ j \in 0 .. N /\ l \in 0 .. N
      BY <1>1, <1>7, <2>3
    <3>2. e(i) = d(j) + D
      BY <1>4, <3>1
    <3>3. e(j) = d(j - 1) + D
      BY <1>4, <3>1
    <3>4. d(j) < 2 * D \/ d(j) <= d(j - 1) + D
      BY <1>6, <3>1
    <3>5. D <= d(l) /\ d(l) \in Nat /\ d(j) \in Nat
      BY <1>4, <3>1
    <3>6. e(j) = d(l) + D /\ (d(j) < 2 * D \/ d(j) <= d(l) + D)
      BY <3>1, <3>3, <3>4
    <3>7. e(i) <= e(j) + D
      <4> HIDE DEF j, l
      <4> QED BY <1>1, <3>2, <3>5, <3>6
    <3> QED BY <3>7
  <2>4. CASE i = m + 1 /\ i # N
    <3>1. m # N - 1
      BY <1>1, <1>7, <2>4
    <3> QED BY <1>9, <2>4, <3>1
  <2>5. CASE m + 1 < i /\ i # N
    <3>1. i \in m + 1 .. N - 1 /\ i - 1 \in m + 1 .. N - 1
      BY <1>1, <1>7, <2>5
    <3>2. e(i) = d(i) /\ e(i - 1) = d(i - 1)
      BY <1>4, <3>1
    <3> QED BY <1>6, <3>2
  <2> QED
    BY <1>1, <1>7, <2>1, <2>2, <2>3, <2>4, <2>5
<1>11. Downhill(U, place)
  BY <1>1, <1>10 DEF Downhill, e, q, D
<1>12. Ordered(U)
  <2>1. place \in 0 .. bucket_count(U) - 1
    BY <1>1, <1>2
  <2> QED BY <1>1, <1>11, <2>1, OrderedFrom
<1>13. SomeAtHome(U)
  <2>1. PICK i \in 0 .. N - 1 : e(i) < 2 * D
    <3>1. 0 \in 0 .. N - 1
      BY <1>1
    <3> QED BY <1>8, <1>9, <3>1
  <2>2. q(i) \in 0 .. N - 1
    BY <1>1, <1>5
  <2> QED BY <1>1, <2>1, <2>2 DEF SomeAtHome, e, D
<1> QED
  BY <1>12, <1>13

\* A value that has no bucket yet, with a new key, gets one; all others keep
\* theirs, some one bucket farther.
LEMMA Placed ==
  ASSUME HashOK, NEW T, Allocated(T), NEW I, Sound(T, I), SomeVacant(T),
         NEW idx \in 0 .. size(T) - 1, idx \notin I,
         \A j \in I : get_key(T, j) # get_key(T, idx),
         NEW n, Belongs(T, get_key(T, idx), n)
  PROVE  LET U == PlaceAt(T, get_key(T, idx), idx, n)
         IN Rebucketed(T, U) /\ Sound(U, I \cup {idx})
<1> DEFINE N == bucket_count(T)
           k == get_key(T, idx)
           place == Hop(N, Home(T, k), n)
           bucket == [dist_and_fingerprint |-> Dist(k, n), value_idx |-> idx]
           U == PlaceAt(T, k, idx, n)
           J == I \cup {idx}
           q(i) == Hop(N, place, i)
           D == dist_inc
<1>1. /\ N \in Nat \ {0} /\ D \in Nat \ {0} /\ T \in Table /\ I \subseteq 0 .. size(T) - 1
      /\ k \in Key /\ idx \in Nat
  <2>1. T.m_values \in Seq(Key \X Val) /\ T \in Table /\ I \subseteq 0 .. size(T) - 1
    BY DEF Allocated, Table, Sound
  <2>2. size(T) \in Nat
    BY <2>1 DEF size
  <2> QED BY <2>1, <2>2, Buckets, KeyIs, Widths
<1>2. /\ n \in 0 .. N - 1 /\ n \in Nat /\ place \in 0 .. N - 1 /\ Forward(T, Home(T, k), n) = place
      /\ Dist(k, n) \in Nat
  BY <1>1, InsertPlace
<1>3. bucket \in Bucket
  BY <1>1, <1>2 DEF Bucket
<1>4. U = place_and_shift_up(T, bucket, place)
  BY <1>2 DEF PlaceAt
<1>5. PICK m \in 0 .. N - 1 : ShiftedUp(T, U, place, bucket, m)
  <2> HIDE DEF bucket, place
  <2> QED BY <1>2, <1>3, <1>4, PlaceIs
<1>6. Ordered(U) /\ SomeAtHome(U)
  <2>1. Belongs(T, k, n)
    OBVIOUS
  <2> HIDE DEF k, U
  <2> QED BY <1>1, <1>5, <2>1, PlacedOrder
<1>7. ShiftedView(T, U, place, bucket, m)
  <2> HIDE DEF bucket, place, U
  <2> QED BY <1>2, <1>3, <1>5, ShiftedBuckets
<1>8. bucket.dist_and_fingerprint = Dist(k, n) /\ bucket.value_idx = idx
  OBVIOUS
<1>9. Rebucketed(T, U)
  BY <1>5 DEF ShiftedUp
<1> HIDE DEF U, place, bucket
<1>10. /\ Allocated(U) /\ bucket_count(U) = N
       /\ U.m_values = T.m_values /\ U.m_shifts = T.m_shifts
  BY <1>9 DEF Rebucketed
<1>11. /\ size(U) = size(T)
       /\ \A j : get_key(U, j) = get_key(T, j)
       /\ \A x : Home(U, x) = Home(T, x)
  BY <1>10, SameKeys
<1> HIDE DEF N
<1>12. /\ Df(U, q(0)) = Dist(k, n) /\ Idx(U, q(0)) = idx
       /\ \A i \in 1 .. m : /\ Df(U, q(i)) = Df(T, q(i - 1)) + D /\ Idx(U, q(i)) = Idx(T, q(i - 1))
                            /\ T.m_buckets[q(i - 1)] # Vacant
       /\ \A i \in m + 1 .. N - 1 : U.m_buckets[q(i)] = T.m_buckets[q(i)]
       /\ Df(T, q(m)) = 0
  BY <1>7, <1>8 DEF ShiftedView, N
<1>13. Ring(T, place)
  BY <1>2, RingIs DEF N
<1>14. /\ q(0) = place
       /\ \A i \in 0 .. N : q(i) \in 0 .. N - 1 /\ Df(T, q(i)) \in Nat
       /\ \A c \in 0 .. N - 1 : \E i \in 0 .. N - 1 : c = q(i)
       /\ \A i, j \in 0 .. N - 1 : q(i) = q(j) => i = j
       /\ \A i \in 1 .. N : Hop(N, q(i - 1), 1) = q(i)
  BY <1>13 DEF Ring, N
<1> HIDE DEF k, q, D
<1>15. U.m_buckets[q(0)] # Vacant
  <2>1. 0 < Dist(k, n)
    BY <1>1, <1>2, Distances
  <2> QED BY <1>2, <1>12, <2>1 DEF Df, Vacant
<1>16. ASSUME NEW i \in 1 .. m PROVE U.m_buckets[q(i)] # Vacant
  <2>1. i - 1 \in 0 .. N
    BY <1>1
  <2>2. Df(U, q(i)) = Df(T, q(i - 1)) + D
    BY <1>12
  <2>3. Df(T, q(i - 1)) \in Nat
    BY <1>14, <2>1
  <2>4. Df(U, q(i)) # 0
    BY <1>1, <2>2, <2>3
  <2> QED BY <2>4 DEF Df, Vacant
<1> DEFINE src(i) == IF i \in 1 .. m THEN i - 1 ELSE i
<1>17. ASSUME NEW i \in 1 .. N - 1
       PROVE  /\ src(i) \in 0 .. N - 1
              /\ U.m_buckets[q(i)] # Vacant <=> T.m_buckets[q(src(i))] # Vacant
              /\ Idx(U, q(i)) = Idx(T, q(src(i)))
  <2>1. CASE i \in 1 .. m
    <3>1. src(i) = i - 1 /\ i - 1 \in 0 .. N - 1
      BY <1>1, <2>1
    <3> QED BY <1>12, <1>16, <2>1, <3>1
  <2>2. CASE i \notin 1 .. m
    <3>1. src(i) = i /\ i \in m + 1 .. N - 1 /\ i \in 0 .. N - 1
      BY <1>1, <2>2
    <3> QED BY <1>12, <3>1 DEF Idx
  <2> QED BY <2>1, <2>2
<1>18. ASSUME NEW i \in 1 .. N - 1, NEW j \in 1 .. N - 1, src(i) = src(j) PROVE i = j
  BY <1>1, <1>5, <1>18
<1>19. ASSUME NEW b \in 0 .. N - 1 PROVE Stands(U, J, b)
  <2>1. PICK i \in 0 .. N - 1 : b = q(i)
    BY <1>14
  <2>2. CASE i = 0
    <3>1. Idx(U, b) \in J /\ get_key(U, Idx(U, b)) = k
      BY <1>11, <1>12, <2>1, <2>2 DEF k
    <3>2. b = Hop(N, Home(U, k), n) /\ Df(U, b) = Dist(k, n)
      BY <1>11, <1>12, <1>14, <2>1, <2>2 DEF place
    <3> QED BY <1>2, <1>10, <3>1, <3>2 DEF Stands, N
  <2>3. CASE i \in 1 .. m
    <3> DEFINE c == q(i - 1)
               y == Idx(T, c)
               z == get_key(T, y)
    <3>1. i - 1 \in 0 .. N /\ i \in 1 .. N
      BY <1>1, <2>3
    <3>2. /\ c \in 0 .. N - 1 /\ T.m_buckets[c] # Vacant /\ Df(U, b) = Df(T, c) + D /\ Idx(U, b) = y
          /\ Hop(N, c, 1) = b
      BY <1>12, <1>14, <2>1, <2>3, <3>1
    <3>3. y \in I /\ z \in Key
      BY <3>2, InUse DEF N
    <3>4. PICK l \in 0 .. N - 1 : c = Hop(N, Home(T, z), l) /\ Df(T, c) = Dist(z, l)
      BY <3>2, InUse DEF N
    <3>5. Home(T, z) \in 0 .. N - 1
      BY <3>3, HomeIs DEF N
    <3>6. l # N - 1
      <4> SUFFICES ASSUME l = N - 1 PROVE FALSE
        OBVIOUS
      <4>1. Dist(z, N - 1) <= Df(T, Hop(N, Home(T, z), N - 1))
        <5>1. l \in Nat
          BY <1>1
        <5>2. Dist(z, l) \in Nat
          BY <3>3, <5>1, Distances
        <5> QED BY <3>4, <5>2
      <4> HIDE DEF z
      <4> QED BY <3>3, <3>5, <4>1, NoFullRun DEF N
    <3>7. l \in Nat /\ l + 1 \in 0 .. N - 1
      BY <1>1, <3>6
    <3>8. Dist(z, l + 1) = Df(U, b)
      BY <3>2, <3>3, <3>4, <3>7, Distances DEF D
    <3>9. b = Hop(N, Home(T, z), l + 1)
      <4> HIDE DEF z, c
      <4> QED BY <1>1, <3>2, <3>4, <3>5, Hops
    <3> HIDE DEF c, y
    <3>10. get_key(U, Idx(U, b)) = z /\ Home(U, z) = Home(T, z) /\ Idx(U, b) \in J
      BY <1>11, <3>2, <3>3
    <3> HIDE DEF z
    <3> QED BY <1>10, <3>7, <3>8, <3>9, <3>10 DEF Stands, N
  <2>4. CASE i \in m + 1 .. N - 1
    <3>1. U.m_buckets[b] = T.m_buckets[b]
      BY <1>12, <2>1, <2>4
    <3>2. Stands(T, I, b)
      BY DEF Sound, N
    <3>3. Idx(U, b) = Idx(T, b) /\ Df(U, b) = Df(T, b)
      BY <3>1 DEF Idx, Df
    <3> QED BY <1>10, <1>11, <3>1, <3>2, <3>3 DEF Stands, N
  <2> QED
    <3>1. i = 0 \/ i \in 1 .. m \/ i \in m + 1 .. N - 1
      BY <1>1
    <3> QED BY <2>2, <2>3, <2>4, <3>1
<1>20. ASSUME NEW x \in J PROVE \E b \in 0 .. N - 1 : U.m_buckets[b] # Vacant /\ Idx(U, b) = x
  <2>1. CASE x = idx
    BY <1>2, <1>12, <1>14, <1>15, <2>1
  <2>2. CASE x \in I
    <3>1. PICK c \in 0 .. N - 1 : T.m_buckets[c] # Vacant /\ Idx(T, c) = x
      BY <2>2 DEF Sound, N
    <3>2. PICK i \in 0 .. N - 1 : c = q(i)
      BY <1>14
    <3>3. i # m
      BY <1>12, <3>1, <3>2, VacantIs DEF N
    <3>4. PICK j \in 1 .. N - 1 : src(j) = i
      <4>1. CASE i < m
        <5>1. i + 1 \in 1 .. N - 1 /\ src(i + 1) = i
          BY <1>1, <4>1
        <5> QED BY <5>1
      <4>2. CASE m < i
        <5>1. i \in 1 .. N - 1 /\ src(i) = i
          BY <1>1, <4>2
        <5> QED BY <5>1
      <4> QED BY <1>1, <3>3, <4>1, <4>2
    <3>5. U.m_buckets[q(j)] # Vacant /\ Idx(U, q(j)) = x
      BY <1>17, <3>1, <3>2, <3>4
    <3>6. j \in 0 .. N
      BY <1>1
    <3> QED BY <1>14, <3>5, <3>6
  <2> QED BY <2>1, <2>2
<1>21. ASSUME NEW b \in 0 .. N - 1, NEW c \in 0 .. N - 1,
              U.m_buckets[b] # Vacant, U.m_buckets[c] # Vacant, Idx(U, b) = Idx(U, c)
       PROVE  b = c
  <2>1. PICK i \in 0 .. N - 1 : b = q(i)
    BY <1>14
  <2>2. PICK j \in 0 .. N - 1 : c = q(j)
    BY <1>14
  <2>3. \A x \in 1 .. N - 1 : U.m_buckets[q(x)] # Vacant => Idx(U, q(x)) # idx
    <3> SUFFICES ASSUME NEW x \in 1 .. N - 1, U.m_buckets[q(x)] # Vacant PROVE Idx(U, q(x)) # idx
      OBVIOUS
    <3>1. src(x) \in 0 .. N - 1 /\ T.m_buckets[q(src(x))] # Vacant /\ Idx(U, q(x)) = Idx(T, q(src(x)))
      BY <1>17
    <3> HIDE DEF src
    <3>2. q(src(x)) \in 0 .. N - 1
      BY <1>1, <1>14, <3>1
    <3>3. Idx(T, q(src(x))) \in I
      BY <3>1, <3>2, InUse DEF N
    <3> QED BY <3>1, <3>3
  <2>4. CASE i = 0 \/ j = 0
    <3>1. i = 0 <=> j = 0
      <4>1. (i = 0 \/ i \in 1 .. N - 1) /\ (j = 0 \/ j \in 1 .. N - 1)
        BY <1>1
      <4> QED BY <1>12, <1>21, <2>1, <2>2, <2>3, <4>1
    <3> QED BY <2>1, <2>2, <2>4, <3>1
  <2>5. CASE i # 0 /\ j # 0
    <3>1. i \in 1 .. N - 1 /\ j \in 1 .. N - 1
      BY <1>1, <2>5
    <3>2. /\ src(i) \in 0 .. N - 1 /\ src(j) \in 0 .. N - 1
          /\ T.m_buckets[q(src(i))] # Vacant /\ T.m_buckets[q(src(j))] # Vacant
          /\ Idx(T, q(src(i))) = Idx(T, q(src(j)))
      BY <1>17, <1>21, <2>1, <2>2, <3>1
    <3> HIDE DEF src
    <3>3. q(src(i)) \in 0 .. N - 1 /\ q(src(j)) \in 0 .. N - 1
      BY <1>1, <1>14, <3>2
    <3>4. q(src(i)) = q(src(j))
      BY <3>2, <3>3 DEF Sound, N
    <3>5. src(i) = src(j)
      BY <1>14, <3>2, <3>4
    <3>6. i = j
      BY <1>18, <3>1, <3>5
    <3> QED BY <2>1, <2>2, <3>6
  <2> QED BY <2>4, <2>5
<1>22. \A x, y \in J : get_key(U, x) = get_key(U, y) => x = y
  <2>1. \A x, y \in I : get_key(T, x) = get_key(T, y) => x = y
    BY DEF Sound
  <2> QED BY <1>11, <2>1
<1>23. J \subseteq 0 .. size(U) - 1
  BY <1>1, <1>11
<1> HIDE DEF J
<1>24. Sound(U, J)
  BY <1>6, <1>10, <1>19, <1>20, <1>21, <1>22, <1>23 DEF Sound
<1> QED
  BY <1>9, <1>24 DEF U, J, k
----------------------------------------------------------------------------
(* Erasing.                                                                *)

\* U is T with the bucket p emptied and the ones behind it, up to the first
\* that is at home or vacant, moved down.
ShiftedDown(T, U, p, n) ==
  LET q(i) == Hop(bucket_count(T), p, i)
  IN /\ Rebucketed(T, U)
     /\ Df(T, q(n + 1)) < 2 * dist_inc
     /\ \A i \in 0 .. n - 1 :
          /\ 2 * dist_inc <= Df(T, q(i + 1))
          /\ U.m_buckets[q(i)] = [T.m_buckets[q(i + 1)] EXCEPT !.dist_and_fingerprint = @ - dist_inc]
     /\ U.m_buckets[q(n)] = Vacant
     /\ \A i \in n + 1 .. bucket_count(T) - 1 : U.m_buckets[q(i)] = T.m_buckets[q(i)]

\* That is what erase_and_shift_down() does.
LEMMA ShiftDownIs ==
  ASSUME HashOK, NEW T, Allocated(T), NEW I, Sound(T, I),
         NEW p \in 0 .. bucket_count(T) - 1
  PROVE  \E n \in 0 .. bucket_count(T) - 1 : ShiftedDown(T, erase_and_shift_down(T, p), p, n)
<1> DEFINE N == bucket_count(T)
           D == dist_inc
           q(i) == Hop(N, p, i)
           m == Steps(T, LAMBDA i : At(T, p, i + 1).dist_and_fingerprint < 2 * D)
           B == [b \in DOMAIN T.m_buckets |->
                  IF b = Forward(T, p, m) THEN Vacant
                  ELSE IF \E i \in 0 .. m - 1 : b = Forward(T, p, i)
                    THEN [At(T, b, 1) EXCEPT !.dist_and_fingerprint = @ - D]
                  ELSE T.m_buckets[b]]
           U == [T EXCEPT !.m_buckets = B]
<1>1. N \in Nat \ {0} /\ DOMAIN T.m_buckets = 0 .. N - 1 /\ D \in Nat \ {0} /\ SomeAtHome(T)
  BY Buckets, Widths DEF Sound
<1>2. \A i \in 0 .. N : /\ Forward(T, p, i) = q(i) /\ At(T, p, i) = T.m_buckets[q(i)]
  BY <1>1, ForwardIs
<1>a. Ring(T, p)
  BY RingIs
<1>3. /\ \A i \in 0 .. N : q(i) \in 0 .. N - 1 /\ Df(T, q(i)) \in Nat
      /\ \A c \in 0 .. N - 1 : \E i \in 0 .. N - 1 : c = q(i)
      /\ \A i, j \in 0 .. N - 1 : q(i) = q(j) => i = j
      /\ q(0) = p /\ q(N) = p
      /\ \A i \in 1 .. N : Hop(N, q(i - 1), 1) = q(i)
  BY <1>a DEF Ring
<1>4. erase_and_shift_down(T, p) = U
  BY Zenon DEF erase_and_shift_down
<1> HIDE DEF q
<1>5. \A i \in 0 .. N - 1 : At(T, p, i + 1).dist_and_fingerprint = Df(T, q(i + 1))
  <2> TAKE i \in 0 .. N - 1
  <2>1. i + 1 \in 0 .. N
    BY <1>1
  <2> QED BY <1>2, <2>1 DEF Df
<1>6. PICK x \in 0 .. N - 1 : Df(T, q(x + 1)) < 2 * D /\ \A i \in 0 .. x - 1 : ~(Df(T, q(i + 1)) < 2 * D)
  <2> DEFINE S == {i \in Nat : i <= N - 1 /\ Df(T, q(i + 1)) < 2 * D}
  <2>1. PICK c \in 0 .. N - 1 : Df(T, c) < 2 * D
    BY <1>1 DEF SomeAtHome
  <2>2. PICK i \in 0 .. N - 1 : c = q(i)
    BY <1>3
  <2> HIDE DEF N
  <2>3. PICK j \in 0 .. N - 1 : c = q(j + 1)
    <3>1. CASE i = 0
      <4>1. N - 1 \in 0 .. N - 1 /\ (N - 1) + 1 = N
        BY <1>1
      <4> QED BY <1>3, <2>2, <3>1, <4>1
    <3>2. CASE i # 0
      <4>1. i - 1 \in 0 .. N - 1 /\ (i - 1) + 1 = i
        BY <1>1, <3>2
      <4> QED BY <2>2, <4>1
    <3> QED BY <3>1, <3>2
  <2>4. j \in S
    BY <1>1, <2>1, <2>3
  <2>5. PICK x \in S : \A y \in S : x <= y
    BY <2>4, LeastNat
  <2>6. x \in 0 .. N - 1 /\ Df(T, q(x + 1)) < 2 * D
    BY <1>1, <2>5
  <2>7. \A y \in 0 .. x - 1 : ~(Df(T, q(y + 1)) < 2 * D)
    BY <1>1, <2>5
  <2> QED BY <2>6, <2>7
<1> HIDE DEF N, D
<1>7. /\ x \in 0 .. N + 1 /\ At(T, p, x + 1).dist_and_fingerprint < 2 * D
      /\ \A i \in 0 .. x - 1 : ~(At(T, p, i + 1).dist_and_fingerprint < 2 * D)
  <2>1. x \in 0 .. N + 1 /\ \A i \in 0 .. x - 1 : i \in 0 .. N - 1
    BY <1>1, <1>6
  <2> QED BY <1>5, <1>6, <2>1
<1>8. /\ m \in 0 .. N + 1 /\ At(T, p, m + 1).dist_and_fingerprint < 2 * D
      /\ \A i \in 0 .. m - 1 : ~(At(T, p, i + 1).dist_and_fingerprint < 2 * D)
  BY <1>7 DEF Steps, N
<1> HIDE DEF m
<1>9. m = x
  BY <1>1, <1>7, <1>8
<1>10. m \in 0 .. N - 1 /\ m \in 0 .. N
  BY <1>1, <1>9
<1>11. B[q(m)] = Vacant
  BY <1>1, <1>2, <1>3, <1>10
<1>12. ASSUME NEW i \in 0 .. m - 1
       PROVE  /\ 2 * D <= Df(T, q(i + 1))
              /\ B[q(i)] = [T.m_buckets[q(i + 1)] EXCEPT !.dist_and_fingerprint = @ - D]
  <2>1. i \in 0 .. N - 1 /\ i # m /\ i \in 0 .. N /\ i + 1 \in 1 .. N /\ (i + 1) - 1 = i /\ i + 1 \in 0 .. N
    BY <1>1, <1>10
  <2>2. q(i) \in DOMAIN T.m_buckets /\ q(i) # q(m) /\ q(i) = Forward(T, p, i) /\ q(m) = Forward(T, p, m)
    BY <1>1, <1>2, <1>3, <1>10, <2>1
  <2>3. Hop(N, q((i + 1) - 1), 1) = q(i + 1)
    BY <1>3, <2>1
  <2>4. At(T, q(i), 1) = T.m_buckets[q(i + 1)]
    <3>1. q(i) \in 0 .. N - 1 /\ 1 \in 0 .. N
      BY <1>1, <2>2
    <3> QED BY <2>1, <2>3, <3>1, ForwardIs DEF N
  <2>5. B[q(i)] = [At(T, q(i), 1) EXCEPT !.dist_and_fingerprint = @ - D]
    BY <2>2
  <2>6. ~(Df(T, q(i + 1)) < 2 * D) /\ Df(T, q(i + 1)) \in Nat
    BY <1>3, <1>6, <1>9, <2>1
  <2>7. 2 * D <= Df(T, q(i + 1))
    BY <1>1, <2>6
  <2>8. B[q(i)] = [T.m_buckets[q(i + 1)] EXCEPT !.dist_and_fingerprint = @ - D]
    <3> HIDE DEF B
    <3> QED BY <2>4, <2>5
  <2> QED BY <2>7, <2>8
<1>13. ASSUME NEW i \in m + 1 .. N - 1 PROVE B[q(i)] = T.m_buckets[q(i)]
  <2>1. i \in 0 .. N - 1 /\ i # m /\ i \in 0 .. N
    BY <1>1, <1>10
  <2>2. q(i) \in DOMAIN T.m_buckets /\ q(i) # Forward(T, p, m)
    <3>1. q(i) # q(m) /\ q(i) \in 0 .. N - 1
      BY <1>3, <1>10, <2>1
    <3> QED BY <1>1, <1>2, <1>10, <3>1
  <2>3. ~ \E j \in 0 .. m - 1 : q(i) = Forward(T, p, j)
    <3> SUFFICES ASSUME NEW j \in 0 .. m - 1, q(i) = Forward(T, p, j) PROVE FALSE
      OBVIOUS
    <3>1. j \in 0 .. N - 1 /\ j \in 0 .. N /\ j # i
      BY <1>1, <1>10
    <3>2. q(i) = q(j)
      BY <1>2, <3>1
    <3>3. \A y, z \in 0 .. N - 1 : q(y) = q(z) => y = z
      BY <1>3
    <3> QED BY <2>1, <3>1, <3>2, <3>3
  <2> QED BY <2>2, <2>3
<1>14. B \in [0 .. N - 1 -> Bucket]
  <2>1. ASSUME NEW b \in 0 .. N - 1 PROVE B[b] \in Bucket
    <3>1. PICK i \in 0 .. N - 1 : b = q(i)
      BY <1>3
    <3>2. \A j \in 0 .. N : T.m_buckets[q(j)] \in Bucket
      <4>1. \A c \in 0 .. N - 1 : T.m_buckets[c] \in Bucket
        BY Buckets DEF N
      <4> QED BY <1>3, <4>1
    <3>3. CASE i = m
      BY <1>11, <3>1, <3>3 DEF Vacant, Bucket
    <3>4. CASE i \in 0 .. m - 1
      <4>1. i + 1 \in 0 .. N
        BY <1>1
      <4>2. T.m_buckets[q(i + 1)] \in Bucket
        BY <3>2, <4>1
      <4>3. 2 * D <= T.m_buckets[q(i + 1)].dist_and_fingerprint
        BY <1>12, <3>4 DEF Df
      <4>4. T.m_buckets[q(i + 1)].dist_and_fingerprint - D \in Nat
        BY <1>1, <4>2, <4>3 DEF Bucket
      <4>5. [T.m_buckets[q(i + 1)] EXCEPT !.dist_and_fingerprint = @ - D] \in Bucket
        BY <4>2, <4>4 DEF Bucket
      <4> QED BY <1>12, <3>1, <3>4, <4>5
    <3>5. CASE i \in m + 1 .. N - 1
      <4>1. i \in 0 .. N
        BY <1>1
      <4> QED BY <1>13, <3>1, <3>2, <3>5, <4>1
    <3> QED
      <4>1. i = m \/ i \in 0 .. m - 1 \/ i \in m + 1 .. N - 1
        BY <1>1, <1>10
      <4> QED BY <3>3, <3>4, <3>5, <4>1
  <2>2. B = [b \in 0 .. N - 1 |-> B[b]]
    BY <1>1
  <2> HIDE DEF B
  <2> QED BY <2>1, <2>2
<1> HIDE DEF B
<1>15. Rebucketed(T, U) /\ U.m_buckets = B
  BY <1>14, Rebucket DEF N
<1> HIDE DEF U
<1>16. ShiftedDown(T, U, p, m)
  <2>1. Df(T, q(m + 1)) < 2 * D
    BY <1>6, <1>9
  <2> QED BY <1>11, <1>12, <1>13, <1>15, <2>1 DEF ShiftedDown, N, q, D
<1> QED
  BY <1>4, <1>10, <1>16 DEF N

\* The buckets after erase_and_shift_down(): a vacant one, and each of the
\* others with the value of the bucket behind it, or that it had.
DownView(T, U, p, n) ==
  LET q(i) == Hop(bucket_count(T), p, i)
      d(i) == Df(T, q(i))
      e(i) == Df(U, q(i))
  IN /\ \A i \in 0 .. bucket_count(T) : d(i) \in Nat /\ e(i) \in Nat
     /\ d(n + 1) < 2 * dist_inc
     /\ \A i \in 0 .. n - 1 : /\ 2 * dist_inc <= d(i + 1) /\ e(i) = d(i + 1) - dist_inc
                              /\ Idx(U, q(i)) = Idx(T, q(i + 1))
     /\ e(n) = 0 /\ U.m_buckets[q(n)] = Vacant
     /\ \A i \in n + 1 .. bucket_count(T) - 1 :
          e(i) = d(i) /\ U.m_buckets[q(i)] = T.m_buckets[q(i)]

\* ShiftedDown() in these terms.
LEMMA DownBuckets ==
  ASSUME NEW T, Allocated(T), NEW U, NEW p \in 0 .. bucket_count(T) - 1,
         NEW n \in 0 .. bucket_count(T) - 1, ShiftedDown(T, U, p, n)
  PROVE  DownView(T, U, p, n)
<1> DEFINE N == bucket_count(T)
           q(i) == Hop(N, p, i)
           d(i) == Df(T, q(i))
           e(i) == Df(U, q(i))
<1>1. N \in Nat \ {0} /\ Rebucketed(T, U)
  BY Buckets DEF ShiftedDown
<1>2. Allocated(U) /\ bucket_count(U) = N
  BY <1>1 DEF Rebucketed
<1>3. Ring(T, p) /\ Ring(U, p)
  BY <1>2, RingIs
<1>4. \A i \in 0 .. N : q(i) \in 0 .. N - 1 /\ d(i) \in Nat
  BY <1>3 DEF Ring
<1>5. \A i \in 0 .. N : e(i) \in Nat
  BY <1>2, <1>3 DEF Ring
<1>6. /\ d(n + 1) < 2 * dist_inc
      /\ \A i \in 0 .. n - 1 :
           /\ 2 * dist_inc <= d(i + 1)
           /\ U.m_buckets[q(i)] = [T.m_buckets[q(i + 1)] EXCEPT !.dist_and_fingerprint = @ - dist_inc]
      /\ U.m_buckets[q(n)] = Vacant
      /\ \A i \in n + 1 .. N - 1 : U.m_buckets[q(i)] = T.m_buckets[q(i)]
  BY DEF ShiftedDown
<1>7. \A b \in 0 .. N - 1 : T.m_buckets[b] \in Bucket
  BY Buckets
<1> HIDE DEF N, q
<1>8. e(n) = 0
  BY <1>6 DEF Df, Vacant
<1>9. ASSUME NEW i \in 0 .. n - 1
      PROVE  2 * dist_inc <= d(i + 1) /\ e(i) = d(i + 1) - dist_inc /\ Idx(U, q(i)) = Idx(T, q(i + 1))
  <2>1. i + 1 \in 0 .. N
    BY <1>1 DEF N
  <2>2. T.m_buckets[q(i + 1)] \in Bucket
    BY <1>4, <1>7, <2>1
  <2>3. U.m_buckets[q(i)] = [T.m_buckets[q(i + 1)] EXCEPT !.dist_and_fingerprint = @ - dist_inc]
    BY <1>6
  <2>4. e(i) = d(i + 1) - dist_inc /\ Idx(U, q(i)) = Idx(T, q(i + 1))
    BY <2>2, <2>3 DEF Bucket, Df, Idx
  <2> QED BY <1>6, <2>4
<1>10. ASSUME NEW i \in n + 1 .. N - 1 PROVE e(i) = d(i) /\ U.m_buckets[q(i)] = T.m_buckets[q(i)]
  BY <1>6 DEF Df
<1> HIDE DEF d, e
<1>11. /\ \A i \in 0 .. N : d(i) \in Nat /\ e(i) \in Nat
       /\ d(n + 1) < 2 * dist_inc
       /\ \A i \in 0 .. n - 1 : 2 * dist_inc <= d(i + 1) /\ e(i) = d(i + 1) - dist_inc
                                /\ Idx(U, q(i)) = Idx(T, q(i + 1))
       /\ e(n) = 0 /\ U.m_buckets[q(n)] = Vacant
       /\ \A i \in n + 1 .. N - 1 : e(i) = d(i) /\ U.m_buckets[q(i)] = T.m_buckets[q(i)]
  BY <1>4, <1>5, <1>6, <1>8, <1>9, <1>10 DEF d
<1> QED
  BY <1>11, Zenon DEF DownView, d, e, q, N

\* Moving the buckets down leaves their order.
LEMMA DownOrder ==
  ASSUME NEW T, Allocated(T), Ordered(T), NEW U, NEW p \in 0 .. bucket_count(T) - 1,
         NEW n \in 0 .. bucket_count(T) - 1, ShiftedDown(T, U, p, n)
  PROVE  Ordered(U) /\ SomeAtHome(U) /\ SomeVacant(U)
<1> DEFINE N == bucket_count(T)
           q(i) == Hop(N, p, i)
           d(i) == Df(T, q(i))
           e(i) == Df(U, q(i))
           D == dist_inc
<1>1. N \in Nat \ {0} /\ D \in Nat \ {0} /\ Allocated(U) /\ bucket_count(U) = N /\ n \in 0 .. N - 1
      /\ p \in 0 .. N - 1
  BY Buckets, Widths DEF ShiftedDown, Rebucketed
<1>2. DownView(T, U, p, n)
  BY DownBuckets
<1>3. /\ \A i \in 0 .. N : d(i) \in Nat /\ e(i) \in Nat
      /\ d(n + 1) < 2 * D
      /\ \A i \in 0 .. n - 1 : 2 * D <= d(i + 1) /\ e(i) = d(i + 1) - D
      /\ e(n) = 0 /\ U.m_buckets[q(n)] = Vacant
      /\ \A i \in n + 1 .. N - 1 : e(i) = d(i)
  BY <1>2 DEF DownView
<1>4. Ring(T, p)
  BY RingIs
<1>5. q(0) = p /\ q(N) = p /\ \A i \in 0 .. N : q(i) \in 0 .. N - 1
  BY <1>4 DEF Ring
<1>6. \A i \in 1 .. N : d(i) < 2 * D \/ d(i) <= d(i - 1) + D
  <2>1. Downhill(T, p)
    BY OrderedFrom
  <2> QED BY <2>1 DEF Downhill
<1>7. d(N) = d(0) /\ e(N) = e(0)
  BY <1>5
<1> HIDE DEF N, d, e, D, q
<1>8. ASSUME NEW i \in 1 .. N PROVE e(i) < 2 * D \/ e(i) <= e(i - 1) + D
  <2>1. CASE i = n
    BY <1>1, <1>3, <2>1
  <2>2. CASE i < n
    <3>1. i \in 0 .. n - 1 /\ i - 1 \in 0 .. n - 1 /\ (i - 1) + 1 = i /\ i + 1 \in 1 .. N /\ (i + 1) - 1 = i
          /\ i \in 0 .. N /\ i + 1 \in 0 .. N
      BY <1>1, <2>2
    <3>2. e(i) = d(i + 1) - D /\ 2 * D <= d(i + 1)
      BY <1>3, <3>1
    <3>3. e(i - 1) = d((i - 1) + 1) - D
      BY <1>3, <3>1
    <3>4. d(i + 1) < 2 * D \/ d(i + 1) <= d((i + 1) - 1) + D
      BY <1>6, <3>1
    <3>5. d(i) \in Nat /\ d(i + 1) \in Nat
      BY <1>3, <3>1
    <3>6. e(i - 1) = d(i) - D /\ d(i + 1) <= d(i) + D
      BY <1>1, <3>1, <3>2, <3>3, <3>4, <3>5
    <3> QED BY <1>1, <3>2, <3>5, <3>6
  <2>3. CASE i = n + 1 /\ i # N
    <3>1. i \in n + 1 .. N - 1
      BY <1>1, <2>3
    <3> QED BY <1>3, <2>3, <3>1
  <2>4. CASE n + 1 < i /\ i # N
    <3>1. i \in n + 1 .. N - 1 /\ i - 1 \in n + 1 .. N - 1
      BY <1>1, <2>4
    <3>2. e(i) = d(i) /\ e(i - 1) = d(i - 1)
      BY <1>3, <3>1
    <3> QED BY <1>6, <3>2
  <2>5. CASE i = N
    <3>1. CASE n = 0
      BY <1>1, <1>3, <1>7, <2>5, <3>1
    <3>2. CASE n # 0
      <4>1. 0 \in 0 .. n - 1 /\ 0 + 1 = 1 /\ 1 \in 1 .. N /\ 1 - 1 = 0 /\ 0 \in 0 .. N /\ 1 \in 0 .. N
            /\ N - 1 \in 0 .. N /\ N \in 1 .. N
        BY <1>1, <3>2
      <4>2. e(0) = d(0 + 1) - D /\ 2 * D <= d(0 + 1)
        BY <1>3, <4>1
      <4>3. d(1) < 2 * D \/ d(1) <= d(1 - 1) + D
        BY <1>6, <4>1
      <4>4. d(0) \in Nat /\ d(1) \in Nat /\ d(N - 1) \in Nat
        BY <1>3, <4>1
      <4>5. e(0) = d(1) - D /\ d(1) <= d(0) + D
        BY <1>1, <4>1, <4>2, <4>3, <4>4
      <4>6. d(N) < 2 * D \/ d(N) <= d(N - 1) + D
        BY <1>6, <4>1
      <4>7. CASE n = N - 1
        <5>1. d(N) < 2 * D
          BY <1>1, <1>3, <4>7
        <5> QED BY <1>1, <1>7, <2>5, <4>4, <4>5, <5>1
      <4>8. CASE n # N - 1
        <5>1. N - 1 \in n + 1 .. N - 1
          BY <1>1, <4>8
        <5>2. e(N - 1) = d(N - 1)
          BY <1>3, <5>1
        <5>3. e(N) < 2 * D \/ e(N) <= d(N - 1) + D
          BY <1>1, <1>7, <4>4, <4>5, <4>6
        <5> QED BY <2>5, <5>2, <5>3
      <4> QED BY <4>7, <4>8
    <3> QED BY <3>1, <3>2
  <2> QED
    BY <1>1, <2>1, <2>2, <2>3, <2>4, <2>5
<1>9. Downhill(U, p)
  BY <1>1, <1>8 DEF Downhill, e, q, D
<1>10. Ordered(U)
  <2>1. p \in 0 .. bucket_count(U) - 1
    BY <1>1
  <2> QED BY <1>1, <1>9, <2>1, OrderedFrom
<1>11. q(n) \in 0 .. N - 1 /\ e(n) < 2 * D
  BY <1>1, <1>3, <1>5
<1> QED
  BY <1>1, <1>3, <1>10, <1>11 DEF SomeAtHome, SomeVacant, e, D

\* The value of the erased bucket has none any more; all others keep theirs,
\* some one bucket nearer.
LEMMA Erased ==
  ASSUME HashOK, NEW T, Allocated(T), NEW I, Sound(T, I),
         NEW p \in 0 .. bucket_count(T) - 1, T.m_buckets[p] # Vacant
  PROVE  LET U == erase_and_shift_down(T, p)
         IN Rebucketed(T, U) /\ Sound(U, I \ {Idx(T, p)}) /\ SomeVacant(U)
<1> DEFINE N == bucket_count(T)
           U == erase_and_shift_down(T, p)
           idx == Idx(T, p)
           J == I \ {idx}
           q(i) == Hop(N, p, i)
           D == dist_inc
<1>1. /\ N \in Nat \ {0} /\ D \in Nat \ {0} /\ T \in Table /\ I \subseteq 0 .. size(T) - 1
      /\ Ordered(T)
  BY Buckets, Widths DEF Allocated, Sound
<1>2. PICK n \in 0 .. N - 1 : ShiftedDown(T, U, p, n)
  BY ShiftDownIs
<1> HIDE DEF U
<1>3. Ordered(U) /\ SomeAtHome(U) /\ SomeVacant(U)
  BY <1>1, <1>2, DownOrder
<1>4. DownView(T, U, p, n)
  BY <1>2, DownBuckets
<1>5. Rebucketed(T, U)
  BY <1>2 DEF ShiftedDown
<1>6. /\ Allocated(U) /\ bucket_count(U) = N
      /\ U.m_values = T.m_values /\ U.m_shifts = T.m_shifts
  BY <1>5 DEF Rebucketed
<1>7. /\ size(U) = size(T)
      /\ \A j : get_key(U, j) = get_key(T, j)
      /\ \A x : Home(U, x) = Home(T, x)
  BY <1>6, SameKeys
<1> HIDE DEF N
<1>8. /\ \A i \in 0 .. n - 1 : /\ 2 * D <= Df(T, q(i + 1)) /\ Df(U, q(i)) = Df(T, q(i + 1)) - D
                               /\ Idx(U, q(i)) = Idx(T, q(i + 1))
      /\ U.m_buckets[q(n)] = Vacant
      /\ \A i \in n + 1 .. N - 1 : U.m_buckets[q(i)] = T.m_buckets[q(i)]
  BY <1>4 DEF DownView, N
<1>9. Ring(T, p)
  BY RingIs
<1>10. /\ q(0) = p
       /\ \A i \in 0 .. N : q(i) \in 0 .. N - 1 /\ Df(T, q(i)) \in Nat
       /\ \A c \in 0 .. N - 1 : \E i \in 0 .. N - 1 : c = q(i)
       /\ \A i, j \in 0 .. N - 1 : q(i) = q(j) => i = j
       /\ \A i \in 1 .. N : Hop(N, q(i), N - 1) = q(i - 1)
  BY <1>9 DEF Ring, N
<1> HIDE DEF q, D
<1>11. ASSUME NEW i \in 0 .. n - 1
       PROVE  U.m_buckets[q(i)] # Vacant /\ T.m_buckets[q(i + 1)] # Vacant
  <2>1. i + 1 \in 0 .. N
    BY <1>1
  <2>2. Df(U, q(i)) = Df(T, q(i + 1)) - D /\ 2 * D <= Df(T, q(i + 1))
    BY <1>8
  <2>3. Df(T, q(i + 1)) \in Nat
    BY <1>10, <2>1
  <2>4. Df(U, q(i)) # 0 /\ Df(T, q(i + 1)) # 0
    BY <1>1, <2>2, <2>3
  <2> QED BY <2>4 DEF Df, Vacant
<1> DEFINE src(i) == IF i < n THEN i + 1 ELSE i
<1>12. ASSUME NEW i \in 0 .. N - 1, i # n
       PROVE  /\ src(i) \in 1 .. N - 1
              /\ U.m_buckets[q(i)] # Vacant <=> T.m_buckets[q(src(i))] # Vacant
              /\ Idx(U, q(i)) = Idx(T, q(src(i)))
  <2>1. CASE i < n
    <3>1. src(i) = i + 1 /\ i + 1 \in 1 .. N - 1 /\ i \in 0 .. n - 1
      BY <1>1, <2>1
    <3> QED BY <1>8, <1>11, <3>1
  <2>2. CASE ~(i < n)
    <3>1. src(i) = i /\ i \in n + 1 .. N - 1 /\ i \in 1 .. N - 1
      BY <1>1, <1>12, <2>2
    <3> QED BY <1>8, <3>1 DEF Idx
  <2> QED BY <2>1, <2>2
<1>13. ASSUME NEW i \in 0 .. N - 1, NEW j \in 0 .. N - 1, i # n, j # n, src(i) = src(j) PROVE i = j
  BY <1>1, <1>2, <1>13
<1>14. ASSUME NEW i \in 1 .. N - 1, T.m_buckets[q(i)] # Vacant PROVE Idx(T, q(i)) \in J
  <2>1. i \in 0 .. N - 1 /\ i # 0 /\ i \in 0 .. N /\ 0 \in 0 .. N - 1
    BY <1>1
  <2>2. q(i) \in 0 .. N - 1 /\ q(i) # p /\ p \in 0 .. N - 1
    BY <1>10, <2>1 DEF N
  <2>3. Idx(T, q(i)) \in I
    BY <1>14, <2>2, InUse DEF N
  <2>4. Idx(T, q(i)) # idx
    BY <1>14, <2>2 DEF Sound, N
  <2> QED BY <2>3, <2>4
<1>15. ASSUME NEW b \in 0 .. N - 1 PROVE Stands(U, J, b)
  <2>1. PICK i \in 0 .. N - 1 : b = q(i)
    BY <1>10
  <2>2. CASE i = n
    BY <1>8, <2>1, <2>2 DEF Stands
  <2>3. CASE i \in 0 .. n - 1
    <3> DEFINE c == q(i + 1)
               y == Idx(T, c)
               z == get_key(T, y)
    <3>1. i + 1 \in 0 .. N /\ i + 1 \in 1 .. N /\ (i + 1) - 1 = i /\ i + 1 \in 1 .. N - 1
      BY <1>1, <2>3
    <3>2. /\ c \in 0 .. N - 1 /\ T.m_buckets[c] # Vacant /\ Df(U, b) = Df(T, c) - D /\ Idx(U, b) = y
          /\ 2 * D <= Df(T, c)
      BY <1>8, <1>10, <1>11, <2>1, <2>3, <3>1
    <3>3. Hop(N, c, N - 1) = b
      BY <1>10, <2>1, <3>1
    <3>4. y \in J /\ z \in Key
      BY <1>14, <3>1, <3>2, InUse DEF N
    <3>5. PICK l \in 0 .. N - 1 : c = Hop(N, Home(T, z), l) /\ Df(T, c) = Dist(z, l)
      BY <3>2, InUse DEF N
    <3>6. Home(T, z) \in 0 .. N - 1
      BY <3>4, HomeIs DEF N
    <3>7. l # 0
      <4> SUFFICES ASSUME l = 0 PROVE FALSE
        OBVIOUS
      <4>1. Dist(z, 0) < 2 * D /\ Dist(z, 0) \in Nat
        BY <3>4, Distances DEF D
      <4> QED BY <1>1, <3>2, <3>5, <4>1
    <3>8. l - 1 \in Nat /\ l - 1 \in 0 .. N - 1 /\ (l - 1) + 1 = l
      BY <1>1, <3>7
    <3>9. Dist(z, l - 1) = Df(U, b)
      <4>1. Dist(z, (l - 1) + 1) = Dist(z, l - 1) + D /\ Dist(z, l - 1) \in Nat
        BY <3>4, <3>8, Distances DEF D
      <4> QED BY <1>1, <3>2, <3>5, <3>8, <4>1
    <3>10. b = Hop(N, Home(T, z), l - 1)
      <4>1. Hop(N, Hop(N, Home(T, z), (l - 1) + 1), N - 1) = Hop(N, Home(T, z), l - 1)
        <5> HIDE DEF z
        <5> QED BY <1>1, <3>6, <3>8, Hops
      <4> QED BY <3>3, <3>5, <3>8, <4>1
    <3> HIDE DEF c, y
    <3>11. get_key(U, Idx(U, b)) = z /\ Home(U, z) = Home(T, z) /\ Idx(U, b) \in J
      BY <1>7, <3>2, <3>4
    <3> HIDE DEF z
    <3> QED BY <1>6, <3>8, <3>9, <3>10, <3>11 DEF Stands, N
  <2>4. CASE i \in n + 1 .. N - 1
    <3>1. U.m_buckets[b] = T.m_buckets[b] /\ i \in 1 .. N - 1
      BY <1>1, <1>8, <2>1, <2>4
    <3>2. Stands(T, I, b)
      BY DEF Sound, N
    <3>3. Idx(U, b) = Idx(T, b) /\ Df(U, b) = Df(T, b)
      BY <3>1 DEF Idx, Df
    <3>4. T.m_buckets[b] = Vacant \/ Idx(T, b) \in J
      BY <1>14, <2>1, <3>1
    <3> QED BY <1>6, <1>7, <3>1, <3>2, <3>3, <3>4 DEF Stands, N
  <2> QED
    <3>1. i = n \/ i \in 0 .. n - 1 \/ i \in n + 1 .. N - 1
      BY <1>1
    <3> QED BY <2>2, <2>3, <2>4, <3>1
<1>16. ASSUME NEW x \in J PROVE \E b \in 0 .. N - 1 : U.m_buckets[b] # Vacant /\ Idx(U, b) = x
  <2>1. PICK c \in 0 .. N - 1 : T.m_buckets[c] # Vacant /\ Idx(T, c) = x
    BY DEF Sound, N
  <2>2. PICK i \in 0 .. N - 1 : c = q(i)
    BY <1>10
  <2>3. i # 0
    BY <1>10, <2>1, <2>2
  <2>4. PICK j \in 0 .. N - 1 : j # n /\ src(j) = i
    <3>1. CASE i <= n
      <4>1. i - 1 \in 0 .. N - 1 /\ i - 1 # n /\ src(i - 1) = i
        BY <1>1, <2>3, <3>1
      <4> QED BY <4>1
    <3>2. CASE n < i
      <4>1. i \in 0 .. N - 1 /\ i # n /\ src(i) = i
        BY <1>1, <3>2
      <4> QED BY <4>1
    <3> QED BY <1>1, <3>1, <3>2
  <2>5. U.m_buckets[q(j)] # Vacant /\ Idx(U, q(j)) = x
    BY <1>12, <2>1, <2>2, <2>4
  <2>6. j \in 0 .. N
    BY <1>1
  <2> QED BY <1>10, <2>5, <2>6
<1>17. ASSUME NEW b \in 0 .. N - 1, NEW c \in 0 .. N - 1,
              U.m_buckets[b] # Vacant, U.m_buckets[c] # Vacant, Idx(U, b) = Idx(U, c)
       PROVE  b = c
  <2>1. PICK i \in 0 .. N - 1 : b = q(i)
    BY <1>10
  <2>2. PICK j \in 0 .. N - 1 : c = q(j)
    BY <1>10
  <2>3. i # n /\ j # n
    BY <1>8, <1>17, <2>1, <2>2
  <2>4. /\ src(i) \in 1 .. N - 1 /\ src(j) \in 1 .. N - 1
        /\ T.m_buckets[q(src(i))] # Vacant /\ T.m_buckets[q(src(j))] # Vacant
        /\ Idx(T, q(src(i))) = Idx(T, q(src(j)))
    BY <1>12, <1>17, <2>1, <2>2, <2>3
  <2> HIDE DEF src
  <2>5. src(i) \in 0 .. N - 1 /\ src(j) \in 0 .. N - 1 /\ src(i) \in 0 .. N /\ src(j) \in 0 .. N
    BY <1>1, <2>4
  <2>6. q(src(i)) \in 0 .. N - 1 /\ q(src(j)) \in 0 .. N - 1
    BY <1>10, <2>5
  <2>7. q(src(i)) = q(src(j))
    BY <2>4, <2>6 DEF Sound, N
  <2>8. src(i) = src(j)
    BY <1>10, <2>5, <2>7
  <2>9. i = j
    BY <1>13, <2>3, <2>8
  <2> QED BY <2>1, <2>2, <2>9
<1>18. \A x, y \in J : get_key(U, x) = get_key(U, y) => x = y
  <2>1. \A x, y \in I : get_key(T, x) = get_key(T, y) => x = y
    BY DEF Sound
  <2> QED BY <1>7, <2>1
<1>19. J \subseteq 0 .. size(U) - 1
  BY <1>1, <1>7
<1> HIDE DEF J
<1>20. Sound(U, J)
  BY <1>3, <1>6, <1>15, <1>16, <1>17, <1>18, <1>19 DEF Sound
<1> QED
  BY <1>3, <1>5, <1>20 DEF U, J, idx

\* A table with other values has the same buckets for the ones whose keys are
\* the same.
LEMMA Transfer ==
  ASSUME NEW T, Allocated(T), NEW I, Sound(T, I), NEW U \in Table,
         U.m_buckets = T.m_buckets, U.m_shifts = T.m_shifts,
         I \subseteq 0 .. size(U) - 1, \A i \in I : get_key(U, i) = get_key(T, i)
  PROVE  /\ Allocated(U) /\ bucket_count(U) = bucket_count(T) /\ Sound(U, I)
         /\ SomeVacant(T) => SomeVacant(U)
<1> DEFINE N == bucket_count(T)
<1>1. bucket_count(U) = N
  BY DEF bucket_count
<1> HIDE DEF N
<1>2. Allocated(U)
  BY <1>1 DEF Allocated, N
<1>3. \A b : Idx(U, b) = Idx(T, b) /\ Df(U, b) = Df(T, b)
  BY DEF Idx, Df
<1>4. \A k : Home(U, k) = Home(T, k)
  BY DEF Home, bucket_idx_from_hash
<1>5. ASSUME NEW b \in 0 .. N - 1 PROVE Stands(U, I, b)
  <2>1. Stands(T, I, b)
    BY DEF Sound, N
  <2>2. CASE T.m_buckets[b] = Vacant
    BY <2>2 DEF Stands
  <2>3. CASE T.m_buckets[b] # Vacant
    <3> DEFINE k == get_key(T, Idx(T, b))
    <3>1. /\ Idx(T, b) \in I
          /\ \E n \in 0 .. N - 1 : b = Hop(N, Home(T, k), n) /\ Df(T, b) = Dist(k, n)
      BY <2>1, <2>3 DEF Stands, N
    <3>2. Idx(U, b) = Idx(T, b) /\ get_key(U, Idx(U, b)) = k /\ Home(U, k) = Home(T, k) /\ Df(U, b) = Df(T, b)
      BY <1>3, <1>4, <3>1
    <3> HIDE DEF k
    <3> QED BY <1>1, <3>1, <3>2 DEF Stands
  <2> QED BY <2>2, <2>3
<1>6. Ordered(U) /\ SomeAtHome(U)
  BY <1>1, <1>3 DEF Sound, Ordered, SomeAtHome, N
<1>7. /\ \A idx \in I : \E b \in 0 .. N - 1 : U.m_buckets[b] # Vacant /\ Idx(U, b) = idx
      /\ \A b, c \in 0 .. N - 1 :
           U.m_buckets[b] # Vacant /\ U.m_buckets[c] # Vacant /\ Idx(U, b) = Idx(U, c) => b = c
  BY <1>3 DEF Sound, N
<1>8. \A i, j \in I : get_key(U, i) = get_key(U, j) => i = j
  BY DEF Sound
<1>9. Sound(U, I)
  BY <1>1, <1>5, <1>6, <1>7, <1>8 DEF Sound
<1>10. SomeVacant(T) => SomeVacant(U)
  BY <1>1 DEF SomeVacant, N
<1> QED
  BY <1>1, <1>2, <1>9, <1>10 DEF N

\* Buckets of which one has another index.
Pointing(B, b, idx) == [B EXCEPT ![b].value_idx = idx]

\* The value at from moves to the hole at to: its bucket is told.
LEMMA Renumbered ==
  ASSUME HashOK, NEW T, Allocated(T), NEW I, Sound(T, I), NEW from \in I, NEW to \in Nat, to \notin I,
         NEW b, Holds(T, b, from), NEW U \in Table,
         U.m_buckets = Pointing(T.m_buckets, b, to), U.m_shifts = T.m_shifts,
         (I \ {from}) \cup {to} \subseteq 0 .. size(U) - 1,
         \A i \in I \ {from} : get_key(U, i) = get_key(T, i),
         get_key(U, to) = get_key(T, from)
  PROVE  /\ Allocated(U) /\ bucket_count(U) = bucket_count(T) /\ Sound(U, (I \ {from}) \cup {to})
         /\ SomeVacant(T) => SomeVacant(U)
<1> DEFINE N == bucket_count(T)
           J == (I \ {from}) \cup {to}
<1>1. N \in Nat \ {0} /\ DOMAIN T.m_buckets = 0 .. N - 1 /\ \A c \in 0 .. N - 1 : T.m_buckets[c] \in Bucket
  BY Buckets
<1>2. b \in 0 .. N - 1 /\ T.m_buckets[b] # Vacant /\ Idx(T, b) = from
  BY DEF Holds
<1> HIDE DEF N
<1>3. U.m_buckets \in [0 .. N - 1 -> Bucket] /\ DOMAIN U.m_buckets = DOMAIN T.m_buckets
  <2>1. [T.m_buckets[b] EXCEPT !.value_idx = to] \in Bucket
    BY <1>1, <1>2 DEF Bucket
  <2>2. U.m_buckets = [c \in 0 .. N - 1 |-> IF c = b THEN [T.m_buckets[b] EXCEPT !.value_idx = to] ELSE T.m_buckets[c]]
    BY <1>1, <1>2 DEF Pointing
  <2> QED BY <1>1, <2>1, <2>2
<1>4. bucket_count(U) = N
  BY <1>3 DEF bucket_count, N
<1>5. Allocated(U)
  BY <1>3, <1>4 DEF Allocated, N
<1>6. U.m_buckets[b] = [T.m_buckets[b] EXCEPT !.value_idx = to]
  BY <1>1, <1>2 DEF Pointing
<1>7. \A c \in 0 .. N - 1 : c # b => U.m_buckets[c] = T.m_buckets[c]
  BY <1>1 DEF Pointing
<1>8. Df(U, b) = Df(T, b) /\ Idx(U, b) = to
  BY <1>1, <1>2, <1>6 DEF Df, Idx, Bucket
<1>9. Df(T, b) # 0 /\ U.m_buckets[b] # Vacant
  <2>1. Df(T, b) # 0
    BY <1>2, VacantIs DEF N
  <2> QED BY <1>8, <2>1 DEF Df, Vacant
<1>10. ASSUME NEW c \in 0 .. N - 1
       PROVE  /\ Df(U, c) = Df(T, c)
              /\ U.m_buckets[c] = Vacant <=> T.m_buckets[c] = Vacant
              /\ c # b => Idx(U, c) = Idx(T, c)
  BY <1>2, <1>7, <1>8, <1>9 DEF Df, Idx
<1>11. ASSUME NEW c \in 0 .. N - 1, T.m_buckets[c] # Vacant
       PROVE  Idx(T, c) \in I /\ (c # b => Idx(T, c) # from /\ Idx(T, c) # to)
  <2>1. Idx(T, c) \in I
    BY <1>11, InUse DEF N
  <2>2. c # b => Idx(T, c) # from
    BY <1>2, <1>11 DEF Sound, N
  <2> QED BY <2>1, <2>2
<1>12. \A k : Home(U, k) = Home(T, k)
  BY DEF Home, bucket_idx_from_hash
<1>13. ASSUME NEW c \in 0 .. N - 1 PROVE Stands(U, J, c)
  <2>1. CASE T.m_buckets[c] = Vacant
    BY <1>10, <2>1 DEF Stands
  <2>2. CASE T.m_buckets[c] # Vacant
    <3>1. Idx(U, c) \in J /\ get_key(U, Idx(U, c)) = get_key(T, Idx(T, c))
      BY <1>2, <1>8, <1>10, <1>11, <2>2
    <3>2. \E n \in 0 .. N - 1 :
            /\ c = Hop(N, Home(T, get_key(T, Idx(T, c))), n)
            /\ Df(T, c) = Dist(get_key(T, Idx(T, c)), n)
      BY <2>2, InUse DEF N
    <3>3. Df(U, c) = Df(T, c)
      BY <1>10
    <3> QED BY <1>4, <1>12, <3>1, <3>2, <3>3 DEF Stands
  <2> QED BY <2>1, <2>2
<1>14. Ordered(U) /\ SomeAtHome(U)
  <2>1. Ordered(T) /\ SomeAtHome(T)
    BY DEF Sound
  <2>2. SomeAtHome(U)
    BY <1>4, <1>10, <2>1 DEF SomeAtHome, N
  <2>3. ASSUME NEW c \in 0 .. N - 1
        PROVE  Df(U, c) < 2 * dist_inc \/ Df(U, c) <= Df(U, Hop(N, c, N - 1)) + dist_inc
    <3>1. Hop(N, c, N - 1) \in 0 .. N - 1
      BY <1>1 DEF Hop
    <3>2. Df(T, c) < 2 * dist_inc \/ Df(T, c) <= Df(T, Hop(N, c, N - 1)) + dist_inc
      BY <2>1 DEF Ordered, N
    <3> QED BY <1>10, <3>1, <3>2
  <2> QED BY <1>4, <2>2, <2>3 DEF Ordered
<1>15. ASSUME NEW x \in J PROVE \E c \in 0 .. N - 1 : U.m_buckets[c] # Vacant /\ Idx(U, c) = x
  <2>1. CASE x = to
    BY <1>2, <1>8, <1>9, <2>1
  <2>2. CASE x \in I /\ x # from
    <3>1. PICK c \in 0 .. N - 1 : T.m_buckets[c] # Vacant /\ Idx(T, c) = x
      BY <2>2 DEF Sound, N
    <3> QED BY <1>2, <1>10, <2>2, <3>1
  <2> QED BY <2>1, <2>2
<1>16. ASSUME NEW c \in 0 .. N - 1, NEW d \in 0 .. N - 1,
              U.m_buckets[c] # Vacant, U.m_buckets[d] # Vacant, Idx(U, c) = Idx(U, d)
       PROVE  c = d
  <2>1. T.m_buckets[c] # Vacant /\ T.m_buckets[d] # Vacant
    BY <1>10, <1>16
  <2>2. CASE c = b \/ d = b
    BY <1>8, <1>10, <1>11, <1>16, <2>1, <2>2
  <2>3. CASE c # b /\ d # b
    BY <1>10, <1>16, <2>1, <2>3 DEF Sound, N
  <2> QED BY <2>2, <2>3
<1>17. \A x, y \in J : get_key(U, x) = get_key(U, y) => x = y
  <2>1. \A x, y \in I : get_key(T, x) = get_key(T, y) => x = y
    BY DEF Sound
  <2> QED BY <2>1
<1>18. J \subseteq 0 .. size(U) - 1
  OBVIOUS
<1> HIDE DEF J
<1>19. Sound(U, J)
  BY <1>4, <1>13, <1>14, <1>15, <1>16, <1>17, <1>18 DEF Sound
<1>20. SomeVacant(T) => SomeVacant(U)
  BY <1>4, <1>10 DEF SomeVacant, N
<1> QED
  BY <1>4, <1>5, <1>19, <1>20 DEF J, N

\* Size and capacity of the buckets stay.
SameFrame(T, U) ==
  /\ bucket_count(U) = bucket_count(T) /\ U.m_shifts = T.m_shifts
  /\ U.m_max_bucket_capacity = T.m_max_bucket_capacity
  /\ U.m_max_load_factor = T.m_max_load_factor

\* U is T without the value at idx, which the last value replaces.
Removed(T, U, idx) ==
  /\ SameFrame(T, U)
  /\ size(U) = size(T) - 1
  /\ \A i \in 1 .. size(T) - 1 :
       U.m_values[i] = IF i = idx + 1 THEN T.m_values[size(T)] ELSE T.m_values[i]

\* A sequence without its last element.
LEMMA FrontIs ==
  ASSUME NEW S, NEW s \in Seq(S), s # << >>
  PROVE  /\ Front(s) \in Seq(S) /\ Len(Front(s)) = Len(s) - 1 /\ Len(s) \in Nat \ {0}
         /\ \A i \in 1 .. Len(s) - 1 : Front(s)[i] = s[i]
         /\ Last(s) = s[Len(s)] /\ Last(s) \in S
<1>1. Len(s) \in Nat \ {0}
  BY EmptySeq
<1>2. Front(s) = SubSeq(s, 1, Len(s) - 1) /\ Last(s) = s[Len(s)]
  BY DEF Front, Last
<1>3. Last(s) \in S
  BY <1>1, <1>2, ElementOfSeq
<1>4. /\ SubSeq(s, 1, Len(s) - 1) \in Seq(S) /\ Len(SubSeq(s, 1, Len(s) - 1)) = Len(s) - 1
      /\ \A i \in 1 .. Len(s) - 1 : SubSeq(s, 1, Len(s) - 1)[i] = s[i]
  <2> DEFINE n == Len(s) - 1
  <2>1. n \in Nat /\ n \in Int /\ 1 \in Int /\ \A i \in 1 .. n : s[i] \in S
    BY <1>1
  <2> HIDE DEF n
  <2>2. /\ SubSeq(s, 1, n) \in Seq(S)
        /\ Len(SubSeq(s, 1, n)) = IF 1 <= n THEN n - 1 + 1 ELSE 0
        /\ \A i \in 1 .. n - 1 + 1 : SubSeq(s, 1, n)[i] = s[1 + i - 1]
    BY <2>1, SubSeqProperties
  <2>3. Len(SubSeq(s, 1, n)) = n
    BY <2>1, <2>2
  <2>4. ASSUME NEW i \in 1 .. n PROVE SubSeq(s, 1, n)[i] = s[i]
    <3>1. i \in 1 .. n - 1 + 1 /\ 1 + i - 1 = i
      BY <2>1
    <3> QED BY <2>2, <3>1
  <2> QED BY <2>2, <2>3, <2>4 DEF n
<1> QED
  BY <1>1, <1>2, <1>3, <1>4

\* A table with other values.
LEMMA Revalued ==
  ASSUME NEW T \in Table, NEW vs \in Seq(Key \X Val)
  PROVE  LET U == [T EXCEPT !.m_values = vs]
         IN /\ U \in Table /\ U.m_values = vs /\ U.m_buckets = T.m_buckets
            /\ U.m_shifts = T.m_shifts /\ U.m_max_bucket_capacity = T.m_max_bucket_capacity
            /\ U.m_max_load_factor = T.m_max_load_factor
            /\ bucket_count(U) = bucket_count(T) /\ size(U) = Len(vs) /\ SameFrame(T, U)
<1> DEFINE U == [T EXCEPT !.m_values = vs]
<1>1. /\ U.m_values = vs /\ U.m_buckets = T.m_buckets
      /\ U.m_shifts = T.m_shifts /\ U.m_max_bucket_capacity = T.m_max_bucket_capacity
      /\ U.m_max_load_factor = T.m_max_load_factor
  BY DEF Table
<1>2. U \in Table
  BY DEF Table
<1> HIDE DEF U
<1>3. bucket_count(U) = bucket_count(T) /\ size(U) = Len(vs)
  BY <1>1 DEF bucket_count, size
<1>4. SameFrame(T, U)
  BY <1>1, <1>3 DEF SameFrame
<1> QED
  BY <1>1, <1>2, <1>3, <1>4 DEF U

\* A table with other values and one bucket with another index.
Rebind(T, vs, b, idx) == [T EXCEPT !.m_values = vs, !.m_buckets[b].value_idx = idx]

\* The rest of it is the same.
LEMMA Rebound ==
  ASSUME NEW T, Allocated(T), NEW vs \in Seq(Key \X Val), NEW b \in 0 .. bucket_count(T) - 1,
         NEW idx \in Nat, NEW U, U = Rebind(T, vs, b, idx)
  PROVE  /\ U \in Table /\ U.m_values = vs
         /\ U.m_buckets = Pointing(T.m_buckets, b, idx)
         /\ U.m_shifts = T.m_shifts /\ size(U) = Len(vs)
         /\ SameFrame(T, U)
<1> DEFINE B == [T.m_buckets EXCEPT ![b].value_idx = idx]
           N == bucket_count(T)
<1>1. T \in Table /\ N \in Nat /\ T.m_buckets \in [0 .. N - 1 -> Bucket] /\ b \in 0 .. N - 1
  BY Buckets DEF Allocated
<1> HIDE DEF N
<1>2. /\ U.m_values = vs /\ U.m_buckets = B
      /\ U.m_shifts = T.m_shifts /\ U.m_max_bucket_capacity = T.m_max_bucket_capacity
      /\ U.m_max_load_factor = T.m_max_load_factor
  BY <1>1 DEF Table, Rebind
<1>3. B \in [0 .. N - 1 -> Bucket]
  <2>1. T.m_buckets[b] \in Bucket
    BY <1>1
  <2>2. [T.m_buckets[b] EXCEPT !.value_idx = idx] \in Bucket
    BY <2>1 DEF Bucket
  <2> QED BY <1>1, <2>2
<1>4. B \in UNION {[0 .. n - 1 -> Bucket] : n \in Nat}
  BY <1>1, <1>3
<1> HIDE DEF B
<1>5. U \in Table
  <2> DEFINE V == [T EXCEPT !.m_values = vs]
  <2>1. V \in Table /\ V.m_buckets = T.m_buckets
    BY <1>1, Revalued
  <2>2. U = [V EXCEPT !.m_buckets = B]
    BY <1>1 DEF B, Table, Rebind
  <2> HIDE DEF V
  <2> QED BY <1>4, <2>1, <2>2 DEF Table
<1>6. bucket_count(U) = N
  <2>1. DOMAIN B = DOMAIN T.m_buckets
    BY <1>1, <1>3
  <2> QED BY <1>2, <2>1 DEF bucket_count, N
<1>7. SameFrame(T, U) /\ size(U) = Len(vs)
  BY <1>2, <1>6 DEF SameFrame, N, size
<1> QED
  BY <1>2, <1>5, <1>7 DEF B, Pointing

\* do_erase() removes one value, and each of the others has its bucket.
LEMMA DoErase ==
  ASSUME HashOK, NEW T, Exact(T), NEW idx, NEW p, Holds(T, p, idx)
  PROVE  LET U == do_erase(T, p)
         IN Exact(U) /\ SomeVacant(U) /\ Removed(T, U, idx) /\ size(T) \in Nat \ {0}
            /\ U.m_values \in Seq(Key \X Val)
<1> DEFINE U == do_erase(T, p)
           E == erase_and_shift_down(T, p)
           n == size(T)
           back == n - 1
           vs == T.m_values
           I == 0 .. n - 1
           moved == BucketOf(E, get_key(T, back), back)
<1>1. /\ Allocated(T) /\ Sound(T, I) /\ T \in Table /\ vs \in Seq(Key \X Val) /\ n = Len(vs) /\ n \in Nat
      /\ p \in 0 .. bucket_count(T) - 1 /\ T.m_buckets[p] # Vacant /\ Idx(T, p) = idx
  BY DEF Exact, Allocated, Indices, Table, size, Holds
<1>2. idx \in I /\ n \in Nat \ {0} /\ vs # << >>
  <2>1. idx \in I
    BY <1>1, InUse
  <2> QED BY <1>1, <2>1
<1>3. Rebucketed(T, E) /\ Sound(E, I \ {idx}) /\ SomeVacant(E)
  BY <1>1, Erased
<1>4. /\ Allocated(E) /\ E \in Table /\ E.m_values = vs /\ SameFrame(T, E)
      /\ size(E) = n /\ \A i : get_key(E, i) = get_key(T, i)
  BY <1>3, SameKeys DEF Rebucketed, Allocated, SameFrame
<1>5. /\ Front(vs) \in Seq(Key \X Val) /\ Len(Front(vs)) = n - 1
      /\ \A i \in 1 .. n - 1 : Front(vs)[i] = vs[i]
      /\ Last(vs) = vs[n] /\ Last(vs) \in Key \X Val
  BY <1>1, <1>2, FrontIs
<1> HIDE DEF E, n, vs
<1>6. U = IF idx = back THEN pop_back(E)
          ELSE [E EXCEPT !.m_values = Front([@ EXCEPT ![idx + 1] = Last(E.m_values)]),
                         !.m_buckets[moved].value_idx = idx]
  BY <1>1 DEF do_erase, E, n, Idx
<1>7. CASE idx = back
  <2>1. U = [E EXCEPT !.m_values = Front(vs)]
    BY <1>4, <1>6, <1>7 DEF pop_back
  <2>2. /\ U \in Table /\ U.m_values = Front(vs) /\ U.m_buckets = E.m_buckets
        /\ U.m_shifts = E.m_shifts /\ size(U) = n - 1 /\ SameFrame(E, U)
    BY <1>4, <1>5, <2>1, Revalued
  <2> HIDE DEF U
  <2>3. I \ {idx} = 0 .. size(U) - 1
    BY <1>2, <1>7, <2>2
  <2>4. ASSUME NEW i \in I \ {idx} PROVE get_key(U, i) = get_key(E, i)
    <3>1. i + 1 \in 1 .. n - 1
      BY <1>2, <1>7
    <3> QED BY <1>4, <1>5, <2>2, <3>1 DEF get_key
  <2>5. Allocated(U) /\ Sound(U, I \ {idx}) /\ SomeVacant(U)
    <3> DEFINE J == I \ {idx}
    <3>1. J \subseteq 0 .. size(U) - 1 /\ \A i \in J : get_key(U, i) = get_key(E, i)
      BY <2>3, <2>4
    <3> HIDE DEF J
    <3>2. Allocated(U) /\ Sound(U, J) /\ SomeVacant(U)
      BY <1>3, <1>4, <2>2, <3>1, Transfer DEF J
    <3> QED BY <3>2 DEF J
  <2>6. Exact(U)
    BY <2>3, <2>5 DEF Exact, Indices
  <2>7. Removed(T, U, idx)
    <3>1. \A i \in 1 .. n - 1 : U.m_values[i] = vs[i] /\ i # idx + 1
      BY <1>2, <1>5, <1>7, <2>2
    <3>2. SameFrame(T, U)
      BY <1>4, <2>2 DEF SameFrame
    <3> QED BY <2>2, <3>1, <3>2 DEF Removed, n, vs
  <2> QED BY <1>2, <1>5, <2>2, <2>5, <2>6, <2>7 DEF n, U
<1>8. CASE idx # back
  <2> DEFINE ws == [vs EXCEPT ![idx + 1] = Last(vs)]
             J == I \ {idx}
             K == (J \ {back}) \cup {idx}
  <2>1. back \in J /\ idx \in Nat /\ idx + 1 \in 1 .. n - 1
    BY <1>2, <1>8
  <2>2. ws \in Seq(Key \X Val) /\ Len(ws) = n /\ ws # << >>
    BY <1>1, <1>2, <1>5, <2>1
  <2>3. /\ Front(ws) \in Seq(Key \X Val) /\ Len(Front(ws)) = n - 1
        /\ \A i \in 1 .. n - 1 : Front(ws)[i] = ws[i]
    BY <2>2, FrontIs
  <2>4. \A i \in 1 .. n - 1 : Front(ws)[i] = IF i = idx + 1 THEN vs[n] ELSE vs[i]
    <3>1. \A i \in 1 .. n - 1 : ws[i] = IF i = idx + 1 THEN vs[n] ELSE vs[i]
      BY <1>1, <1>2, <1>5
    <3> HIDE DEF ws
    <3> QED BY <2>3, <3>1
  <2>5. Holds(E, moved, back)
    <3> HIDE DEF J
    <3>1. Sound(E, J)
      BY <1>3 DEF J
    <3> QED BY <1>4, <2>1, <3>1, BucketOfIs
  <2>6. moved \in 0 .. bucket_count(E) - 1
    BY <2>5 DEF Holds
  <2> HIDE DEF moved, ws
  <2>7. U = Rebind(E, Front(ws), moved, idx)
    BY <1>4, <1>6, <1>8 DEF ws, Rebind
  <2>8. /\ U \in Table /\ U.m_values = Front(ws)
        /\ U.m_buckets = Pointing(E.m_buckets, moved, idx)
        /\ U.m_shifts = E.m_shifts /\ size(U) = n - 1 /\ SameFrame(E, U)
    <3> DEFINE W == Front(ws)
    <3>1. W \in Seq(Key \X Val) /\ Len(W) = n - 1
      BY <2>3
    <3> HIDE DEF W, U
    <3>2. U = Rebind(E, W, moved, idx)
      BY <2>7 DEF W
    <3>3. /\ U \in Table /\ U.m_values = W
          /\ U.m_buckets = Pointing(E.m_buckets, moved, idx)
          /\ U.m_shifts = E.m_shifts /\ size(U) = Len(W) /\ SameFrame(E, U)
      <4>1. Allocated(E)
        BY <1>4
      <4> QED BY <2>1, <2>6, <3>1, <3>2, <4>1, Rebound
    <3> QED BY <3>1, <3>3 DEF W
  <2> HIDE DEF U
  <2>9. K = 0 .. size(U) - 1
    BY <1>2, <1>8, <2>8
  <2>10. ASSUME NEW i \in J \ {back} PROVE get_key(U, i) = get_key(E, i)
    <3>1. i + 1 \in 1 .. n - 1 /\ i + 1 # idx + 1
      BY <1>2, <2>1
    <3> QED BY <1>4, <2>4, <2>8, <3>1 DEF get_key
  <2>11. get_key(U, idx) = get_key(E, back)
    <3>1. back + 1 = n
      BY <1>2
    <3> QED BY <1>4, <2>1, <2>4, <2>8, <3>1 DEF get_key
  <2>12. Sound(E, J) /\ idx \notin J
    BY <1>3
  <2> HIDE DEF J, back
  <2>13. Allocated(U) /\ Sound(U, K) /\ SomeVacant(U)
    <3>1. (J \ {back}) \cup {idx} \subseteq 0 .. size(U) - 1
      BY <2>9
    <3>2. /\ U \in Table /\ U.m_buckets = Pointing(E.m_buckets, moved, idx)
          /\ U.m_shifts = E.m_shifts
      BY <2>8
    <3>3. \A i \in J \ {back} : get_key(U, i) = get_key(E, i)
      BY <2>10
    <3>4. Allocated(E) /\ SomeVacant(E)
      BY <1>3, <1>4
    <3> QED BY <2>1, <2>5, <2>11, <2>12, <3>1, <3>2, <3>3, <3>4, Renumbered
  <2>14. Exact(U)
    BY <2>9, <2>13 DEF Exact, Indices
  <2>15. Removed(T, U, idx)
    <3>1. SameFrame(T, U)
      BY <1>4, <2>8 DEF SameFrame
    <3> QED BY <2>4, <2>8, <3>1 DEF Removed, n, vs
  <2> QED BY <1>2, <2>3, <2>8, <2>13, <2>14, <2>15 DEF n, U
<1> QED
  BY <1>7, <1>8

\* erase(iterator).
LEMMA EraseOne ==
  ASSUME HashOK, NEW T, Exact(T), NEW idx \in Indices(T)
  PROVE  /\ Exact(erase(T, idx)) /\ SomeVacant(erase(T, idx)) /\ Removed(T, erase(T, idx), idx)
         /\ size(T) \in Nat \ {0} /\ erase(T, idx).m_values \in Seq(Key \X Val)
<1> DEFINE p == BucketOf(T, get_key(T, idx), idx)
<1>1. Holds(T, p, idx)
  BY BucketOfIs DEF Exact
<1>2. erase(T, idx) = do_erase(T, p)
  BY DEF erase
<1> HIDE DEF p
<1> QED
  BY <1>1, <1>2, DoErase

\* erase(key): of a key that is there, and of another one.
LEMMA EraseKeyIs ==
  ASSUME HashOK, NEW T, Exact(T), NEW k \in Key
  PROVE  /\ \A idx \in Indices(T) : get_key(T, idx) = k =>
              \E p : Holds(T, p, idx) /\ do_erase_key(T, k) = Result(do_erase(T, p), "erased")
         /\ (\A idx \in Indices(T) : get_key(T, idx) # k) =>
              do_erase_key(T, k) = Result(T, "absent")
<1> DEFINE n == EraseStop(T, k)
<1>1. do_erase_key(T, k) =
        IF empty(T) \/ Dist(k, n) # There(T, k, n) THEN Result(T, "absent")
        ELSE Result(do_erase(T, Forward(T, Home(T, k), n)), "erased")
  BY Zenon DEF do_erase_key, EraseStop
<1>2. Allocated(T) /\ Sound(T, Indices(T))
  BY DEF Exact
<1> HIDE DEF n
<1>3. ASSUME NEW idx \in Indices(T), get_key(T, idx) = k
      PROVE  \E p : Holds(T, p, idx) /\ do_erase_key(T, k) = Result(do_erase(T, p), "erased")
  <2>1. Dist(k, n) = There(T, k, n) /\ Holds(T, Forward(T, Home(T, k), n), idx)
    BY <1>2, <1>3, ErasePresent DEF n
  <2>2. ~empty(T)
    BY DEF empty, Indices, size
  <2> QED BY <1>1, <2>1, <2>2
<1>4. ASSUME \A idx \in Indices(T) : get_key(T, idx) # k
      PROVE  do_erase_key(T, k) = Result(T, "absent")
  <2>1. Dist(k, n) # There(T, k, n)
    BY <1>2, <1>4, EraseMissing DEF n
  <2> QED BY <1>1, <2>1
<1> QED
  BY <1>3, <1>4

\* erase_and_shift_down() looks at buckets only.
LEMMA EraseRevalued ==
  ASSUME NEW T \in Table, NEW vs \in Seq(Key \X Val), NEW p
  PROVE  LET R == [T EXCEPT !.m_values = vs]
         IN erase_and_shift_down(R, p) = [erase_and_shift_down(T, p) EXCEPT !.m_values = vs]
<1> DEFINE R == [T EXCEPT !.m_values = vs]
<1>1. R \in Table /\ R.m_buckets = T.m_buckets /\ bucket_count(R) = bucket_count(T)
  BY Revalued
<1>2. \A b, n : Forward(R, b, n) = Forward(T, b, n) /\ At(R, b, n) = At(T, b, n)
  BY <1>1, Zenon DEF Forward, At
<1> DEFINE B(X) == LET n == Steps(X, LAMBDA i : At(X, p, i + 1).dist_and_fingerprint < 2 * dist_inc)
                   IN [b \in DOMAIN X.m_buckets |->
                        IF b = Forward(X, p, n) THEN Vacant
                        ELSE IF \E i \in 0 .. n - 1 : b = Forward(X, p, i)
                          THEN [At(X, b, 1) EXCEPT !.dist_and_fingerprint = @ - dist_inc]
                        ELSE X.m_buckets[b]]
<1>3. \A X : erase_and_shift_down(X, p) = [X EXCEPT !.m_buckets = B(X)]
  BY Zenon DEF erase_and_shift_down
<1> HIDE DEF R
<1>4. Steps(R, LAMBDA i : At(R, p, i + 1).dist_and_fingerprint < 2 * dist_inc)
      = Steps(T, LAMBDA i : At(T, p, i + 1).dist_and_fingerprint < 2 * dist_inc)
  BY <1>1, <1>2 DEF Steps
<1>5. B(R) = B(T)
  BY <1>1, <1>2, <1>4
<1> HIDE DEF B
<1>6. [R EXCEPT !.m_buckets = B(T)] = [[T EXCEPT !.m_buckets = B(T)] EXCEPT !.m_values = vs]
  BY DEF R, Table
<1> QED
  BY <1>3, <1>5, <1>6 DEF R

\* A search hits if and only if a value with a bucket has the key.
LEMMA ProbeFinds ==
  ASSUME HashOK, NEW T, Allocated(T), NEW I, Sound(T, I), NEW k \in Key
  PROVE  Hit(T, k, Probe(T, k)) <=> \E idx \in I : get_key(T, idx) = k
<1>1. ASSUME NEW idx \in I, get_key(T, idx) = k PROVE Hit(T, k, Probe(T, k))
  BY <1>1, ProbePresent
<1>2. ASSUME \A idx \in I : get_key(T, idx) # k PROVE ~Hit(T, k, Probe(T, k))
  BY <1>2, ProbeMissing
<1> QED
  BY <1>1, <1>2

\* A value without a bucket, with a new key, is placed by PlaceValue().
LEMMA PlacedValue ==
  ASSUME HashOK, NEW T, Allocated(T), NEW I, Sound(T, I), SomeVacant(T),
         NEW idx \in 0 .. size(T) - 1, idx \notin I,
         \A j \in I : get_key(T, j) # get_key(T, idx)
  PROVE  Rebucketed(T, PlaceValue(T, idx)) /\ Sound(PlaceValue(T, idx), I \cup {idx})
<1> DEFINE k == get_key(T, idx)
           n == next_while_less(T, k)
<1>1. k \in Key
  BY KeyIs DEF Allocated
<1>2. Belongs(T, k, n)
  BY <1>1, LessMissing
<1>3. PlaceValue(T, idx) = PlaceAt(T, k, idx, n)
  BY DEF PlaceValue
<1> HIDE DEF n
<1> QED
  BY <1>2, <1>3, Placed

\* replace_key() of a key that is there, and of a new one.
LEMMA ReplaceKeyIs ==
  ASSUME HashOK, NEW T, Exact(T), NEW idx \in Indices(T), NEW k \in Key
  PROVE  \/ /\ \E j \in Indices(T) : get_key(T, j) = k
            /\ replace_key(T, idx, k) = Result(T, "found")
         \/ /\ \A j \in Indices(T) : get_key(T, j) # k
            /\ \E U : /\ replace_key(T, idx, k) = Result(U, "rekeyed")
                      /\ Exact(U) /\ SameFrame(T, U)
                      /\ U.m_values = [T.m_values EXCEPT ![idx + 1][1] = k]
<1> DEFINE vs == [T.m_values EXCEPT ![idx + 1][1] = k]
           old == get_key(T, idx)
           R == [T EXCEPT !.m_values = vs]
           p == BucketOf(T, old, idx)
           E == erase_and_shift_down(T, p)
           F == [E EXCEPT !.m_values = vs]
           I == Indices(T)
           n == size(T)
<1>1. /\ Allocated(T) /\ Sound(T, I) /\ T \in Table /\ T.m_values \in Seq(Key \X Val)
      /\ n = Len(T.m_values) /\ n \in Nat /\ I = 0 .. n - 1
  BY DEF Exact, Allocated, Indices, Table, size
<1>2. CASE Hit(T, k, Probe(T, k))
  <2>1. \E j \in I : get_key(T, j) = k
    BY <1>1, <1>2, ProbeFinds
  <2>2. replace_key(T, idx, k) = Result(T, "found")
    BY <1>2 DEF replace_key
  <2> QED BY <2>1, <2>2
<1>3. CASE ~Hit(T, k, Probe(T, k))
  <2>1. \A j \in I : get_key(T, j) # k
    BY <1>1, <1>3, ProbeFinds
  <2>2. /\ vs \in Seq(Key \X Val) /\ Len(vs) = n
        /\ vs[idx + 1][1] = k /\ \A i \in 1 .. n : i # idx + 1 => vs[i] = T.m_values[i]
    <3>1. idx + 1 \in 1 .. n
      BY <1>1
    <3>2. T.m_values[idx + 1] \in Key \X Val
      BY <1>1, <3>1
    <3>3. [T.m_values[idx + 1] EXCEPT ![1] = k] = <<k, T.m_values[idx + 1][2]>>
      BY <3>2
    <3>4. vs = [T.m_values EXCEPT ![idx + 1] = <<k, T.m_values[idx + 1][2]>>]
      BY <1>1, <3>3
    <3>5. <<k, T.m_values[idx + 1][2]>> \in Key \X Val
      BY <3>2
    <3> HIDE DEF vs
    <3> QED BY <1>1, <3>1, <3>4, <3>5
  <2> HIDE DEF vs
  <2>3. R \in Table /\ R.m_buckets = T.m_buckets /\ R.m_shifts = T.m_shifts /\ bucket_count(R) = bucket_count(T)
    BY <1>1, <2>2, Revalued
  <2>4. BucketOf(R, old, idx) = p
    <3> DEFINE h == Home(T, old)
    <3>1. Home(R, old) = h
      BY <2>3 DEF Home, bucket_idx_from_hash
    <3>2. \A b, i : Forward(R, b, i) = Forward(T, b, i) /\ At(R, b, i) = At(T, b, i)
      BY <2>3, Zenon DEF Forward, At
    <3> HIDE DEF R, h, old
    <3>3. Steps(R, LAMBDA i : At(R, h, i).value_idx = idx) = Steps(T, LAMBDA i : At(T, h, i).value_idx = idx)
      BY <2>3, <3>2 DEF Steps
    <3> QED BY <3>1, <3>2, <3>3 DEF BucketOf, h
  <2>5. Holds(T, p, idx)
    BY <1>1, BucketOfIs
  <2>6. Rebucketed(T, E) /\ Sound(E, I \ {idx}) /\ SomeVacant(E)
    BY <1>1, <2>5, Erased DEF Holds
  <2> HIDE DEF p
  <2>7. erase_and_shift_down(R, p) = F
    BY <1>1, <2>2, EraseRevalued
  <2>8. replace_key(T, idx, k) = Result(PlaceValue(F, idx), "rekeyed")
    <3>1. [T EXCEPT !.m_values[idx + 1][1] = k] = R
      BY DEF vs
    <3> HIDE DEF R, F
    <3> QED BY <1>3, <2>4, <2>7, <3>1 DEF replace_key
  <2>9. /\ E \in Table /\ Allocated(E) /\ E.m_values = T.m_values /\ SameFrame(T, E)
    BY <2>6 DEF Rebucketed, Allocated, SameFrame
  <2> HIDE DEF E
  <2>10. /\ F \in Table /\ F.m_buckets = E.m_buckets /\ F.m_shifts = E.m_shifts /\ F.m_values = vs
         /\ size(F) = n /\ SameFrame(E, F)
    BY <2>2, <2>9, Revalued
  <2> DEFINE J == I \ {idx}
  <2> HIDE DEF F
  <2>11. \A j \in J : get_key(F, j) = get_key(E, j) /\ get_key(F, j) # k
    <3> TAKE j \in J
    <3>1. j \in I /\ j + 1 \in 1 .. n /\ j + 1 # idx + 1
      BY <1>1
    <3>2. get_key(F, j) = get_key(E, j) /\ get_key(E, j) = get_key(T, j)
      BY <2>2, <2>9, <2>10, <3>1 DEF get_key
    <3> QED BY <2>1, <3>1, <3>2
  <2>12. J \subseteq 0 .. size(F) - 1 /\ Sound(E, J) /\ SomeVacant(E) /\ idx \notin J /\ idx \in 0 .. size(F) - 1
         /\ get_key(F, idx) = k /\ J \cup {idx} = 0 .. n - 1
    BY <1>1, <2>2, <2>6, <2>10 DEF get_key
  <2> HIDE DEF J
  <2>13. Allocated(F) /\ Sound(F, J) /\ SomeVacant(F)
    BY <2>9, <2>10, <2>11, <2>12, Transfer
  <2> DEFINE U == PlaceValue(F, idx)
  <2>14. Rebucketed(F, U) /\ Sound(U, J \cup {idx})
    BY <2>11, <2>12, <2>13, PlacedValue
  <2> HIDE DEF U
  <2>15. SameFrame(T, U) /\ U.m_values = vs /\ Allocated(U) /\ size(U) = n
    BY <2>2, <2>9, <2>10, <2>14 DEF Rebucketed, SameFrame, size
  <2>16. Exact(U)
    BY <2>12, <2>14, <2>15 DEF Exact, Indices
  <2> QED BY <2>1, <2>8, <2>15, <2>16 DEF vs, U
<1> QED
  BY <1>2, <1>3
----------------------------------------------------------------------------
(* Filling and growing.                                                    *)

\* With fewer values than buckets a bucket is vacant.
LEMMA Vacancy ==
  ASSUME HashOK, NEW T, Allocated(T), NEW I, Sound(T, I), NEW m \in Nat,
         I \subseteq 0 .. m - 1, m < bucket_count(T)
  PROVE  SomeVacant(T)
<1> DEFINE N == bucket_count(T)
           A == 0 .. N - 1
           B == 0 .. m - 1
           f == [b \in A |-> Idx(T, b)]
<1> SUFFICES ASSUME ~SomeVacant(T) PROVE FALSE
  OBVIOUS
<1>1. N \in Nat \ {0} /\ \A b \in A : T.m_buckets[b] # Vacant
  BY Buckets DEF SomeVacant
<1>2. \A b \in A : Idx(T, b) \in B
  BY <1>1, InUse
<1> HIDE DEF N
<1>3. IsFiniteSet(A) /\ Cardinality(A) = N /\ IsFiniteSet(B) /\ Cardinality(B) = m
  <2>1. \A x \in Nat : IsFiniteSet(0 .. x - 1) /\ Cardinality(0 .. x - 1) = x
    <3> TAKE x \in Nat
    <3>1. 0 \in Int /\ x - 1 \in Int
      OBVIOUS
    <3>2. IsFiniteSet(0 .. x - 1) /\ Cardinality(0 .. x - 1) = IF 0 > x - 1 THEN 0 ELSE (x - 1) - 0 + 1
      BY <3>1, FS_Interval
    <3> QED BY <3>2
  <2> QED BY <1>1, <2>1
<1>4. f \in [A -> B]
  BY <1>2
<1>5. PICK x, y \in A : x # y /\ f[x] = f[y]
  <2> HIDE DEF A, B, f
  <2>1. Cardinality(B) < Cardinality(A)
    BY <1>3 DEF N
  <2> QED BY <1>3, <1>4, <2>1, FS_PigeonHole
<1>6. Idx(T, x) = Idx(T, y)
  BY <1>5
<1> QED
  BY <1>1, <1>5, <1>6 DEF Sound, N

\* All buckets are vacant.
AllVacant(T) == \A b \in 0 .. bucket_count(T) - 1 : T.m_buckets[b] = Vacant

\* Such a table has buckets for none of its values.
LEMMA NoneYet ==
  ASSUME NEW T, Allocated(T), AllVacant(T)
  PROVE  Sound(T, {}) /\ SomeVacant(T)
<1>1. bucket_count(T) \in Nat \ {0} /\ 0 \in 0 .. bucket_count(T) - 1
  BY Buckets
<1>2. \A b \in 0 .. bucket_count(T) - 1 : Df(T, b) = 0
  BY DEF AllVacant, Df, Vacant
<1>3. 0 < 2 * dist_inc
  BY Widths
<1> QED
  BY <1>1, <1>2, <1>3 DEF Sound, SomeVacant, AllVacant, Stands, Ordered, SomeAtHome

\* clear_buckets().
LEMMA ClearedIs ==
  ASSUME NEW T, Allocated(T)
  PROVE  Rebucketed(T, clear_buckets(T)) /\ AllVacant(clear_buckets(T))
<1> DEFINE N == bucket_count(T)
           B == [b \in 0 .. N - 1 |-> Vacant]
<1>1. N \in Nat \ {0} /\ DOMAIN T.m_buckets = 0 .. N - 1
  BY Buckets
<1>2. clear_buckets(T) = [T EXCEPT !.m_buckets = B]
  BY <1>1 DEF clear_buckets
<1>3. B \in [0 .. N - 1 -> Bucket]
  BY DEF Vacant, Bucket
<1>4. \A b \in 0 .. N - 1 : B[b] = Vacant
  OBVIOUS
<1> HIDE DEF B
<1>5. Rebucketed(T, clear_buckets(T)) /\ clear_buckets(T).m_buckets = B
  BY <1>2, <1>3, Rebucket
<1> QED
  BY <1>4, <1>5 DEF AllVacant, Rebucketed

\* allocate_buckets_from_shift().
LEMMA AllocatedIs ==
  ASSUME NEW T \in Table, T.m_shifts \in 0 .. initial_shifts
  PROVE  LET U == allocate_buckets_from_shift(T)
         IN /\ Allocated(U) /\ AllVacant(U) /\ U.m_values = T.m_values /\ U.m_shifts = T.m_shifts
            /\ U.m_max_load_factor = T.m_max_load_factor
            /\ bucket_count(U) = calc_num_buckets(T.m_shifts)
            /\ U.m_max_bucket_capacity =
                 IF bucket_count(U) = max_bucket_count THEN max_bucket_count
                 ELSE Load(bucket_count(U), U.m_max_load_factor)
<1> DEFINE U == allocate_buckets_from_shift(T)
           N == calc_num_buckets(T.m_shifts)
           B == [b \in 0 .. N - 1 |-> Vacant]
           c == IF N = max_bucket_count THEN max_bucket_count ELSE Load(N, T.m_max_load_factor)
<1>1. N \in Nat \ {0}
  BY Counts
<1>2. U = [T EXCEPT !.m_buckets = B, !.m_max_bucket_capacity = c]
  BY DEF allocate_buckets_from_shift
<1> HIDE DEF N, U
<1>3. B \in [0 .. N - 1 -> Bucket] /\ DOMAIN B = 0 .. N - 1 /\ \A b \in 0 .. N - 1 : B[b] = Vacant
  BY DEF Vacant, Bucket
<1>4. c \in Nat
  <2>1. T.m_max_load_factor \in Nat /\ max_bucket_count \in Nat
    BY Widths DEF Table
  <2>2. \A x \in Nat : x \div 100 \in Nat
    OBVIOUS
  <2>3. N * T.m_max_load_factor \in Nat
    BY <1>1, <2>1
  <2> QED BY <2>1, <2>2, <2>3 DEF Load
<1>5. B \in UNION {[0 .. n - 1 -> Bucket] : n \in Nat}
  BY <1>1, <1>3
<1> HIDE DEF B, c
<1>6. /\ U.m_values = T.m_values /\ U.m_shifts = T.m_shifts /\ U.m_buckets = B
      /\ U.m_max_load_factor = T.m_max_load_factor /\ U.m_max_bucket_capacity = c
  BY <1>2 DEF Table
<1>7. U \in Table
  BY <1>2, <1>4, <1>5 DEF Table
<1>8. bucket_count(U) = N
  <2>1. Cardinality(0 .. N - 1) = N
    BY <1>1, FS_Interval
  <2> QED BY <1>3, <1>6, <2>1 DEF bucket_count
<1>9. Allocated(U)
  BY <1>3, <1>6, <1>7, <1>8 DEF Allocated, N
<1>10. AllVacant(U)
  BY <1>3, <1>6, <1>8 DEF AllVacant
<1> QED
  BY <1>6, <1>8, <1>9, <1>10 DEF U, N, c

\* The tables of its rounds: the first i values have buckets.
Filling(T) == [i \in 0 .. size(T) |-> {U \in Table : Rebucketed(T, U) /\ Sound(U, 0 .. i - 1)}]

\* One round of clear_and_fill_buckets_from_values().
LEMMA FillStep ==
  ASSUME HashOK, NEW T, Allocated(T), size(T) <= bucket_count(T), Distinct(T),
         NEW i \in 1 .. size(T), NEW U \in Filling(T)[i - 1]
  PROVE  PlaceValue(U, i - 1) \in Filling(T)[i]
<1> DEFINE n == size(T)
           J == 0 .. (i - 1) - 1
           V == PlaceValue(U, i - 1)
<1>1. n \in Nat /\ i - 1 \in 0 .. n /\ i \in 0 .. n /\ i - 1 \in 0 .. n - 1 /\ i - 1 \in Nat
  <2>1. T.m_values \in Seq(Key \X Val)
    BY DEF Allocated, Table
  <2>2. n \in Nat
    BY <2>1 DEF size
  <2> QED BY <2>2
<1>2. Rebucketed(T, U) /\ Sound(U, J)
  BY <1>1 DEF Filling
<1>3. /\ Allocated(U) /\ bucket_count(U) = bucket_count(T) /\ size(U) = n
      /\ \A j : get_key(U, j) = get_key(T, j)
  BY <1>2, SameKeys DEF Rebucketed
<1>4. bucket_count(T) \in Nat
  BY Buckets
<1>5. i - 1 < bucket_count(U) /\ i - 1 \notin J /\ J \subseteq 0 .. n - 1 /\ J \cup {i - 1} = 0 .. i - 1
  BY <1>1, <1>3, <1>4
<1>6. \A j \in J : get_key(U, j) # get_key(U, i - 1)
  BY <1>1, <1>3, <1>5 DEF Indices, Distinct
<1> HIDE DEF J
<1>7. SomeVacant(U)
  BY <1>1, <1>2, <1>3, <1>5, Vacancy DEF J
<1>8. Rebucketed(U, V) /\ Sound(V, J \cup {i - 1})
  BY <1>1, <1>2, <1>3, <1>5, <1>6, <1>7, PlacedValue
<1> HIDE DEF V
<1>9. Rebucketed(T, V) /\ V \in Table
  BY <1>2, <1>8 DEF Rebucketed, Allocated
<1> QED
  BY <1>1, <1>5, <1>8, <1>9 DEF Filling, V

\* Every value of the table gets a bucket.
LEMMA Filled ==
  ASSUME HashOK, NEW T, Allocated(T), size(T) <= bucket_count(T),
         Distinct(T)
  PROVE  LET U == clear_and_fill_buckets_from_values(T)
         IN Rebucketed(T, U) /\ Sound(U, Indices(T))
<1> DEFINE n == size(T)
           X == Filling(T)
           a == clear_buckets(T)
           F == [i \in 1 .. n |-> [x \in X[i - 1] |-> PlaceValue(x, i - 1)]]
           Fixed(f) == f = [i \in 0 .. n |-> IF i = 0 THEN a ELSE PlaceValue(f[i - 1], i - 1)]
           f1 == CHOOSE f : Fixed(f)
<1>1. n \in Nat
  <2>1. T.m_values \in Seq(Key \X Val)
    BY DEF Allocated, Table
  <2> QED BY <2>1 DEF size
<1>2. a \in X[0]
  <2>1. Rebucketed(T, a) /\ AllVacant(a)
    BY ClearedIs
  <2>2. Allocated(a) /\ a \in Table
    BY <2>1 DEF Rebucketed, Allocated
  <2>3. Sound(a, {})
    BY <2>1, <2>2, NoneYet
  <2>4. 0 .. 0 - 1 = {}
    OBVIOUS
  <2> HIDE DEF a
  <2> QED BY <1>1, <2>1, <2>2, <2>3, <2>4 DEF Filling
<1>3. ASSUME NEW i \in 1 .. n, NEW x \in X[i - 1] PROVE PlaceValue(x, i - 1) \in X[i]
  BY FillStep
<1>4. LoopFits(n, X, F)
  BY <1>3 DEF LoopFits
<1>5. clear_and_fill_buckets_from_values(T) = f1[n]
  BY Zenon DEF clear_and_fill_buckets_from_values
<1> HIDE DEF a, n, X
<1>6. PICK g : LoopValues(n, X, F, a, g)
  <2> HIDE DEF F
  <2> QED BY <1>1, <1>2, <1>4, LoopRuns
<1>7. Fixed(g)
  <2>1. ASSUME NEW i \in 0 .. n, i # 0 PROVE F[i][g[i - 1]] = PlaceValue(g[i - 1], i - 1)
    <3>1. i - 1 \in 0 .. n /\ i \in 1 .. n
      BY <1>1, <2>1
    <3> QED BY <1>6, <3>1 DEF LoopValues
  <2> HIDE DEF F
  <2> QED BY <1>6, <2>1 DEF LoopValues
<1>8. Fixed(f1)
  <2> HIDE DEF Fixed
  <2> QED BY <1>7
<1> HIDE DEF f1
<1>9. f1[0] \in X[0]
  BY <1>1, <1>2, <1>8
<1>10. \A i \in 1 .. n : f1[i - 1] \in X[i - 1] => f1[i] \in X[i]
  <2> TAKE i \in 1 .. n
  <2>1. i \in 0 .. n /\ i # 0
    BY <1>1
  <2>2. f1[i] = PlaceValue(f1[i - 1], i - 1)
    BY <1>8, <2>1
  <2> QED BY <1>3, <2>2
<1> HIDE DEF Fixed
<1>11. f1[n] \in X[n]
  BY <1>1, <1>9, <1>10, LoopKeeps
<1>12. Rebucketed(T, f1[n]) /\ Sound(f1[n], 0 .. n - 1)
  <2>1. n \in 0 .. n
    BY <1>1
  <2> QED BY <1>11, <2>1 DEF Filling, X, n
<1> QED
  BY <1>5, <1>12 DEF Indices, n

\* The maximum load of n buckets is at most n values.
LEMMA LoadLess ==
  ASSUME NEW n \in Nat, NEW p \in Percents \cup {default_max_load_factor}
  PROVE  Load(n, p) \in Nat /\ Load(n, p) <= n /\ Load(0, p) = 0 /\ p \in Nat
<1>1. p \in 1 .. 100
  <2>1. Percents \subseteq 1 .. 100
    BY DenseMapAssumption
  <2>2. default_max_load_factor \in 1 .. 100
    BY DEF default_max_load_factor
  <2> QED BY <2>1, <2>2
<1>2. n * p \in Nat /\ n * p <= n * 100 /\ 0 * p = 0
  BY <1>1
<1> DEFINE x == n * p
<1>3. x \div 100 \in Nat /\ x \div 100 <= n
  <2> HIDE DEF x
  <2>1. x \in Nat /\ x <= n * 100
    BY <1>2 DEF x
  <2> QED BY <2>1
<1> QED
  BY <1>1, <1>2, <1>3 DEF Load

\* Buckets of another size, for all values.
LEMMA ResizedIs ==
  ASSUME HashOK, NEW T, T \in Table, Distinct(T),
         T.m_max_load_factor \in Percents \cup {default_max_load_factor},
         NEW shifts \in 0 .. initial_shifts, size(T) <= calc_num_buckets(shifts)
  PROVE  Ready(Resized(T, shifts)) /\ Resized(T, shifts).m_values = T.m_values
<1> DEFINE R == [T EXCEPT !.m_shifts = shifts]
           A == allocate_buckets_from_shift(R)
           U == clear_and_fill_buckets_from_values(A)
<1>1. shifts \in Nat
  BY Widths
<1>2. R \in Table /\ R.m_shifts = shifts /\ R.m_values = T.m_values /\ R.m_max_load_factor = T.m_max_load_factor
  BY <1>1 DEF Table
<1> HIDE DEF R
<1>3. /\ Allocated(A) /\ A.m_values = T.m_values /\ A.m_shifts = shifts
      /\ A.m_max_load_factor = T.m_max_load_factor
      /\ bucket_count(A) = calc_num_buckets(shifts)
      /\ A.m_max_bucket_capacity =
           IF bucket_count(A) = max_bucket_count THEN max_bucket_count
           ELSE Load(bucket_count(A), A.m_max_load_factor)
  BY <1>2, AllocatedIs
<1> HIDE DEF A
<1>4. size(A) = size(T) /\ \A i : get_key(A, i) = get_key(T, i)
  BY <1>3 DEF size, get_key
<1>5. size(A) <= bucket_count(A) /\ Distinct(A)
  BY <1>3, <1>4 DEF Distinct, Indices
<1>6. Rebucketed(A, U) /\ Sound(U, Indices(A))
  BY <1>3, <1>5, Filled
<1> HIDE DEF U
<1>7. /\ Allocated(U) /\ U \in Table /\ size(U) = size(A) /\ U.m_values = T.m_values
      /\ bucket_count(U) = bucket_count(A) /\ U.m_shifts = shifts
      /\ U.m_max_bucket_capacity = A.m_max_bucket_capacity
      /\ U.m_max_load_factor = A.m_max_load_factor
  BY <1>3, <1>6 DEF Rebucketed, Allocated, size
<1>8. Framed(U)
  BY <1>3, <1>7 DEF Framed
<1>9. Exact(U) /\ size(U) <= bucket_count(U)
  BY <1>5, <1>6, <1>7 DEF Exact, Indices
<1>10. Resized(T, shifts) = U
  BY DEF Resized, U, A, R
<1> QED
  BY <1>7, <1>8, <1>9, <1>10 DEF Ready

\* A table that is not at its maximum number of buckets can have more.
LEMMA CanGrow ==
  ASSUME NEW s \in 0 .. initial_shifts, calc_num_buckets(s) # max_bucket_count
  PROVE  s - 1 \in 0 .. initial_shifts /\ calc_num_buckets(s) + 1 <= calc_num_buckets(s - 1)
<1> DEFINE N == calc_num_buckets(s)
           M == max_bucket_count
<1>1. /\ HashBits - s \in Nat /\ N = Power[HashBits - s] /\ N < M /\ N \in Nat \ {0} /\ M \in Nat
  BY Counts, Widths
<1>2. s # 0
  <2> SUFFICES ASSUME s = 0 PROVE FALSE
    OBVIOUS
  <2>1. Power[IndexBits] <= Power[HashBits]
    BY Widths, PowersGrow
  <2>2. N = Power[HashBits] /\ Power[HashBits] \in Nat
    BY <1>1, Widths
  <2> QED BY <1>1, <2>1, <2>2 DEF max_bucket_count, max_size
<1>3. s - 1 \in 0 .. initial_shifts /\ HashBits - (s - 1) = (HashBits - s) + 1
  BY <1>2, Widths
<1>4. Power[HashBits - (s - 1)] = 2 * N
  BY <1>1, <1>3, Powers
<1>5. calc_num_buckets(s - 1) = IF 2 * N < M THEN 2 * N ELSE M
  BY <1>3, <1>4, Counts
<1> HIDE DEF N, M
<1> QED
  BY <1>1, <1>3, <1>5 DEF N
----------------------------------------------------------------------------
(* The operations.                                                         *)

\* The parts of a table between two operations.
LEMMA ReadyIs ==
  ASSUME NEW T, Ready(T)
  PROVE  /\ T \in Table /\ T.m_values \in Seq(Key \X Val) /\ size(T) = Len(T.m_values) /\ size(T) \in Nat
         /\ Allocated(T) /\ Sound(T, Indices(T)) /\ Distinct(T)
         /\ bucket_count(T) \in Nat \ {0} /\ size(T) <= bucket_count(T)
         /\ bucket_count(T) <= max_bucket_count /\ size(T) <= max_size
         /\ bucket_count(T) = calc_num_buckets(T.m_shifts) /\ T.m_shifts \in 0 .. initial_shifts
         /\ T.m_max_load_factor \in Percents \cup {default_max_load_factor}
         /\ Indices(T) = 0 .. size(T) - 1
<1>1. /\ T \in Table /\ Allocated(T) /\ Sound(T, Indices(T)) /\ size(T) <= bucket_count(T)
      /\ T.m_max_load_factor \in Percents \cup {default_max_load_factor}
  BY DEF Ready, Exact, Framed
<1>2. T.m_values \in Seq(Key \X Val)
  BY <1>1 DEF Table
<1>3. size(T) = Len(T.m_values) /\ size(T) \in Nat
  BY <1>2 DEF size
<1>4. bucket_count(T) \in Nat \ {0} /\ bucket_count(T) <= max_bucket_count
  BY <1>1, Buckets
<1>5. size(T) <= max_size
  BY <1>1, <1>3, <1>4, Widths
<1>6. Distinct(T)
  BY <1>1 DEF Sound, Distinct
<1>7. bucket_count(T) = calc_num_buckets(T.m_shifts) /\ T.m_shifts \in 0 .. initial_shifts
  BY <1>1 DEF Allocated
<1> QED
  BY <1>1, <1>2, <1>3, <1>4, <1>5, <1>6, <1>7 DEF Indices

\* Is it the same frame, and does it have its buckets, then it is ready, too.
LEMMA StaysReady ==
  ASSUME NEW T, Framed(T), NEW U, Exact(U), SameFrame(T, U), size(U) <= bucket_count(U)
  PROVE  Ready(U)
<1>1. U \in Table
  BY DEF Exact, Allocated
<1> QED
  BY <1>1 DEF Ready, Framed, SameFrame

\* A value more at the end.
Appended(T, k, v) == [T EXCEPT !.m_values = Append(@, <<k, v>>)]

\* Its key is new: the others have their buckets, and it has none.
LEMMA AppendedIs ==
  ASSUME HashOK, NEW T, Ready(T), NEW k \in Key, NEW v \in Val
  PROVE  LET A == Appended(T, k, v)
         IN /\ A \in Table /\ A.m_values = Append(T.m_values, <<k, v>>) /\ SameFrame(T, A)
            /\ size(A) = size(T) + 1 /\ get_key(A, size(T)) = k
            /\ \A i \in Indices(T) : get_key(A, i) = get_key(T, i)
            /\ Allocated(A) /\ Sound(A, Indices(T))
            /\ pop_back(A) = T
<1> DEFINE vs == Append(T.m_values, <<k, v>>)
           A == Appended(T, k, v)
           n == size(T)
<1>1. /\ T \in Table /\ T.m_values \in Seq(Key \X Val) /\ n = Len(T.m_values) /\ n \in Nat
      /\ Allocated(T) /\ Sound(T, Indices(T)) /\ Indices(T) = 0 .. n - 1
  BY ReadyIs
<1>2. /\ vs \in Seq(Key \X Val) /\ Len(vs) = n + 1 /\ vs[n + 1] = <<k, v>>
      /\ \A i \in 1 .. n : vs[i] = T.m_values[i]
  BY <1>1
<1>3. A = [T EXCEPT !.m_values = vs]
  BY DEF Appended
<1> HIDE DEF vs, A
<1>4. /\ A \in Table /\ A.m_values = vs /\ SameFrame(T, A) /\ size(A) = n + 1
      /\ A.m_buckets = T.m_buckets /\ A.m_shifts = T.m_shifts
  BY <1>1, <1>2, <1>3, Revalued
<1>5. get_key(A, n) = k
  BY <1>2, <1>4 DEF get_key
<1>6. ASSUME NEW i \in Indices(T) PROVE get_key(A, i) = get_key(T, i)
  <2>1. i + 1 \in 1 .. n
    BY <1>1
  <2> QED BY <1>2, <1>4, <2>1 DEF get_key
<1>7. Allocated(A) /\ Sound(A, Indices(T))
  <2>1. Indices(T) \subseteq 0 .. size(A) - 1
    BY <1>1, <1>4
  <2> QED BY <1>1, <1>4, <1>6, <2>1, Transfer
<1>8. pop_back(A) = T
  <2>1. Front(vs) = T.m_values
    <3>1. vs # << >>
      BY <1>1, <1>2
    <3>2. /\ Front(vs) \in Seq(Key \X Val) /\ Len(Front(vs)) = n
          /\ \A i \in 1 .. n : Front(vs)[i] = T.m_values[i]
      <4>1. /\ Front(vs) \in Seq(Key \X Val) /\ Len(Front(vs)) = Len(vs) - 1
            /\ \A i \in 1 .. Len(vs) - 1 : Front(vs)[i] = vs[i]
        BY <1>2, <3>1, FrontIs
      <4> QED BY <1>1, <1>2, <4>1
    <3> QED BY <1>1, <3>2, SeqEqual
  <2>2. pop_back(A) = [A EXCEPT !.m_values = T.m_values]
    BY <1>4, <2>1 DEF pop_back
  <2>3. [[T EXCEPT !.m_values = vs] EXCEPT !.m_values = T.m_values] = T
    BY <1>1 DEF Table
  <2> QED BY <1>3, <2>2, <2>3
<1> QED
  BY <1>4, <1>5, <1>6, <1>7, <1>8 DEF A, vs

\* The result of adding a value: refused by a full table, or added.
Adds(T, k, v, r) ==
  \/ r = Result(T, "overflow") /\ size(T) = max_size
  \/ \E U : /\ r = Result(U, "inserted") /\ Ready(U)
            /\ U.m_values = Append(T.m_values, <<k, v>>)
            /\ size(T) < max_size

\* How do_place_element() and emplace() end.
AddAt(T, A, k, n) ==
  IF is_full(A) THEN increase_size(A) ELSE Result(PlaceAt(A, k, size(T), n), "inserted")

\* They add the value, or refuse it.
LEMMA Added ==
  ASSUME HashOK, NEW T, Ready(T), NEW k \in Key, NEW v \in Val,
         \A i \in Indices(T) : get_key(T, i) # k, NEW n, Belongs(Appended(T, k, v), k, n)
  PROVE  Adds(T, k, v, AddAt(T, Appended(T, k, v), k, n))
<1> DEFINE A == Appended(T, k, v)
           I == Indices(T)
           m == size(T)
           N == bucket_count(T)
           M == max_bucket_count
           cap == T.m_max_bucket_capacity
           r == AddAt(T, A, k, n)
<1>1. /\ m \in Nat /\ N \in Nat \ {0} /\ m <= N /\ N <= M /\ I = 0 .. m - 1 /\ Distinct(T)
      /\ N = calc_num_buckets(T.m_shifts) /\ T.m_shifts \in 0 .. initial_shifts
      /\ T.m_max_load_factor \in Percents \cup {default_max_load_factor}
  BY ReadyIs
<1>2. /\ A \in Table /\ A.m_values = Append(T.m_values, <<k, v>>) /\ SameFrame(T, A)
      /\ size(A) = m + 1 /\ get_key(A, m) = k
      /\ \A i \in I : get_key(A, i) = get_key(T, i)
      /\ Allocated(A) /\ Sound(A, I) /\ pop_back(A) = T
  BY AppendedIs
<1>3. M \in Nat /\ max_size = M
  BY Widths
<1>4. cap = IF N = M THEN M ELSE Load(N, T.m_max_load_factor)
  BY DEF Ready, Framed
<1>5. Load(N, T.m_max_load_factor) \in Nat /\ Load(N, T.m_max_load_factor) <= N
  BY <1>1, LoadLess
<1>6. Framed(T) /\ Belongs(A, k, n)
  BY DEF Ready
<1> HIDE DEF A, I, m, N, M, cap
<1>7. cap = M <=> N = M
  BY <1>1, <1>3, <1>4, <1>5
<1>8. A.m_max_bucket_capacity = cap /\ A.m_shifts = T.m_shifts /\ bucket_count(A) = N
      /\ A.m_max_load_factor = T.m_max_load_factor
  BY <1>2 DEF SameFrame, cap, N
<1>9. is_full(A) <=> m + 1 > cap
  BY <1>2, <1>8 DEF is_full
<1>10. CASE is_full(A) /\ cap = M
  <2>1. r = Result(T, "overflow")
    BY <1>2, <1>8, <1>10 DEF AddAt, increase_size, M
  <2>2. m = M
    BY <1>1, <1>3, <1>9, <1>10
  <2> QED BY <1>3, <2>1, <2>2 DEF Adds, A, m
<1>11. CASE is_full(A) /\ cap # M
  <2> DEFINE s == T.m_shifts
             U == Resized(A, s - 1)
  <2>1. s - 1 \in 0 .. initial_shifts /\ N + 1 <= calc_num_buckets(s - 1)
    BY <1>1, <1>7, <1>11, CanGrow DEF M
  <2>2. calc_num_buckets(s - 1) \in Nat /\ calc_num_buckets(s - 1) <= M
    BY <2>1, Counts DEF M
  <2>3. size(A) <= calc_num_buckets(s - 1) /\ m < M
    BY <1>1, <1>2, <1>3, <2>1, <2>2
  <2>4. Distinct(A)
    <3>1. Indices(A) = I \cup {m} /\ m \notin I
      BY <1>1, <1>2 DEF Indices
    <3>2. \A i, j \in I : get_key(T, i) = get_key(T, j) => i = j
      BY <1>1 DEF Distinct, I
    <3>3. \A i \in I : get_key(A, i) # k
      BY <1>2 DEF I
    <3> QED BY <1>2, <3>1, <3>2, <3>3 DEF Distinct
  <2>5. Ready(U) /\ U.m_values = A.m_values
    <3> HIDE DEF s
    <3> QED BY <1>1, <1>2, <1>8, <2>1, <2>3, <2>4, ResizedIs
  <2>6. r = Result(U, "inserted")
    BY <1>8, <1>11 DEF AddAt, increase_size, M
  <2> HIDE DEF U
  <2> QED BY <1>2, <1>3, <2>3, <2>5, <2>6 DEF Adds, A, m
<1>12. CASE ~is_full(A)
  <2> DEFINE U == PlaceAt(A, k, m, n)
  <2>1. m + 1 <= N /\ m < M
    BY <1>1, <1>3, <1>4, <1>5, <1>7, <1>9, <1>12
  <2>2. SomeVacant(A)
    <3>1. m < bucket_count(A) /\ I \subseteq 0 .. m - 1
      BY <1>1, <1>8, <2>1
    <3> QED BY <1>1, <1>2, <3>1, Vacancy
  <2>3. m \in 0 .. size(A) - 1 /\ m \notin I
    BY <1>1, <1>2
  <2>4. \A j \in I : get_key(A, j) # get_key(A, m)
    BY <1>2 DEF I
  <2>5. Rebucketed(A, U) /\ Sound(U, I \cup {m})
    BY <1>2, <1>6, <2>2, <2>3, <2>4, Placed
  <2>6. r = Result(U, "inserted")
    BY <1>12 DEF AddAt, m
  <2> HIDE DEF U
  <2>7. SameFrame(T, U) /\ U.m_values = A.m_values /\ size(U) = m + 1 /\ Allocated(U) /\ bucket_count(U) = N
    BY <1>2, <1>8, <2>5 DEF Rebucketed, SameFrame, size
  <2>8. Indices(U) = I \cup {m}
    BY <1>1, <2>7 DEF Indices
  <2>9. Exact(U)
    BY <2>5, <2>7, <2>8 DEF Exact
  <2>10. Ready(U)
    BY <1>6, <2>1, <2>7, <2>9, StaysReady
  <2> QED BY <1>2, <1>3, <2>1, <2>6, <2>7, <2>10 DEF Adds, A, m
<1> QED
  BY <1>10, <1>11, <1>12 DEF A

\* A value has key k.
HasKey(T, k) == \E i \in Indices(T) : get_key(T, i) = k

\* The result of adding a value unless its key is there.
Tries(T, k, v, r) ==
  \/ HasKey(T, k) /\ r = Result(T, "found")
  \/ ~HasKey(T, k) /\ Adds(T, k, v, r)

\* try_emplace().
LEMMA TryEmplaceIs ==
  ASSUME HashOK, NEW T, Ready(T), NEW k \in Key, NEW v \in Val
  PROVE  Tries(T, k, v, do_try_emplace(T, k, v))
<1> DEFINE A == Appended(T, k, v)
           n == Probe(T, k)
           I == Indices(T)
<1>1. Allocated(T) /\ Sound(T, I)
  BY ReadyIs
<1>2. Hit(T, k, n) <=> HasKey(T, k)
  BY <1>1, ProbeFinds DEF HasKey
<1>3. CASE HasKey(T, k)
  BY <1>2, <1>3 DEF do_try_emplace, Tries
<1>4. CASE ~HasKey(T, k)
  <2>1. \A i \in I : get_key(T, i) # k
    BY <1>4 DEF HasKey
  <2>2. Belongs(T, k, n)
    BY <1>1, <2>1, ProbeMissing
  <2>3. /\ A.m_buckets = T.m_buckets /\ A.m_shifts = T.m_shifts /\ bucket_count(A) = bucket_count(T)
    <3>1. A \in Table /\ SameFrame(T, A) /\ T \in Table
      BY AppendedIs, ReadyIs
    <3>2. A.m_buckets = T.m_buckets
      BY <3>1 DEF Appended, Table
    <3> QED BY <3>1, <3>2 DEF SameFrame
  <2> HIDE DEF n, A
  <2>4. Belongs(A, k, n)
    <3>1. Home(A, k) = Home(T, k)
      BY <2>3 DEF Home, bucket_idx_from_hash
    <3>2. \A b : Df(A, b) = Df(T, b)
      BY <2>3 DEF Df
    <3> QED BY <2>2, <2>3, <3>1, <3>2 DEF Belongs
  <2>5. Adds(T, k, v, AddAt(T, A, k, n))
    BY <2>1, <2>4, Added DEF A
  <2>6. do_try_emplace(T, k, v) = AddAt(T, A, k, n)
    BY <1>2, <1>4 DEF do_try_emplace, do_place_element, AddAt, A, Appended, n
  <2> QED BY <1>4, <2>5, <2>6 DEF Tries
<1> QED
  BY <1>3, <1>4

\* emplace(), which appends the value first.
LEMMA EmplaceIs ==
  ASSUME HashOK, NEW T, Ready(T), NEW k \in Key, NEW v \in Val
  PROVE  Tries(T, k, v, emplace(T, k, v))
<1> DEFINE A == Appended(T, k, v)
           n == Probe(A, k)
           I == Indices(T)
<1>1. /\ Allocated(A) /\ Sound(A, I) /\ pop_back(A) = T
      /\ \A i \in I : get_key(A, i) = get_key(T, i)
  BY AppendedIs
<1>2. emplace(T, k, v) = IF Hit(A, k, n) THEN Result(pop_back(A), "found") ELSE AddAt(T, A, k, n)
  BY DEF emplace, AddAt, Appended
<1> HIDE DEF A
<1>3. Hit(A, k, n) <=> HasKey(T, k)
  <2>1. Hit(A, k, n) <=> \E i \in I : get_key(A, i) = k
    BY <1>1, ProbeFinds
  <2> QED BY <1>1, <2>1 DEF HasKey
<1>4. CASE HasKey(T, k)
  BY <1>1, <1>2, <1>3, <1>4 DEF Tries
<1>5. CASE ~HasKey(T, k)
  <2>1. \A i \in I : get_key(T, i) # k
    BY <1>5 DEF HasKey
  <2>2. Belongs(A, k, n)
    BY <1>1, <2>1, ProbeMissing
  <2> HIDE DEF n
  <2>3. Adds(T, k, v, AddAt(T, A, k, n))
    BY <2>1, <2>2, Added DEF A
  <2> QED BY <1>2, <1>3, <1>5, <2>3 DEF Tries
<1> QED
  BY <1>4, <1>5

\* The value at idx is another one, of the same key.
Assigned(T, U, idx, k, v) == U.m_values = [T.m_values EXCEPT ![idx + 1] = <<k, v>>]

\* insert_or_assign().
LEMMA InsertOrAssignIs ==
  ASSUME HashOK, NEW T, Ready(T), NEW k \in Key, NEW v \in Val
  PROVE  \/ ~HasKey(T, k) /\ Adds(T, k, v, do_insert_or_assign(T, k, v))
         \/ \E idx \in Indices(T) : \E U :
              /\ get_key(T, idx) = k /\ do_insert_or_assign(T, k, v) = Result(U, "assigned")
              /\ Ready(U) /\ Assigned(T, U, idx, k, v)
<1> DEFINE r == do_try_emplace(T, k, v)
           s == do_insert_or_assign(T, k, v)
<1>1. Tries(T, k, v, r)
  BY TryEmplaceIs
<1>2. s = IF r.ret # "found" THEN r
          ELSE Result([T EXCEPT !.m_values[do_find(T, k) + 1] = <<k, v>>], "assigned")
  BY DEF do_insert_or_assign
<1>3. \A U, a : Result(U, a).ret = a
  BY DEF Result
<1> HIDE DEF r, s
<1>4. CASE ~HasKey(T, k)
  <2>1. Adds(T, k, v, r)
    BY <1>1, <1>4 DEF Tries
  <2>2. r.ret # "found"
    BY <1>3, <2>1 DEF Adds
  <2> QED BY <1>2, <1>4, <2>1, <2>2 DEF s
<1>5. CASE HasKey(T, k)
  <2>1. r.ret = "found"
    BY <1>1, <1>3, <1>5 DEF Tries
  <2>2. PICK idx \in Indices(T) : get_key(T, idx) = k
    BY <1>5 DEF HasKey
  <2>3. do_find(T, k) = idx
    BY <2>2, ReadyIs, FindPresent
  <2> DEFINE vs == [T.m_values EXCEPT ![idx + 1] = <<k, v>>]
             U == [T EXCEPT !.m_values = vs]
             n == size(T)
  <2>4. /\ T \in Table /\ T.m_values \in Seq(Key \X Val) /\ n = Len(T.m_values) /\ n \in Nat
        /\ Indices(T) = 0 .. n - 1 /\ Allocated(T) /\ Sound(T, Indices(T)) /\ n <= bucket_count(T)
    BY ReadyIs
  <2>5. vs \in Seq(Key \X Val) /\ Len(vs) = n
    BY <2>4
  <2>6. \A i \in Indices(T) : vs[i + 1][1] = get_key(T, i)
    <3> TAKE i \in Indices(T)
    <3>1. i + 1 \in 1 .. n /\ idx + 1 \in 1 .. n /\ (i + 1 = idx + 1 => i = idx)
      BY <2>4
    <3>2. i + 1 = idx + 1 => vs[i + 1] = <<k, v>>
      BY <2>4, <3>1
    <3>3. i + 1 # idx + 1 => vs[i + 1] = T.m_values[i + 1]
      BY <2>4, <3>1
    <3> HIDE DEF vs
    <3> QED BY <2>2, <3>1, <3>2, <3>3 DEF get_key
  <2>7. s = Result(U, "assigned")
    BY <1>2, <2>1, <2>3
  <2> HIDE DEF vs, U
  <2>8. /\ U \in Table /\ U.m_values = vs /\ U.m_buckets = T.m_buckets /\ U.m_shifts = T.m_shifts
        /\ SameFrame(T, U) /\ size(U) = n /\ bucket_count(U) = bucket_count(T)
    BY <2>4, <2>5, Revalued DEF U
  <2>9. Allocated(U) /\ Sound(U, Indices(T))
    <3>1. Indices(T) \subseteq 0 .. size(U) - 1 /\ \A i \in Indices(T) : get_key(U, i) = get_key(T, i)
      BY <2>4, <2>6, <2>8 DEF get_key
    <3> QED BY <2>4, <2>8, <3>1, Transfer
  <2>10. Exact(U)
    BY <2>4, <2>8, <2>9 DEF Exact, Indices
  <2>11. Ready(U)
    BY <2>4, <2>8, <2>10, StaysReady DEF Ready
  <2>12. Assigned(T, U, idx, k, v)
    BY <2>8 DEF Assigned, vs
  <2> QED BY <2>2, <2>7, <2>11, <2>12 DEF s
<1> QED
  BY <1>4, <1>5

\* The values are some of the first i of c; and no key of these is missing.
Draws(U, c, i) == \A j \in 1 .. size(U) : \E l \in 1 .. i : U.m_values[j] = c[l]
Gathers(U, c, i) ==
  /\ \A j \in 1 .. size(U) : \E l \in 1 .. i : U.m_values[j] = c[l]
  /\ \A l \in 1 .. i : HasKey(U, c[l][1])

\* The tables of the rounds of insert(first, last), from an empty one: a key
\* is missing only if the table is full.
Inserting(c) ==
  [i \in 0 .. Len(c) |->
     {U \in Table : Ready(U) /\ Draws(U, c, i) /\ (Gathers(U, c, i) \/ size(U) = max_size)}]

\* One more value is inserted.
LEMMA InsertStep ==
  ASSUME HashOK, NEW c \in Seq(Key \X Val),
         NEW i \in 1 .. Len(c), NEW T \in Inserting(c)[i - 1]
  PROVE  emplace(T, c[i][1], c[i][2]).table \in Inserting(c)[i]
<1> DEFINE k == c[i][1]
           v == c[i][2]
           m == size(T)
           r == emplace(T, k, v)
<1>1. i - 1 \in 0 .. Len(c) /\ i \in 0 .. Len(c) /\ i - 1 < Len(c) /\ Len(c) \in Nat /\ i \in 1 .. i
  OBVIOUS
<1>2. /\ T \in Table /\ Ready(T) /\ Draws(T, c, i - 1)
      /\ Gathers(T, c, i - 1) \/ size(T) = max_size
  BY <1>1 DEF Inserting
<1>3. c[i] \in Key \X Val /\ k \in Key /\ v \in Val /\ c[i] = <<k, v>>
  OBVIOUS
<1>4. /\ m \in Nat /\ m = Len(T.m_values) /\ T.m_values \in Seq(Key \X Val) /\ max_size \in Nat
      /\ Indices(T) = 0 .. m - 1
  BY <1>2, ReadyIs, Widths
<1> HIDE DEF k, v, r, m
<1>5. Tries(T, k, v, r)
  BY <1>2, <1>3, EmplaceIs DEF r
<1>6. \A U, a : Result(U, a).table = U
  BY DEF Result
<1>9. Draws(T, c, i)
  <2>1. 1 .. i - 1 \subseteq 1 .. i
    OBVIOUS
  <2> QED BY <1>2, <2>1 DEF Draws
<1>7. CASE HasKey(T, k) /\ r = Result(T, "found")
  <2>1. Gathers(T, c, i) \/ size(T) = max_size
    <3>1. SUFFICES ASSUME Gathers(T, c, i - 1) PROVE Gathers(T, c, i)
      BY <1>2
    <3>2. \A l \in 1 .. i : HasKey(T, c[l][1])
      <4> TAKE l \in 1 .. i
      <4>1. l = i \/ l \in 1 .. i - 1
        OBVIOUS
      <4> QED BY <1>7, <3>1, <4>1 DEF Gathers, k
    <3> QED BY <1>9, <3>2 DEF Draws, Gathers
  <2>2. r.table = T
    BY <1>6, <1>7
  <2> QED BY <1>1, <1>2, <1>9, <2>1, <2>2 DEF Inserting, r, k, v
<1>10. CASE r = Result(T, "overflow") /\ size(T) = max_size
  <2>1. r.table = T
    BY <1>6, <1>10
  <2> QED BY <1>1, <1>2, <1>9, <1>10, <2>1 DEF Inserting, r, k, v
<1>8. CASE \E U : /\ r = Result(U, "inserted") /\ Ready(U)
                  /\ U.m_values = Append(T.m_values, <<k, v>>) /\ size(T) < max_size
  <2>1. Gathers(T, c, i - 1)
    BY <1>2, <1>4, <1>8 DEF m
  <2>2. PICK U : r = Result(U, "inserted") /\ Ready(U) /\ U.m_values = Append(T.m_values, <<k, v>>)
    BY <1>8
  <2>3. U \in Table /\ size(U) = m + 1 /\ U.m_values[m + 1] = c[i] /\ \A j \in 1 .. m : U.m_values[j] = T.m_values[j]
    <3>1. U \in Table /\ size(U) = Len(U.m_values)
      BY <2>2, ReadyIs
    <3> QED BY <1>3, <1>4, <2>2, <3>1
  <2>4. \A j \in 1 .. size(U) : \E l \in 1 .. i : U.m_values[j] = c[l]
    <3> TAKE j \in 1 .. size(U)
    <3>1. j \in 1 .. m \/ j = m + 1
      <4>1. m \in Nat /\ size(U) = m + 1
        BY <1>4, <2>3
      <4> QED BY <4>1
    <3>2. 1 .. i - 1 \subseteq 1 .. i
      OBVIOUS
    <3>3. \A x \in 1 .. m : \E l \in 1 .. i : T.m_values[x] = c[l]
      BY <2>1, <3>2 DEF Gathers, m
    <3> QED BY <1>1, <2>3, <3>1, <3>3
  <2>5. \A l \in 1 .. i : HasKey(U, c[l][1])
    <3> TAKE l \in 1 .. i
    <3>1. l = i \/ l \in 1 .. i - 1
      OBVIOUS
    <3>2. CASE l = i
      <4>1. m \in Indices(U) /\ get_key(U, m) = c[l][1]
        BY <1>4, <2>3, <3>2 DEF Indices, get_key
      <4> QED BY <4>1 DEF HasKey
    <3>3. CASE l \in 1 .. i - 1
      <4>1. PICK j \in Indices(T) : get_key(T, j) = c[l][1]
        BY <2>1, <3>3 DEF Gathers, HasKey
      <4>2. j \in Indices(U) /\ j + 1 \in 1 .. m
        <5>1. m \in Nat /\ size(U) = m + 1 /\ j \in 0 .. m - 1
          BY <1>4, <2>3
        <5> QED BY <5>1 DEF Indices
      <4>3. get_key(U, j) = c[l][1]
        BY <2>3, <4>1, <4>2 DEF get_key
      <4> QED BY <4>2, <4>3 DEF HasKey
    <3> QED BY <3>1, <3>2, <3>3
  <2>6. r.table = U
    BY <1>6, <2>2
  <2> QED BY <1>1, <2>2, <2>3, <2>4, <2>5, <2>6 DEF Inserting, Draws, Gathers, r, k, v
<1> QED
  BY <1>5, <1>7, <1>8, <1>10 DEF Tries, Adds

\* insert(first, last) into an empty table.
LEMMA InsertRangeIs ==
  ASSUME HashOK, NEW c \in Seq(Key \X Val), NEW T, Ready(T), size(T) = 0
  PROVE  LET U == InsertRange(T, c)
         IN /\ Ready(U) /\ Draws(U, c, Len(c))
            /\ Gathers(U, c, Len(c)) \/ size(U) = max_size
<1> DEFINE n == Len(c)
           X == Inserting(c)
           F == [i \in 1 .. n |-> [x \in X[i - 1] |-> emplace(x, c[i][1], c[i][2]).table]]
           Fixed(f) == f = [i \in 0 .. n |-> IF i = 0 THEN T ELSE emplace(f[i - 1], c[i][1], c[i][2]).table]
           f1 == CHOOSE f : Fixed(f)
<1>1. n \in Nat
  OBVIOUS
<1>2. T \in X[0]
  <2>1. T \in Table
    BY ReadyIs
  <2>2. Gathers(T, c, 0) /\ Draws(T, c, 0)
    BY DEF Gathers, Draws
  <2> QED BY <1>1, <2>1, <2>2 DEF Inserting
<1>3. ASSUME NEW i \in 1 .. n, NEW x \in X[i - 1] PROVE emplace(x, c[i][1], c[i][2]).table \in X[i]
  BY InsertStep
<1>4. LoopFits(n, X, F)
  BY <1>3 DEF LoopFits
<1>5. InsertRange(T, c) = f1[n]
  BY Zenon DEF InsertRange
<1> HIDE DEF n, X
<1>6. PICK g : LoopValues(n, X, F, T, g)
  <2> HIDE DEF F
  <2> QED BY <1>1, <1>2, <1>4, LoopRuns
<1>7. Fixed(g)
  <2>1. ASSUME NEW i \in 0 .. n, i # 0 PROVE F[i][g[i - 1]] = emplace(g[i - 1], c[i][1], c[i][2]).table
    <3>1. i - 1 \in 0 .. n /\ i \in 1 .. n
      BY <1>1, <2>1
    <3> QED BY <1>6, <3>1 DEF LoopValues
  <2> HIDE DEF F
  <2> QED BY <1>6, <2>1 DEF LoopValues
<1>8. Fixed(f1)
  <2> HIDE DEF Fixed
  <2> QED BY <1>7
<1> HIDE DEF f1
<1>9. f1[0] \in X[0]
  BY <1>1, <1>2, <1>8
<1>10. \A i \in 1 .. n : f1[i - 1] \in X[i - 1] => f1[i] \in X[i]
  <2> TAKE i \in 1 .. n
  <2>1. i \in 0 .. n /\ i # 0
    BY <1>1
  <2>2. f1[i] = emplace(f1[i - 1], c[i][1], c[i][2]).table
    BY <1>8, <2>1
  <2> QED BY <1>3, <2>2
<1> HIDE DEF Fixed
<1>11. f1[n] \in X[n]
  BY <1>1, <1>9, <1>10, LoopKeeps
<1>12. Ready(f1[n]) /\ Draws(f1[n], c, n) /\ (Gathers(f1[n], c, n) \/ size(f1[n]) = max_size)
  <2>1. n \in 0 .. n
    BY <1>1
  <2> QED BY <1>11, <2>1 DEF Inserting, X, n
<1> QED
  BY <1>5, <1>12 DEF n

----------------------------------------------------------------------------
(* Erasing several values.                                                 *)

\* Erasing a value of a table that is ready.
LEMMA ErasesOne ==
  ASSUME HashOK, NEW T, Ready(T), NEW idx \in Indices(T)
  PROVE  /\ Ready(erase(T, idx)) /\ Removed(T, erase(T, idx), idx) /\ erase(T, idx) \in Table
         /\ size(T) \in Nat \ {0}
<1> DEFINE U == erase(T, idx)
<1>1. Exact(T) /\ Framed(T)
  BY DEF Ready
<1>2. Exact(U) /\ Removed(T, U, idx) /\ size(T) \in Nat \ {0}
  BY <1>1, EraseOne
<1>3. bucket_count(T) \in Nat /\ size(T) <= bucket_count(T)
  BY ReadyIs
<1> HIDE DEF U
<1>4. size(U) <= bucket_count(U)
  BY <1>2, <1>3 DEF Removed, SameFrame
<1>5. SameFrame(T, U)
  BY <1>2 DEF Removed
<1>6. Ready(U)
  BY <1>1, <1>2, <1>4, <1>5, StaysReady
<1> QED
  BY <1>2, <1>6, ReadyIs DEF U

\* Where the value at j was, after w holes from first on were filled with the
\* last values of n.
Source(n, first, w, j) == IF first < j /\ j <= first + w THEN n - (j - first) + 1 ELSE j

\* The tables of the rounds of erase(first, last).
Erasing(T, first, holes, m) ==
  [i \in 0 .. m |->
     {U \in Table :
        /\ Ready(U) /\ size(U) = size(T) - i
        /\ \A j \in 1 .. size(T) - i :
             U.m_values[j] = T.m_values[Source(size(T), first, IF i <= holes THEN i ELSE holes, j)]}]

\* Which index is erased in round i.
Victim(first, last, holes, i) == IF i <= holes THEN first + i - 1 ELSE last + holes - i

\* The indices of a range, and how many holes are filled.
Span(n, first, last, holes) ==
  /\ n \in Nat /\ first \in 0 .. n /\ last \in 0 .. n /\ first <= last
  /\ holes = IF last - first <= n - last THEN last - first ELSE n - last

\* What the rounds do to the indices.
LEMMA Victims ==
  ASSUME NEW n, NEW first, NEW last, NEW holes, Span(n, first, last, holes), NEW i \in 1 .. last - first
  PROVE  LET w(x) == IF x <= holes THEN x ELSE holes
             idx == Victim(first, last, holes, i)
         IN /\ idx \in 0 .. n - (i - 1) - 1
            /\ n - (i - 1) \in 1 .. n - (i - 1)
            /\ \A j \in 1 .. n - i :
                 /\ j \in 1 .. n - (i - 1)
                 /\ j = idx + 1 =>
                      Source(n, first, w(i - 1), n - (i - 1)) = Source(n, first, w(i), j)
                 /\ j # idx + 1 => Source(n, first, w(i - 1), j) = Source(n, first, w(i), j)
<1>1. /\ n \in Nat /\ first \in Nat /\ last \in Nat /\ first <= last /\ last <= n /\ holes \in Nat
      /\ holes <= n - last /\ holes <= last - first /\ i \in Nat /\ 1 <= i /\ i <= last - first
      /\ i > holes => holes = n - last
  BY DEF Span
<1> QED
  BY <1>1 DEF Victim, Source

\* One more value is erased.
LEMMA EraseStep ==
  ASSUME HashOK, NEW T, NEW first, NEW last, NEW holes, Span(size(T), first, last, holes),
         NEW i \in 1 .. last - first, NEW U \in Erasing(T, first, holes, last - first)[i - 1]
  PROVE  erase(U, Victim(first, last, holes, i)) \in Erasing(T, first, holes, last - first)[i]
<1> DEFINE n == size(T)
           idx == Victim(first, last, holes, i)
           V == erase(U, idx)
           w(x) == IF x <= holes THEN x ELSE holes
<1>1. i - 1 \in 0 .. last - first /\ i \in 0 .. last - first /\ n \in Nat
  BY DEF Span
<1>2. /\ U \in Table /\ Ready(U) /\ size(U) = n - (i - 1)
      /\ \A j \in 1 .. n - (i - 1) : U.m_values[j] = T.m_values[Source(n, first, w(i - 1), j)]
  BY <1>1 DEF Erasing
<1>3. /\ idx \in 0 .. n - (i - 1) - 1 /\ n - (i - 1) \in 1 .. n - (i - 1)
      /\ \A j \in 1 .. n - i :
           /\ j \in 1 .. n - (i - 1)
           /\ j = idx + 1 => Source(n, first, w(i - 1), n - (i - 1)) = Source(n, first, w(i), j)
           /\ j # idx + 1 => Source(n, first, w(i - 1), j) = Source(n, first, w(i), j)
  BY Victims
<1>4. idx \in Indices(U)
  BY <1>2, <1>3 DEF Indices
<1> HIDE DEF idx, n
<1>5. Ready(V) /\ V \in Table /\ Removed(U, V, idx)
  BY <1>2, <1>4, ErasesOne
<1> HIDE DEF V
<1>6. n - (i - 1) - 1 = n - i
  BY <1>1
<1>7. size(V) = n - i
  BY <1>2, <1>5, <1>6 DEF Removed
<1>8. ASSUME NEW j \in 1 .. n - i PROVE V.m_values[j] = T.m_values[Source(n, first, w(i), j)]
  <2>1. V.m_values[j] = IF j = idx + 1 THEN U.m_values[n - (i - 1)] ELSE U.m_values[j]
    BY <1>2, <1>5, <1>6 DEF Removed
  <2> QED BY <1>2, <1>3, <2>1
<1> QED
  BY <1>1, <1>5, <1>7, <1>8 DEF Erasing, V, idx, n

\* The values that stay, where they were.
LEMMA Sources ==
  ASSUME NEW n, NEW first, NEW last, NEW holes, Span(n, first, last, holes)
  PROVE  LET m == last - first
             w == IF m <= holes THEN m ELSE holes
             S == (1 .. first) \cup (last + 1 .. n)
         IN /\ \A j \in 1 .. n - m : Source(n, first, w, j) \in S
            /\ \A s \in S : \E j \in 1 .. n - m : Source(n, first, w, j) = s
<1> DEFINE m == last - first
           w == IF m <= holes THEN m ELSE holes
           S == (1 .. first) \cup (last + 1 .. n)
<1>1. /\ n \in Nat /\ first \in Nat /\ last \in Nat /\ first <= last /\ last <= n
      /\ w = holes /\ holes = IF m <= n - last THEN m ELSE n - last
  BY DEF Span
<1>2. \A j \in 1 .. n - m : Source(n, first, w, j) \in S
  BY <1>1 DEF Source
<1>3. ASSUME NEW s \in S PROVE \E j \in 1 .. n - m : Source(n, first, w, j) = s
  <2>1. CASE s \in 1 .. first
    <3>1. s \in 1 .. n - m /\ Source(n, first, w, s) = s
      BY <1>1, <2>1 DEF Source
    <3> QED BY <3>1
  <2>2. CASE s \in last + 1 .. n /\ n - s + 1 <= holes
    <3> DEFINE j == first + (n - s + 1)
    <3>1. j \in 1 .. n - m /\ Source(n, first, w, j) = s
      BY <1>1, <2>2 DEF Source
    <3> QED BY <3>1
  <2>3. CASE s \in last + 1 .. n /\ ~(n - s + 1 <= holes)
    <3>1. s \in 1 .. n - m /\ Source(n, first, w, s) = s
      BY <1>1, <2>3 DEF Source
    <3> QED BY <3>1
  <2> QED BY <2>1, <2>2, <2>3
<1> QED
  BY <1>2, <1>3

\* erase(first, last) erases these and no other.
LEMMA EraseRangeIs ==
  ASSUME HashOK, NEW T, Ready(T), NEW first \in 0 .. size(T), NEW last \in 0 .. size(T), first <= last
  PROVE  /\ Ready(EraseRange(T, first, last))
         /\ Range(EraseRange(T, first, last).m_values)
              = {T.m_values[i] : i \in (1 .. first) \cup (last + 1 .. size(T))}
<1> DEFINE n == last - first
           h == Min({last - first, size(T) - last})
           X == Erasing(T, first, h, n)
           G(t, i) == erase(t, IF i <= h THEN first + i - 1 ELSE last + h - i)
           F == [i \in 1 .. n |-> [x \in X[i - 1] |-> G(x, i)]]
           Fixed(f) == f = [i \in 0 .. n |-> IF i = 0 THEN T ELSE G(f[i - 1], i)]
           f1 == CHOOSE f : Fixed(f)
<1>1. n \in Nat /\ size(T) \in Nat /\ first \in Nat /\ last \in Nat /\ size(T) - last \in Nat
  BY ReadyIs
<1>2. EraseRange(T, first, last) = f1[n]
  BY Zenon DEF EraseRange
<1>3. Span(size(T), first, last, h)
  <2>1. h = IF n <= size(T) - last THEN n ELSE size(T) - last
    BY <1>1, MinMax
  <2> HIDE DEF h
  <2> QED BY <1>1, <2>1 DEF Span
<1> HIDE DEF h
<1>4. h \in Nat
  BY <1>1, <1>3 DEF Span
<1>5. T \in X[0]
  <2>1. T \in Table /\ size(T) = size(T) - 0 /\ 0 <= h /\ 0 \in 0 .. n
    BY <1>1, <1>4, ReadyIs
  <2>2. \A j \in 1 .. size(T) - 0 : Source(size(T), first, 0, j) = j
    BY <1>1 DEF Source
  <2> HIDE DEF n
  <2> QED BY <2>1, <2>2 DEF Erasing
<1>6. ASSUME NEW i \in 1 .. n, NEW x \in X[i - 1] PROVE G(x, i) \in X[i]
  BY <1>3, EraseStep DEF Victim
<1> HIDE DEF X, G
<1>7. LoopFits(n, X, F)
  BY <1>6 DEF LoopFits
<1> HIDE DEF n
<1>8. PICK g : LoopValues(n, X, F, T, g)
  <2> HIDE DEF F
  <2> QED BY <1>1, <1>5, <1>7, LoopRuns
<1>9. Fixed(g)
  <2>1. ASSUME NEW i \in 0 .. n, i # 0 PROVE F[i][g[i - 1]] = G(g[i - 1], i)
    <3>1. i - 1 \in 0 .. n /\ i \in 1 .. n
      BY <1>1, <2>1
    <3> QED BY <1>8, <3>1 DEF LoopValues
  <2> HIDE DEF F
  <2> QED BY <1>8, <2>1 DEF LoopValues
<1>10. Fixed(f1)
  <2> HIDE DEF Fixed
  <2> QED BY <1>9
<1> HIDE DEF f1
<1>11. f1[0] \in X[0]
  BY <1>1, <1>5, <1>10
<1>12. \A i \in 1 .. n : f1[i - 1] \in X[i - 1] => f1[i] \in X[i]
  <2> TAKE i \in 1 .. n
  <2>1. i \in 0 .. n /\ i # 0
    BY <1>1
  <2>2. f1[i] = G(f1[i - 1], i)
    BY <1>10, <2>1
  <2> QED BY <1>6, <2>2
<1> HIDE DEF Fixed
<1>13. f1[n] \in X[n]
  BY <1>1, <1>11, <1>12, LoopKeeps
<1> DEFINE U == f1[n]
           w == IF n <= h THEN n ELSE h
           S == (1 .. first) \cup (last + 1 .. size(T))
<1>14. /\ Ready(U) /\ size(U) = size(T) - n
       /\ \A j \in 1 .. size(T) - n : U.m_values[j] = T.m_values[Source(size(T), first, w, j)]
  <2>1. n \in 0 .. n
    BY <1>1
  <2> QED BY <1>13, <2>1 DEF Erasing, X
<1>15. /\ \A j \in 1 .. size(T) - n : Source(size(T), first, w, j) \in S
       /\ \A s \in S : \E j \in 1 .. size(T) - n : Source(size(T), first, w, j) = s
  BY <1>3, Sources DEF n
<1> HIDE DEF U, w, S
<1>16. Range(U.m_values) = {U.m_values[j] : j \in 1 .. size(T) - n}
  <2>1. U.m_values \in Seq(Key \X Val) /\ Len(U.m_values) = size(T) - n
    BY <1>14, ReadyIs
  <2>2. DOMAIN U.m_values = 1 .. size(T) - n
    BY <2>1
  <2> QED BY <2>2 DEF Range
<1>17. Range(U.m_values) = {T.m_values[s] : s \in S}
  BY <1>14, <1>15, <1>16
<1> QED
  BY <1>2, <1>14, <1>17 DEF U, S

\* After the last i of T were looked at: the first values are untouched, and
\* behind them are those of the last that have keys outside of S.
Sifted(T, S, i, U) ==
  LET p == size(T) - i
  IN /\ Ready(U) /\ p <= size(U)
     /\ \A j \in 1 .. p : U.m_values[j] = T.m_values[j]
     /\ \A j \in p + 1 .. size(U) :
          \E s \in p + 1 .. size(T) : U.m_values[j] = T.m_values[s] /\ T.m_values[s][1] \notin S
     /\ \A s \in p + 1 .. size(T) : T.m_values[s][1] \notin S =>
          \E j \in p + 1 .. size(U) : U.m_values[j] = T.m_values[s]

\* The tables of the rounds of erase_if().
Sifting(T, S) == [i \in 0 .. size(T) |-> {U \in Table : Sifted(T, S, i, U)}]

\* One round of erase_if().
LEMMA SiftStep ==
  ASSUME HashOK, NEW T, size(T) \in Nat, NEW S, NEW i \in 1 .. size(T), NEW t \in Sifting(T, S)[i - 1]
  PROVE  (IF get_key(t, size(T) - i) \in S THEN erase(t, size(T) - i) ELSE t) \in Sifting(T, S)[i]
<1> DEFINE n == size(T)
           z == size(t)
           p == n - i
<1>1. /\ i - 1 \in 0 .. n /\ i \in 0 .. n /\ p \in Nat /\ p + 1 <= n /\ n - (i - 1) = p + 1 /\ n \in Nat
      /\ p = n - i
  OBVIOUS
<1>2. t \in Table /\ Sifted(T, S, i - 1, t)
  BY <1>1 DEF Sifting
<1>3. /\ Ready(t) /\ p + 1 <= z
      /\ \A j \in 1 .. p + 1 : t.m_values[j] = T.m_values[j]
      /\ \A j \in p + 2 .. z :
           \E s \in p + 2 .. n : t.m_values[j] = T.m_values[s] /\ T.m_values[s][1] \notin S
      /\ \A s \in p + 2 .. n : T.m_values[s][1] \notin S => \E j \in p + 2 .. z : t.m_values[j] = T.m_values[s]
  <2>1. (p + 1) + 1 = p + 2
    BY <1>1
  <2> QED BY <1>1, <1>2, <2>1 DEF Sifted
<1>4. z \in Nat
  BY <1>3, ReadyIs
<1> HIDE DEF n, z, p
<1>5. p + 1 \in 1 .. p + 1 /\ get_key(t, p) = T.m_values[p + 1][1]
  BY <1>1, <1>3 DEF get_key
<1>6. CASE get_key(t, p) \notin S
  <2>1. p <= z /\ \A j \in 1 .. p : t.m_values[j] = T.m_values[j]
    BY <1>1, <1>3, <1>4
  <2>2. ASSUME NEW j \in p + 1 .. z
        PROVE  \E s \in p + 1 .. n : t.m_values[j] = T.m_values[s] /\ T.m_values[s][1] \notin S
    <3>1. CASE j = p + 1
      <4>1. p + 1 \in p + 1 .. n
        BY <1>1
      <4> QED BY <1>3, <1>5, <1>6, <3>1, <4>1
    <3>2. CASE j # p + 1
      <4>1. j \in p + 2 .. z /\ p + 2 .. n \subseteq p + 1 .. n
        BY <1>1, <1>4, <3>2
      <4> QED BY <1>3, <4>1
    <3> QED BY <3>1, <3>2
  <2>3. ASSUME NEW s \in p + 1 .. n, T.m_values[s][1] \notin S
        PROVE  \E j \in p + 1 .. z : t.m_values[j] = T.m_values[s]
    <3>1. CASE s = p + 1
      <4>1. p + 1 \in p + 1 .. z
        BY <1>1, <1>3, <1>4
      <4> QED BY <1>3, <1>5, <3>1, <4>1
    <3>2. CASE s # p + 1
      <4>1. s \in p + 2 .. n /\ p + 2 .. z \subseteq p + 1 .. z
        BY <1>1, <1>4, <3>2
      <4> QED BY <1>3, <2>3, <4>1
    <3> QED BY <3>1, <3>2
  <2>4. Sifted(T, S, i, t)
    BY <1>1, <1>3, <2>1, <2>2, <2>3 DEF Sifted, n, z, p
  <2> QED BY <1>1, <1>2, <1>6, <2>4 DEF Sifting, n, p
<1>7. CASE get_key(t, p) \in S
  <2> DEFINE V == erase(t, p)
  <2>1. p \in Indices(t)
    <3>1. p \in 0 .. z - 1
      BY <1>1, <1>3, <1>4
    <3> QED BY <3>1 DEF Indices, z
  <2>2. Ready(V) /\ Removed(t, V, p) /\ V \in Table
    BY <1>3, <2>1, ErasesOne
  <2> HIDE DEF V
  <2>3. /\ size(V) = z - 1
        /\ \A j \in 1 .. z - 1 : V.m_values[j] = IF j = p + 1 THEN t.m_values[z] ELSE t.m_values[j]
    BY <2>2 DEF Removed, z
  <2>4. p <= size(V) /\ \A j \in 1 .. p : V.m_values[j] = T.m_values[j]
    <3>1. \A j \in 1 .. p : j \in 1 .. z - 1 /\ j # p + 1 /\ j \in 1 .. p + 1
      BY <1>1, <1>3, <1>4
    <3>2. p <= z - 1
      BY <1>1, <1>3, <1>4
    <3> QED BY <1>3, <2>3, <3>1, <3>2
  <2>5. ASSUME NEW j \in p + 1 .. size(V)
        PROVE  \E s \in p + 1 .. n : V.m_values[j] = T.m_values[s] /\ T.m_values[s][1] \notin S
    <3> DEFINE x == IF j = p + 1 THEN z ELSE j
    <3>1. j \in 1 .. z - 1 /\ x \in p + 2 .. z /\ p + 2 .. n \subseteq p + 1 .. n
      BY <1>1, <1>4, <2>3
    <3>2. V.m_values[j] = t.m_values[x]
      BY <2>3, <3>1
    <3> QED BY <1>3, <3>1, <3>2
  <2>6. ASSUME NEW s \in p + 1 .. n, T.m_values[s][1] \notin S
        PROVE  \E j \in p + 1 .. size(V) : V.m_values[j] = T.m_values[s]
    <3>1. s \in p + 2 .. n
      <4>1. s # p + 1
        BY <1>5, <1>7, <2>6
      <4> QED BY <1>1, <4>1
    <3>2. PICK x \in p + 2 .. z : t.m_values[x] = T.m_values[s]
      BY <1>3, <2>6, <3>1
    <3> DEFINE j == IF x = z THEN p + 1 ELSE x
    <3>3. /\ j \in p + 1 .. z - 1 /\ j \in 1 .. z - 1
          /\ IF j = p + 1 THEN x = z ELSE x = j
      BY <1>1, <1>4
    <3>4. V.m_values[j] = t.m_values[x]
      <4> HIDE DEF j
      <4> QED BY <2>3, <3>3
    <3> QED BY <2>3, <3>2, <3>3, <3>4
  <2>7. Sifted(T, S, i, V)
    BY <1>1, <2>2, <2>4, <2>5, <2>6 DEF Sifted, n, p
  <2> QED BY <1>1, <1>7, <2>2, <2>7 DEF Sifting, n, p, V
<1> QED
  BY <1>6, <1>7

\* erase_if() erases the values with keys in S and no other.
LEMMA EraseIfIs ==
  ASSUME HashOK, NEW T, Ready(T), NEW S
  PROVE  /\ Ready(erase_if(T, S))
         /\ Range(erase_if(T, S).m_values) = {e \in Range(T.m_values) : e[1] \notin S}
<1> DEFINE n == size(T)
           X == Sifting(T, S)
           G(t, i) == IF get_key(t, n - i) \in S THEN erase(t, n - i) ELSE t
           F == [i \in 1 .. n |-> [x \in X[i - 1] |-> G(x, i)]]
           Fixed(f) == f = [i \in 0 .. n |-> IF i = 0 THEN T ELSE G(f[i - 1], i)]
           f1 == CHOOSE f : Fixed(f)
<1>1. n \in Nat /\ T \in Table
  BY ReadyIs
<1>2. erase_if(T, S) = f1[n]
  BY Zenon DEF erase_if
<1>3. T \in X[0]
  <2>1. n - 0 = n /\ n + 1 .. n = {} /\ n <= n /\ 0 \in 0 .. n
    BY <1>1
  <2>2. Sifted(T, S, 0, T)
    BY <2>1 DEF Sifted
  <2> QED BY <1>1, <2>1, <2>2 DEF Sifting
<1>4. ASSUME NEW i \in 1 .. n, NEW x \in X[i - 1] PROVE G(x, i) \in X[i]
  BY <1>1, SiftStep
<1> HIDE DEF X, G
<1>7. LoopFits(n, X, F)
  BY <1>4 DEF LoopFits
<1> HIDE DEF n
<1>8. PICK g : LoopValues(n, X, F, T, g)
  <2> HIDE DEF F
  <2> QED BY <1>1, <1>3, <1>7, LoopRuns
<1>9. Fixed(g)
  <2>1. ASSUME NEW i \in 0 .. n, i # 0 PROVE F[i][g[i - 1]] = G(g[i - 1], i)
    <3>1. i - 1 \in 0 .. n /\ i \in 1 .. n
      BY <1>1, <2>1
    <3> QED BY <1>8, <3>1 DEF LoopValues
  <2> HIDE DEF F
  <2> QED BY <1>8, <2>1 DEF LoopValues
<1>10. Fixed(f1)
  <2> HIDE DEF Fixed
  <2> QED BY <1>9
<1> HIDE DEF f1
<1>11. f1[0] \in X[0]
  BY <1>1, <1>3, <1>10
<1>12. \A i \in 1 .. n : f1[i - 1] \in X[i - 1] => f1[i] \in X[i]
  <2> TAKE i \in 1 .. n
  <2>1. i \in 0 .. n /\ i # 0
    BY <1>1
  <2>2. f1[i] = G(f1[i - 1], i)
    BY <1>10, <2>1
  <2> QED BY <1>4, <2>2
<1> HIDE DEF Fixed
<1>13. f1[n] \in X[n]
  BY <1>1, <1>11, <1>12, LoopKeeps
<1> DEFINE U == f1[n]
<1>14. /\ Ready(U)
       /\ \A j \in 1 .. size(U) : \E s \in 1 .. n : U.m_values[j] = T.m_values[s] /\ T.m_values[s][1] \notin S
       /\ \A s \in 1 .. n : T.m_values[s][1] \notin S => \E j \in 1 .. size(U) : U.m_values[j] = T.m_values[s]
  <2>1. n \in 0 .. n /\ n - n = 0 /\ 0 + 1 = 1
    BY <1>1
  <2>2. Sifted(T, S, n, U)
    BY <1>13, <2>1 DEF Sifting, X, n
  <2> HIDE DEF U
  <2> QED BY <2>1, <2>2 DEF Sifted, n
<1> HIDE DEF U
<1>15. /\ Range(U.m_values) = {U.m_values[j] : j \in 1 .. size(U)}
       /\ Range(T.m_values) = {T.m_values[j] : j \in 1 .. n}
  <2>1. /\ U.m_values \in Seq(Key \X Val) /\ Len(U.m_values) = size(U)
        /\ T.m_values \in Seq(Key \X Val) /\ Len(T.m_values) = n
    BY <1>14, ReadyIs DEF n
  <2>2. DOMAIN U.m_values = 1 .. size(U) /\ DOMAIN T.m_values = 1 .. n
    BY <2>1
  <2> QED BY <2>2 DEF Range
<1>16. Range(U.m_values) = {e \in Range(T.m_values) : e[1] \notin S}
  BY <1>14, <1>15
<1> QED
  BY <1>2, <1>14, <1>16 DEF U

----------------------------------------------------------------------------
(* The other operations on a single value.                                 *)

\* erase(key).
LEMMA ErasesKey ==
  ASSUME HashOK, NEW T, Ready(T), NEW k \in Key
  PROVE  \/ ~HasKey(T, k) /\ do_erase_key(T, k) = Result(T, "absent")
         \/ \E idx \in Indices(T) : \E U :
              /\ get_key(T, idx) = k /\ do_erase_key(T, k) = Result(U, "erased")
              /\ Ready(U) /\ Removed(T, U, idx)
<1>1. Exact(T) /\ Framed(T)
  BY DEF Ready
<1>2. CASE ~HasKey(T, k)
  <2>1. \A idx \in Indices(T) : get_key(T, idx) # k
    BY <1>2 DEF HasKey
  <2> QED BY <1>1, <1>2, <2>1, EraseKeyIs
<1>3. CASE HasKey(T, k)
  <2>1. PICK idx \in Indices(T) : get_key(T, idx) = k
    BY <1>3 DEF HasKey
  <2>2. PICK p : Holds(T, p, idx) /\ do_erase_key(T, k) = Result(do_erase(T, p), "erased")
    BY <1>1, <2>1, EraseKeyIs
  <2> DEFINE U == do_erase(T, p)
  <2>3. Exact(U) /\ Removed(T, U, idx) /\ size(T) \in Nat \ {0}
    BY <1>1, <2>2, DoErase
  <2>4. bucket_count(T) \in Nat /\ size(T) <= bucket_count(T)
    BY ReadyIs
  <2> HIDE DEF U
  <2>5. size(U) <= bucket_count(U) /\ SameFrame(T, U)
    BY <2>3, <2>4 DEF Removed, SameFrame
  <2>6. Ready(U)
    BY <1>1, <2>3, <2>5, StaysReady
  <2> QED BY <2>1, <2>2, <2>3, <2>6 DEF U
<1> QED
  BY <1>2, <1>3

\* The value at idx has another key.
Rekeyed(T, U, idx, k) == U.m_values = [T.m_values EXCEPT ![idx + 1][1] = k]

\* replace_key().
LEMMA ReplacesKey ==
  ASSUME HashOK, NEW T, Ready(T), NEW idx \in Indices(T), NEW k \in Key
  PROVE  \/ HasKey(T, k) /\ replace_key(T, idx, k) = Result(T, "found")
         \/ ~HasKey(T, k) /\ \E U : /\ replace_key(T, idx, k) = Result(U, "rekeyed") /\ Ready(U)
                                    /\ Rekeyed(T, U, idx, k)
<1>1. Exact(T) /\ Framed(T)
  BY DEF Ready
<1>2. CASE HasKey(T, k)
  <2>1. replace_key(T, idx, k) = Result(T, "found")
    BY <1>1, <1>2, ReplaceKeyIs DEF HasKey
  <2> QED BY <1>2, <2>1
<1>3. CASE ~HasKey(T, k)
  <2>1. PICK U : /\ replace_key(T, idx, k) = Result(U, "rekeyed")
                 /\ Exact(U) /\ SameFrame(T, U)
                 /\ U.m_values = [T.m_values EXCEPT ![idx + 1][1] = k]
    BY <1>1, <1>3, ReplaceKeyIs DEF HasKey
  <2>2. /\ bucket_count(T) \in Nat /\ size(T) <= bucket_count(T) /\ T.m_values \in Seq(Key \X Val)
        /\ size(T) = Len(T.m_values)
    BY ReadyIs
  <2>3. U.m_values \in Seq(Key \X Val)
    BY <2>1 DEF Exact, Allocated, Table
  <2>4. size(U) = size(T)
    <3> DEFINE e == [T.m_values[idx + 1] EXCEPT ![1] = k]
    <3>1. U.m_values = [T.m_values EXCEPT ![idx + 1] = e]
      BY <2>1
    <3> HIDE DEF e
    <3>2. DOMAIN U.m_values = DOMAIN T.m_values
      BY <3>1
    <3> QED BY <2>2, <2>3, <3>2, LenProperties DEF size
  <2>5. size(U) <= bucket_count(U)
    BY <2>1, <2>2, <2>4 DEF SameFrame
  <2>6. Ready(U)
    BY <1>1, <2>1, <2>5, StaysReady
  <2>7. Rekeyed(T, U, idx, k)
    BY <2>1 DEF Rekeyed
  <2> QED BY <1>3, <2>1, <2>6, <2>7
<1> QED
  BY <1>2, <1>3

----------------------------------------------------------------------------
(* Operations on the whole table.                                          *)

\* The parts of a table without buckets.
LEMMA BareIs ==
  ASSUME NEW T, Bare(T)
  PROVE  /\ T \in Table /\ T.m_values \in Seq(Key \X Val) /\ size(T) = Len(T.m_values) /\ size(T) \in Nat
         /\ Distinct(T) /\ bucket_count(T) = 0 /\ DOMAIN T.m_buckets = {} /\ size(T) <= max_size
         /\ T.m_max_load_factor \in Percents \cup {default_max_load_factor}
         /\ T.m_shifts \in 0 .. initial_shifts /\ T.m_max_bucket_capacity = 0
<1>1. /\ T \in Table /\ bucket_count(T) = 0 /\ Distinct(T) /\ size(T) <= max_size
      /\ T.m_max_load_factor \in Percents \cup {default_max_load_factor}
      /\ T.m_shifts \in 0 .. initial_shifts
  BY DEF Bare, Framed
<1>2. T.m_values \in Seq(Key \X Val)
  BY <1>1 DEF Table
<1>3. PICK n \in Nat : T.m_buckets \in [0 .. n - 1 -> Bucket]
  BY <1>1 DEF Table
<1>4. DOMAIN T.m_buckets = {}
  <2>1. DOMAIN T.m_buckets = 0 .. n - 1
    BY <1>3
  <2>2. Cardinality(0 .. n - 1) = IF 0 > n - 1 THEN 0 ELSE (n - 1) - 0 + 1
    BY FS_Interval
  <2>3. n = 0
    BY <1>1, <2>1, <2>2 DEF bucket_count
  <2> QED BY <2>1, <2>3
<1>5. T.m_max_bucket_capacity = 0
  <2>1. 0 # max_bucket_count
    BY Widths
  <2>2. Load(0, T.m_max_load_factor) = 0
    BY <1>1, LoadLess
  <2> QED BY <1>1, <2>1, <2>2 DEF Bare, Framed
<1> QED
  BY <1>1, <1>2, <1>4, <1>5 DEF size

\* A table without buckets, from its parts.
LEMMA BareFrom ==
  ASSUME NEW T \in Table, DOMAIN T.m_buckets = {}, T.m_shifts \in 0 .. initial_shifts,
         T.m_max_load_factor \in Percents \cup {default_max_load_factor},
         T.m_max_bucket_capacity = 0, size(T) <= max_size, Distinct(T)
  PROVE  Bare(T)
<1>1. bucket_count(T) = 0
  BY FS_EmptySet DEF bucket_count
<1>2. 0 # max_bucket_count /\ Load(0, T.m_max_load_factor) = 0
  BY Widths, LoadLess
<1> QED
  BY <1>1, <1>2 DEF Bare, Framed

\* No values have different keys.
LEMMA NoValues ==
  ASSUME NEW T, T.m_values = << >>
  PROVE  size(T) = 0 /\ Indices(T) = {} /\ Distinct(T)
<1>1. size(T) = 0
  BY DEF size
<1> QED
  BY <1>1 DEF Indices, Distinct

\* A frame with vacant buckets for no value is ready.
LEMMA ReadyEmpty ==
  ASSUME NEW T, Framed(T), Allocated(T), AllVacant(T), T.m_values = << >>
  PROVE  Ready(T) /\ size(T) = 0
<1>1. size(T) = 0 /\ Indices(T) = {}
  BY NoValues
<1>2. Sound(T, {})
  BY NoneYet
<1>3. bucket_count(T) \in Nat
  BY Buckets
<1> QED
  BY <1>1, <1>2, <1>3 DEF Ready, Exact

\* clear().
LEMMA ClearIs ==
  ASSUME NEW T, Ready(T) \/ Bare(T)
  PROVE  /\ Ready(T) => Ready(clear(T))
         /\ Bare(T) => Bare(clear(T))
         /\ clear(T).m_values = << >>
<1> DEFINE E == [T EXCEPT !.m_values = << >>]
           U == clear_buckets(E)
<1>1. T \in Table /\ << >> \in Seq(Key \X Val)
  BY ReadyIs, BareIs
<1>2. clear(T) = U
  BY DEF clear
<1>3. /\ E \in Table /\ E.m_values = << >> /\ E.m_buckets = T.m_buckets /\ E.m_shifts = T.m_shifts
      /\ SameFrame(T, E)
  BY <1>1, Revalued
<1> HIDE DEF E
<1>4. ASSUME Ready(T) PROVE Ready(U) /\ U.m_values = << >>
  <2>1. Allocated(T) /\ Framed(T)
    BY <1>4, ReadyIs DEF Ready
  <2>2. Allocated(E)
    BY <1>3, <2>1 DEF Allocated, SameFrame
  <2>3. Rebucketed(E, U) /\ AllVacant(U)
    BY <2>2, ClearedIs
  <2> HIDE DEF U
  <2>4. Allocated(U) /\ U \in Table /\ U.m_values = << >>
    BY <1>3, <2>3 DEF Rebucketed, Allocated
  <2>5. Framed(U)
    BY <1>3, <2>1, <2>3, <2>4 DEF Framed, Rebucketed, SameFrame
  <2> QED BY <2>3, <2>4, <2>5, ReadyEmpty
<1>5. ASSUME Bare(T) PROVE Bare(U) /\ U.m_values = << >>
  <2>1. /\ DOMAIN T.m_buckets = {} /\ T.m_max_load_factor \in Percents \cup {default_max_load_factor}
        /\ T.m_shifts \in 0 .. initial_shifts /\ T.m_max_bucket_capacity = 0
    BY <1>5, BareIs
  <2> DEFINE B == [b \in DOMAIN E.m_buckets |-> Vacant]
  <2>2. B \in UNION {[0 .. n - 1 -> Bucket] : n \in Nat} /\ DOMAIN B = {}
    <3>1. 0 .. 0 - 1 = {} /\ 0 \in Nat
      OBVIOUS
    <3>2. DOMAIN E.m_buckets = 0 .. 0 - 1
      BY <1>3, <2>1, <3>1
    <3>3. B \in [0 .. 0 - 1 -> Bucket]
      BY <3>2, <3>1
    <3> QED BY <3>1, <3>2, <3>3
  <2>3. U = [E EXCEPT !.m_buckets = B]
    BY DEF clear_buckets
  <2> HIDE DEF B, U
  <2>4. /\ U \in Table /\ U.m_values = << >> /\ U.m_buckets = B /\ U.m_shifts = E.m_shifts
        /\ U.m_max_load_factor = E.m_max_load_factor
        /\ U.m_max_bucket_capacity = E.m_max_bucket_capacity
    BY <1>3, <2>2, <2>3 DEF Table
  <2>5. size(U) <= max_size /\ Distinct(U)
    BY <2>4, NoValues, Widths
  <2> QED BY <1>3, <2>1, <2>2, <2>4, <2>5, BareFrom DEF SameFrame
<1> QED
  BY <1>2, <1>4, <1>5

\* A size the maximum number of buckets can hold has a shift, and its buckets
\* hold it.
LEMMA ShiftsFor ==
  ASSUME NEW T, T.m_max_load_factor \in Percents \cup {default_max_load_factor}, NEW s \in Nat,
         Load(max_bucket_count, T.m_max_load_factor) >= s
  PROVE  LET shifts == calc_shifts_for_size(T, s)
         IN shifts \in 0 .. initial_shifts /\ s <= calc_num_buckets(shifts)
<1> DEFINE ml == T.m_max_load_factor
           G == {x \in 0 .. initial_shifts : Load(calc_num_buckets(x), ml) >= s}
           S == {0} \cup G
           m == Max(S)
<1>1. initial_shifts \in Nat /\ 0 \in 0 .. initial_shifts
  BY Widths
<1>2. calc_num_buckets(0) = max_bucket_count
  <2>1. /\ HashBits - 0 = HashBits /\ HashBits \in Nat /\ IndexBits \in Nat /\ IndexBits <= HashBits
        /\ max_bucket_count \in Nat
    BY Widths
  <2>2. Power[IndexBits] <= Power[HashBits] /\ Power[HashBits] \in Nat /\ Power[IndexBits] \in Nat
    BY <2>1, PowersGrow, Powers
  <2>3. calc_num_buckets(0) = IF Power[HashBits - 0] < max_bucket_count THEN Power[HashBits - 0]
                              ELSE max_bucket_count
    BY <1>1, Counts
  <2>4. max_bucket_count = Power[IndexBits]
    BY DEF max_bucket_count, max_size
  <2> QED BY <2>1, <2>2, <2>3, <2>4
<1>3. S = G
  BY <1>1, <1>2
<1>4. S \subseteq 0 .. initial_shifts /\ 0 \in S
  BY <1>1
<1> HIDE DEF S
<1>5. m \in S
  <2> DEFINE R == {initial_shifts - x : x \in S}
  <2>1. R \subseteq Nat /\ R # {}
    BY <1>1, <1>4
  <2>2. PICK y \in R : \A z \in R : y <= z
    <3> HIDE DEF R
    <3> QED BY <2>1, LeastNat
  <2>3. PICK x \in S : y = initial_shifts - x
    OBVIOUS
  <2>4. \A z \in S : x >= z
    <3> TAKE z \in S
    <3>1. initial_shifts - x <= initial_shifts - z
      BY <2>2, <2>3
    <3>2. x \in Int /\ z \in Int
      BY <1>1, <1>4
    <3> QED BY <1>1, <3>1, <3>2
  <2> QED BY <2>4 DEF Max
<1> HIDE DEF m
<1>6. m \in 0 .. initial_shifts /\ Load(calc_num_buckets(m), ml) >= s
  BY <1>3, <1>5
<1>7. calc_num_buckets(m) \in Nat
  BY <1>6, Counts
<1>8. Load(calc_num_buckets(m), ml) \in Nat /\ Load(calc_num_buckets(m), ml) <= calc_num_buckets(m)
  BY <1>7, LoadLess
<1>9. s <= calc_num_buckets(m)
  BY <1>6, <1>7, <1>8
<1>10. calc_shifts_for_size(T, s) = m
  BY DEF calc_shifts_for_size, m, S
<1> QED
  BY <1>6, <1>9, <1>10

\* rehash() and reserve(), of sizes that fit.
LEMMA RehashIs ==
  ASSUME HashOK, NEW T, T \in Table, Distinct(T), NEW n \in Nat, T.m_shifts \in 0 .. initial_shifts,
         T.m_max_load_factor \in Percents \cup {default_max_load_factor},
         Load(max_bucket_count, T.m_max_load_factor) >= Max({n, size(T)})
  PROVE  /\ \/ rehash(T, n) = T
            \/ Ready(rehash(T, n)) /\ rehash(T, n).m_values = T.m_values
         /\ \/ reserve(T, n) = T /\ bucket_count(T) # 0
            \/ Ready(reserve(T, n)) /\ reserve(T, n).m_values = T.m_values
<1> DEFINE m == Max({n, size(T)})
           shifts == calc_shifts_for_size(T, m)
<1>1. size(T) \in Nat
  <2>1. T.m_values \in Seq(Key \X Val)
    BY DEF Table
  <2> QED BY <2>1 DEF size
<1>2. m \in Nat /\ size(T) <= m
  <2>1. m = IF n <= size(T) THEN size(T) ELSE n
    <3>1. n \in Int /\ size(T) \in Int
      BY <1>1
    <3> QED BY <3>1, MinMax, Zenon
  <2> HIDE DEF m
  <2> QED BY <1>1, <2>1
<1> HIDE DEF m
<1>3. shifts \in 0 .. initial_shifts /\ m <= calc_num_buckets(shifts)
  BY <1>2, ShiftsFor DEF m
<1>4. rehash(T, n) = IF shifts # T.m_shifts THEN Resized(T, shifts) ELSE T
  BY DEF rehash, m
<1>5. reserve(T, n) = IF bucket_count(T) = 0 \/ shifts < T.m_shifts THEN Resized(T, shifts) ELSE T
  BY DEF reserve, m
<1> HIDE DEF shifts
<1>6. calc_num_buckets(shifts) \in Nat
  BY <1>3, Counts
<1>7. size(T) <= calc_num_buckets(shifts)
  BY <1>1, <1>2, <1>3, <1>6
<1>8. Ready(Resized(T, shifts)) /\ Resized(T, shifts).m_values = T.m_values
  BY <1>3, <1>7, ResizedIs
<1> QED
  BY <1>4, <1>5, <1>8

\* The maximum load factor is set.
LEMMA MaxLoadFactorIs ==
  ASSUME NEW T, Ready(T) \/ Bare(T), NEW ml \in Percents
  PROVE  LET U == max_load_factor(T, ml) IN (Ready(U) \/ Bare(U)) /\ U.m_values = T.m_values
<1> DEFINE c == IF bucket_count(T) # max_bucket_count THEN Load(bucket_count(T), ml)
                ELSE T.m_max_bucket_capacity
           U == [T EXCEPT !.m_max_load_factor = ml, !.m_max_bucket_capacity = c]
<1>1. T \in Table /\ Framed(T) /\ bucket_count(T) \in Nat
  BY ReadyIs, BareIs DEF Ready, Bare
<1>2. Load(bucket_count(T), ml) \in Nat /\ ml \in Nat
  BY <1>1, LoadLess
<1>3. c \in Nat
  BY <1>1, <1>2 DEF Table
<1>4. max_load_factor(T, ml) = U
  BY DEF max_load_factor
<1>5. c = IF bucket_count(T) = max_bucket_count THEN max_bucket_count ELSE Load(bucket_count(T), ml)
  BY <1>1 DEF Framed
<1> HIDE DEF c
<1>6. /\ U \in Table /\ U.m_values = T.m_values /\ U.m_buckets = T.m_buckets /\ U.m_shifts = T.m_shifts
      /\ U.m_max_load_factor = ml /\ U.m_max_bucket_capacity = c
  BY <1>1, <1>2, <1>3 DEF Table
<1> HIDE DEF U
<1>7. size(U) = size(T) /\ bucket_count(U) = bucket_count(T) /\ \A i : get_key(U, i) = get_key(T, i)
  BY <1>6 DEF size, bucket_count, get_key
<1>8. Framed(U)
  BY <1>1, <1>5, <1>6, <1>7 DEF Framed
<1>9. CASE Ready(T)
  <2>1. Allocated(T) /\ Sound(T, Indices(T)) /\ size(T) <= bucket_count(T)
    BY <1>9, ReadyIs
  <2>2. Indices(U) = Indices(T) /\ Indices(T) \subseteq 0 .. size(U) - 1
    BY <1>7 DEF Indices
  <2>3. Allocated(U) /\ Sound(U, Indices(U))
    BY <1>6, <1>7, <2>1, <2>2, Transfer
  <2> QED BY <1>4, <1>6, <1>7, <1>8, <2>1, <2>3 DEF Ready, Exact
<1>10. CASE Bare(T)
  BY <1>4, <1>6, <1>7, <1>8, <1>10 DEF Bare, Distinct, Indices
<1> QED
  BY <1>9, <1>10

\* The fields of a table that has nothing yet.
LEMMA BlankIs ==
  /\ Blank \in Table /\ Blank.m_values = << >> /\ DOMAIN Blank.m_buckets = {} /\ bucket_count(Blank) = 0
  /\ Blank.m_shifts = initial_shifts /\ Blank.m_shifts \in 0 .. initial_shifts
  /\ Blank.m_max_load_factor = default_max_load_factor /\ default_max_load_factor \in Nat
<1>1. << >> \in [0 .. 0 - 1 -> Bucket]
  <2>1. 0 .. 0 - 1 = {} /\ 1 .. 0 = {} /\ Len(<< >>) = 0
    OBVIOUS
  <2>2. << >> \in Seq(Bucket)
    OBVIOUS
  <2>3. << >> \in [1 .. Len(<< >>) -> Bucket]
    BY <2>2, LenProperties
  <2> QED BY <2>1, <2>3
<1>2. << >> \in UNION {[0 .. n - 1 -> Bucket] : n \in Nat} /\ << >> \in Seq(Key \X Val)
  BY <1>1
<1>3. DOMAIN << >> = {}
  OBVIOUS
<1>4. initial_shifts \in Nat
  BY Widths
<1>5. default_max_load_factor \in Nat
  BY DEF default_max_load_factor
<1>6. bucket_count(Blank) = 0
  BY <1>3, FS_EmptySet DEF bucket_count, Blank
<1> HIDE DEF initial_shifts, default_max_load_factor
<1> QED
  BY <1>2, <1>3, <1>4, <1>5, <1>6 DEF Blank, Table

\* A table that gets its first buckets, and has no values.
LEMMA FreshIs ==
  ASSUME NEW T \in Table, T.m_shifts \in 0 .. initial_shifts, T.m_values = << >>,
         T.m_max_load_factor \in Percents \cup {default_max_load_factor}
  PROVE  LET U == allocate_buckets_from_shift(T) IN Ready(U) /\ U.m_values = << >> /\ size(U) = 0
<1> DEFINE U == allocate_buckets_from_shift(T)
<1>1. /\ Allocated(U) /\ AllVacant(U) /\ U.m_values = T.m_values /\ U.m_shifts = T.m_shifts
      /\ U.m_max_load_factor = T.m_max_load_factor
      /\ U.m_max_bucket_capacity =
           IF bucket_count(U) = max_bucket_count THEN max_bucket_count
           ELSE Load(bucket_count(U), U.m_max_load_factor)
  BY AllocatedIs
<1> HIDE DEF U
<1>2. Framed(U)
  BY <1>1 DEF Framed, Allocated
<1> QED
  BY <1>1, <1>2, ReadyEmpty DEF U

\* The constructors.
LEMMA ConstructedIs ==
  ASSUME HashOK, NEW n \in 0 .. Load(max_bucket_count, default_max_load_factor)
  PROVE  /\ Ready(Constructed(n)) /\ size(Constructed(n)) = 0
         /\ Ready(MovedFrom) /\ MovedFrom.m_values = << >>
<1>1. /\ Blank \in Table /\ Blank.m_values = << >> /\ bucket_count(Blank) = 0
      /\ Blank.m_shifts \in 0 .. initial_shifts
      /\ Blank.m_max_load_factor = default_max_load_factor
  BY BlankIs
<1>2. size(Blank) = 0 /\ Distinct(Blank)
  BY <1>1, NoValues
<1>3. Ready(MovedFrom) /\ MovedFrom.m_values = << >> /\ size(MovedFrom) = 0
  BY <1>1, FreshIs DEF MovedFrom
<1>4. CASE n # 0
  <2>1. Load(max_bucket_count, default_max_load_factor) \in Nat
    BY Widths, LoadLess
  <2>2. n \in Nat
    BY <2>1
  <2>3. Max({n, size(Blank)}) = n
    <3>1. Max({n, size(Blank)}) = IF n <= size(Blank) THEN size(Blank) ELSE n
      BY <1>2, <2>2, MinMax
    <3> QED BY <1>2, <1>4, <2>2, <3>1
  <2>4. Load(max_bucket_count, Blank.m_max_load_factor) >= Max({n, size(Blank)})
    BY <1>1, <2>1, <2>2, <2>3
  <2>5. Ready(reserve(Blank, n)) /\ reserve(Blank, n).m_values = Blank.m_values
    BY <1>1, <1>2, <2>2, <2>4, RehashIs
  <2>6. Constructed(n) = reserve(Blank, n)
    BY <1>4 DEF Constructed
  <2> QED BY <1>1, <1>3, <2>5, <2>6, NoValues
<1>5. CASE n = 0
  BY <1>3, <1>5 DEF Constructed, MovedFrom
<1> QED
  BY <1>4, <1>5

\* A copy.
LEMMA CopyIs ==
  ASSUME NEW T, Ready(T) \/ (Bare(T) /\ empty(T))
  PROVE  Ready(CopyOf(T)) /\ CopyOf(T).m_values = T.m_values
<1> DEFINE C == [Blank EXCEPT !.m_values = T.m_values, !.m_max_load_factor = T.m_max_load_factor]
<1>1. /\ T \in Table /\ T.m_values \in Seq(Key \X Val) /\ T.m_shifts \in 0 .. initial_shifts
      /\ T.m_max_load_factor \in Percents \cup {default_max_load_factor}
  BY ReadyIs, BareIs
<1>2. T.m_max_load_factor \in Nat /\ T.m_shifts \in Nat
  BY <1>1 DEF Table
<1>3. /\ C \in Table /\ C.m_values = T.m_values /\ C.m_max_load_factor = T.m_max_load_factor
      /\ C.m_shifts \in 0 .. initial_shifts
  BY <1>1, <1>2, BlankIs DEF Table
<1>4. CopyOf(T) = IF empty(T) THEN allocate_buckets_from_shift(C)
                  ELSE [allocate_buckets_from_shift([C EXCEPT !.m_shifts = T.m_shifts])
                          EXCEPT !.m_buckets = T.m_buckets]
  BY DEF CopyOf
<1> HIDE DEF C
<1>5. CASE empty(T)
  <2>1. T.m_values = << >>
    BY <1>5 DEF empty
  <2> QED BY <1>1, <1>3, <1>4, <1>5, <2>1, FreshIs
<1>6. CASE ~empty(T)
  <2> DEFINE S == [C EXCEPT !.m_shifts = T.m_shifts]
             A == allocate_buckets_from_shift(S)
             U == [A EXCEPT !.m_buckets = T.m_buckets]
  <2>1. Ready(T) /\ Framed(T)
    BY <1>6 DEF Ready
  <2>2. /\ S \in Table /\ S.m_values = T.m_values /\ S.m_max_load_factor = T.m_max_load_factor
        /\ S.m_shifts = T.m_shifts
    BY <1>2, <1>3 DEF Table
  <2> HIDE DEF S
  <2>3. /\ Allocated(A) /\ A.m_values = T.m_values /\ A.m_shifts = T.m_shifts
        /\ A.m_max_load_factor = T.m_max_load_factor
        /\ bucket_count(A) = calc_num_buckets(T.m_shifts)
        /\ A.m_max_bucket_capacity =
             IF bucket_count(A) = max_bucket_count THEN max_bucket_count
             ELSE Load(bucket_count(A), A.m_max_load_factor)
    BY <1>1, <2>2, AllocatedIs
  <2> HIDE DEF A
  <2>4. Allocated(T) /\ bucket_count(T) = bucket_count(A) /\ T.m_buckets \in [0 .. bucket_count(A) - 1 -> Bucket]
    <3>1. Allocated(T)
      BY <2>1, ReadyIs
    <3>2. bucket_count(T) = bucket_count(A)
      BY <2>1, <2>3, ReadyIs
    <3> QED BY <3>1, <3>2 DEF Allocated
  <2>5. Rebucketed(A, U) /\ U.m_buckets = T.m_buckets
    BY <2>3, <2>4, Rebucket
  <2> HIDE DEF U
  <2>6. /\ U \in Table /\ U.m_values = T.m_values /\ U.m_shifts = T.m_shifts
        /\ bucket_count(U) = bucket_count(T) /\ U.m_max_load_factor = T.m_max_load_factor
        /\ U.m_max_bucket_capacity = A.m_max_bucket_capacity
    BY <2>3, <2>4, <2>5 DEF Rebucketed, Allocated
  <2>7. SameFrame(T, U)
    BY <2>1, <2>3, <2>4, <2>6 DEF SameFrame, Framed
  <2>8. size(U) = size(T) /\ Indices(U) = Indices(T) /\ \A i : get_key(U, i) = get_key(T, i)
    BY <2>6 DEF size, Indices, get_key
  <2>9. Sound(T, Indices(T)) /\ Indices(T) = 0 .. size(T) - 1 /\ size(T) <= bucket_count(T)
    BY <2>1, ReadyIs
  <2>10. Exact(U)
    <3>1. Indices(T) \subseteq 0 .. size(U) - 1
      BY <2>8, <2>9
    <3> QED BY <2>4, <2>5, <2>6, <2>8, <2>9, <3>1, Transfer DEF Exact
  <2>11. Ready(U)
    BY <2>1, <2>6, <2>7, <2>8, <2>9, <2>10, StaysReady
  <2>12. CopyOf(T) = U
    BY <1>4, <1>6 DEF U, A, S
  <2> QED BY <2>6, <2>11, <2>12
<1> QED
  BY <1>5, <1>6

\* What increase_size() leaves when it cannot allocate.
Bereft(T) == [T EXCEPT !.m_shifts = @ - 1, !.m_buckets = << >>, !.m_max_bucket_capacity = 0]

\* The value that was added last stays in m_values, without a bucket like all.
LEMMA BereftIs ==
  ASSUME HashOK, NEW T, Ready(T), NEW k \in Key, NEW v \in Val, ~HasKey(T, k),
         T.m_max_bucket_capacity # max_bucket_count
  PROVE  LET U == Bereft(Appended(T, k, v)) IN Bare(U) /\ U.m_values = Append(T.m_values, <<k, v>>)
<1> DEFINE A == Appended(T, k, v)
           U == Bereft(A)
           s == T.m_shifts
           m == size(T)
<1>1. /\ A \in Table /\ A.m_values = Append(T.m_values, <<k, v>>) /\ SameFrame(T, A)
      /\ size(A) = m + 1 /\ get_key(A, m) = k
      /\ \A i \in Indices(T) : get_key(A, i) = get_key(T, i)
  BY AppendedIs
<1>2. /\ s \in 0 .. initial_shifts /\ bucket_count(T) = calc_num_buckets(s) /\ m \in Nat
      /\ m <= bucket_count(T) /\ Distinct(T) /\ Indices(T) = 0 .. m - 1
      /\ T.m_max_load_factor \in Percents \cup {default_max_load_factor}
  BY ReadyIs
<1>3. calc_num_buckets(s) # max_bucket_count
  BY <1>2 DEF Ready, Framed
<1>4. s - 1 \in 0 .. initial_shifts /\ calc_num_buckets(s) + 1 <= calc_num_buckets(s - 1)
  BY <1>2, <1>3, CanGrow
<1>5. m + 1 <= max_size
  <2>1. /\ calc_num_buckets(s) \in Nat /\ calc_num_buckets(s - 1) \in Nat
        /\ calc_num_buckets(s - 1) <= max_bucket_count /\ max_bucket_count \in Nat
        /\ max_size = max_bucket_count
    BY <1>2, <1>4, Counts, Widths
  <2> HIDE DEF s, m
  <2> QED BY <1>2, <1>4, <2>1
<1> HIDE DEF A
<1>6. << >> \in UNION {[0 .. n - 1 -> Bucket] : n \in Nat} /\ DOMAIN << >> = {}
  <2>1. Blank.m_buckets = << >> /\ Blank \in Table /\ DOMAIN Blank.m_buckets = {}
    BY BlankIs DEF Blank
  <2> QED BY <2>1 DEF Table
<1>7. A.m_shifts = s /\ A.m_max_load_factor = T.m_max_load_factor /\ s - 1 \in Nat
  BY <1>1, <1>2, <1>4, Widths DEF SameFrame
<1> HIDE DEF s
<1>8. /\ U \in Table /\ U.m_values = A.m_values /\ U.m_buckets = << >> /\ U.m_shifts = s - 1
      /\ U.m_max_bucket_capacity = 0 /\ U.m_max_load_factor = T.m_max_load_factor
  BY <1>1, <1>6, <1>7 DEF Table, Bereft
<1> HIDE DEF U, m
<1>9. size(U) = m + 1 /\ \A i : get_key(U, i) = get_key(A, i)
  BY <1>1, <1>8 DEF size, get_key
<1>10. Distinct(U)
  <2>1. Indices(U) = Indices(T) \cup {m} /\ m \notin Indices(T)
    <3>1. Indices(U) = 0 .. size(U) - 1
      BY DEF Indices
    <3> QED BY <1>2, <1>9, <3>1
  <2>2. \A i \in Indices(T) : get_key(T, i) # k
    BY DEF HasKey
  <2> QED BY <1>1, <1>2, <1>9, <2>1, <2>2 DEF Distinct
<1>11. Bare(U)
  BY <1>2, <1>4, <1>5, <1>6, <1>8, <1>9, <1>10, BareFrom
<1> QED
  BY <1>1, <1>8, <1>11 DEF U, A

\* What the functions leave that free the buckets first and get no others.
Lost(T, shifts) ==
  [T EXCEPT !.m_shifts = shifts, !.m_buckets = << >>, !.m_max_bucket_capacity = 0]

\* The values without buckets.
LEMMA LostIs ==
  ASSUME NEW T, Ready(T) \/ Bare(T), NEW shifts \in 0 .. initial_shifts
  PROVE  Bare(Lost(T, shifts)) /\ Lost(T, shifts).m_values = T.m_values
<1> DEFINE U == Lost(T, shifts)
<1>1. /\ T \in Table /\ Distinct(T) /\ size(T) <= max_size
      /\ T.m_max_load_factor \in Percents \cup {default_max_load_factor}
  BY ReadyIs, BareIs
<1>2. << >> \in UNION {[0 .. n - 1 -> Bucket] : n \in Nat} /\ DOMAIN << >> = {}
  <2>1. Blank.m_buckets = << >> /\ Blank \in Table /\ DOMAIN Blank.m_buckets = {}
    BY BlankIs DEF Blank
  <2> QED BY <2>1 DEF Table
<1>3. shifts \in Nat
  BY Widths
<1>4. /\ U \in Table /\ U.m_values = T.m_values /\ U.m_buckets = << >> /\ U.m_shifts = shifts
      /\ U.m_max_bucket_capacity = 0 /\ U.m_max_load_factor = T.m_max_load_factor
  BY <1>1, <1>2, <1>3 DEF Table, Lost
<1> HIDE DEF U
<1>5. size(U) = size(T) /\ Distinct(U)
  BY <1>1, <1>4 DEF size, Distinct, Indices, get_key
<1>6. Bare(U)
  BY <1>1, <1>2, <1>4, <1>5, BareFrom
<1> QED
  BY <1>4, <1>6 DEF U

\* Fewer shifts, more buckets.
LEMMA MoreBuckets ==
  ASSUME NEW s \in 0 .. initial_shifts, NEW t \in 0 .. initial_shifts, s <= t
  PROVE  calc_num_buckets(t) <= calc_num_buckets(s)
<1>1. /\ HashBits - s \in Nat /\ HashBits - t \in Nat /\ Power[HashBits - s] \in Nat
      /\ Power[HashBits - t] \in Nat /\ max_bucket_count \in Nat
      /\ calc_num_buckets(s) = IF Power[HashBits - s] < max_bucket_count THEN Power[HashBits - s]
                               ELSE max_bucket_count
      /\ calc_num_buckets(t) = IF Power[HashBits - t] < max_bucket_count THEN Power[HashBits - t]
                               ELSE max_bucket_count
  BY Counts, Widths
<1>2. HashBits - t <= HashBits - s
  BY Widths
<1>3. Power[HashBits - t] <= Power[HashBits - s]
  BY <1>1, <1>2, PowersGrow
<1> QED
  BY <1>1, <1>3

\* The rounds of replace(): the values before idx have buckets, and those from
\* idx on are still to be looked at.
Replaced(B, c, i, s) ==
  LET T == s.table
  IN /\ Allocated(T) /\ SameFrame(B, T) /\ s.idx <= i /\ size(T) = s.idx + (Len(c) - i)
     /\ Sound(T, 0 .. s.idx - 1) /\ Gathers(T, c, Len(c))
Replacing(B, c) ==
  [i \in 0 .. Len(c) |-> {s \in [table : Table, idx : Nat] : Replaced(B, c, i, s)}]

\* The values without the one at idx, where the last is put.
Dropped(vs, idx) == Front([vs EXCEPT ![idx + 1] = Last(vs)])

\* What they are.
LEMMA DroppedIs ==
  ASSUME NEW vs \in Seq(Key \X Val), NEW idx \in 0 .. Len(vs) - 1
  PROVE  /\ Dropped(vs, idx) \in Seq(Key \X Val) /\ Len(Dropped(vs, idx)) = Len(vs) - 1
         /\ \A j \in 1 .. Len(vs) - 1 : Dropped(vs, idx)[j] = IF j = idx + 1 THEN vs[Len(vs)] ELSE vs[j]
<1> DEFINE z == Len(vs)
           w == [vs EXCEPT ![idx + 1] = Last(vs)]
<1>1. z \in Nat \ {0} /\ vs # << >> /\ idx + 1 \in 1 .. z
  OBVIOUS
<1>2. Last(vs) = vs[z] /\ Last(vs) \in Key \X Val
  BY <1>1, FrontIs
<1>3. w \in Seq(Key \X Val) /\ Len(w) = z
  BY <1>2
<1>4. \A j \in 1 .. z : w[j] = IF j = idx + 1 THEN vs[z] ELSE vs[j]
  BY <1>1, <1>2
<1> HIDE DEF w
<1>5. w # << >>
  BY <1>1, <1>3
<1>6. /\ Front(w) \in Seq(Key \X Val) /\ Len(Front(w)) = z - 1
      /\ \A j \in 1 .. z - 1 : Front(w)[j] = w[j]
  BY <1>3, <1>5, FrontIs
<1>7. \A j \in 1 .. z - 1 : j \in 1 .. z
  BY <1>1
<1>8. Dropped(vs, idx) = Front(w)
  BY DEF Dropped, w
<1> QED
  BY <1>4, <1>6, <1>7, <1>8

\* One round of replace().
LEMMA ReplaceRound ==
  ASSUME HashOK, NEW B, NEW c \in Seq(Key \X Val), Len(c) <= bucket_count(B),
         NEW i \in 1 .. Len(c), NEW s \in Replacing(B, c)[i - 1]
  PROVE  ReplaceStep(s) \in Replacing(B, c)[i]
<1> DEFINE T == s.table
           x == s.idx
           z == size(T)
           n == Len(c)
           k == get_key(T, x)
           p == Probe(T, k)
           I == 0 .. x - 1
           N == bucket_count(T)
<1>1. i - 1 \in 0 .. n /\ i \in 0 .. n /\ n \in Nat /\ n - (i - 1) = n - i + 1 /\ n - i \in Nat
  OBVIOUS
<1>2. s \in [table : Table, idx : Nat] /\ Replaced(B, c, i - 1, s)
  BY <1>1 DEF Replacing
<1>3. T \in Table /\ x \in Nat /\ s = [table |-> T, idx |-> x]
  BY <1>2
<1>4. /\ Allocated(T) /\ SameFrame(B, T) /\ x <= i - 1 /\ z = x + (n - (i - 1)) /\ Sound(T, I)
      /\ Gathers(T, c, n)
  BY <1>2 DEF Replaced
<1>5. N \in Nat /\ N = bucket_count(B)
  BY <1>4, Buckets DEF SameFrame
<1>6. /\ ReplaceStep(s) =
           IF Hit(T, k, p)
             THEN [s EXCEPT !.table.m_values = Dropped(T.m_values, x)]
             ELSE [table |-> PlaceAt(T, k, x, p), idx |-> x + 1]
  BY DEF ReplaceStep, Dropped
<1>7. T.m_values \in Seq(Key \X Val) /\ z = Len(T.m_values)
  BY <1>3 DEF Table, size
<1> HIDE DEF T, x, n
<1>8. x < z /\ z <= n /\ x < N /\ z = x + 1 + (n - i) /\ x + 1 <= i /\ x \in 0 .. z - 1 /\ z \in Nat
  <2> HIDE DEF z, N
  <2>1. Len(c) = n
    BY DEF n
  <2> QED BY <1>1, <1>3, <1>4, <1>5, <2>1
<1>9. k \in Key
  BY <1>3, <1>8, KeyIs
<1> HIDE DEF k, p
<1>10. Hit(T, k, p) <=> \E j \in I : get_key(T, j) = k
  BY <1>4, <1>9, ProbeFinds DEF p
<1>11. CASE Hit(T, k, p)
  <2> DEFINE vs == Dropped(T.m_values, x)
             U == [T EXCEPT !.m_values = vs]
             r == [table |-> U, idx |-> x]
  <2>1. /\ vs \in Seq(Key \X Val) /\ Len(vs) = z - 1
        /\ \A j \in 1 .. z - 1 : vs[j] = IF j = x + 1 THEN T.m_values[z] ELSE T.m_values[j]
    <3> HIDE DEF z
    <3>1. x \in 0 .. Len(T.m_values) - 1
      BY <1>7, <1>8
    <3> DEFINE ts == T.m_values
    <3>2. ts \in Seq(Key \X Val) /\ x \in 0 .. Len(ts) - 1 /\ Len(ts) = z
      BY <1>7, <3>1
    <3> HIDE DEF ts
    <3>3. /\ Dropped(ts, x) \in Seq(Key \X Val) /\ Len(Dropped(ts, x)) = Len(ts) - 1
          /\ \A j \in 1 .. Len(ts) - 1 : Dropped(ts, x)[j] = IF j = x + 1 THEN ts[Len(ts)] ELSE ts[j]
      BY <3>2, DroppedIs
    <3> QED BY <3>2, <3>3 DEF ts
  <2> HIDE DEF vs
  <2>2. ReplaceStep(s) = r
    <3>1. [s EXCEPT !.table.m_values = vs] = r
      <4>1. s.table = T /\ s.idx = x
        BY DEF T, x
      <4>2. [s EXCEPT !.table.m_values = vs] = [s EXCEPT !.table = [s.table EXCEPT !.m_values = vs]]
        OBVIOUS
      <4>3. [s EXCEPT !.table.m_values = vs] = [s EXCEPT !.table = U]
        BY <4>1, <4>2
      <4> HIDE DEF U
      <4>4. [s EXCEPT !.table = U] = r
        BY <1>3
      <4> QED BY <4>3, <4>4
    <3> QED BY <1>6, <1>11, <3>1 DEF vs
  <2>3. /\ U \in Table /\ U.m_values = vs /\ U.m_buckets = T.m_buckets /\ U.m_shifts = T.m_shifts
        /\ SameFrame(T, U) /\ size(U) = z - 1
    BY <1>3, <2>1, Revalued
  <2> HIDE DEF U
  <2>4. I \subseteq 0 .. size(U) - 1
    <3> HIDE DEF z
    <3> QED BY <1>3, <1>8, <2>3
  <2>5. \A j \in I : get_key(U, j) = get_key(T, j)
    <3> TAKE j \in I
    <3>1. j + 1 \in 1 .. z - 1 /\ j + 1 # x + 1
      <4> HIDE DEF z
      <4> QED BY <1>3, <1>8
    <3> QED BY <2>1, <2>3, <3>1 DEF get_key
  <2>6. Allocated(U) /\ Sound(U, I)
    BY <1>4, <2>3, <2>4, <2>5, Transfer
  <2>7. SameFrame(B, U)
    BY <1>4, <2>3 DEF SameFrame
  <2>8. \A j \in 1 .. size(U) : \E l \in 1 .. n : U.m_values[j] = c[l]
    <3> TAKE j \in 1 .. size(U)
    <3> DEFINE y == IF j = x + 1 THEN z ELSE j
    <3>1. j \in 1 .. z - 1 /\ y \in 1 .. z
      BY <1>8, <2>3
    <3>2. U.m_values[j] = T.m_values[y]
      BY <2>1, <2>3, <3>1
    <3> QED BY <1>4, <3>1, <3>2 DEF Gathers
  <2>9. \A l \in 1 .. n : HasKey(U, c[l][1])
    <3> TAKE l \in 1 .. n
    <3>1. PICK j \in Indices(T) : get_key(T, j) = c[l][1]
      BY <1>4 DEF Gathers, HasKey
    <3>2. PICK y \in I : get_key(T, y) = k
      BY <1>10, <1>11
    <3>3. Indices(T) = 0 .. z - 1 /\ Indices(U) = 0 .. z - 1 - 1
      BY <2>3 DEF Indices
    <3> DEFINE a == IF j = x THEN y ELSE IF j = z - 1 THEN x ELSE j
    <3>4. /\ a \in 0 .. z - 1 - 1 /\ a + 1 \in 1 .. z - 1
          /\ IF a + 1 = x + 1 THEN j # x /\ j + 1 = z ELSE a = IF j = x THEN y ELSE j
      <4>1. x \in Nat /\ z \in Nat /\ x < z /\ j \in 0 .. z - 1 /\ y \in Nat /\ y < x
        BY <1>3, <1>8, <3>3
      <4> HIDE DEF z, I
      <4>2. CASE j = x
        BY <4>1, <4>2
      <4>3. CASE j # x /\ j = z - 1
        BY <4>1, <4>3
      <4>4. CASE j # x /\ j # z - 1
        BY <4>1, <4>4
      <4> QED BY <4>2, <4>3, <4>4
    <3> HIDE DEF a
    <3>5. get_key(U, a) = get_key(T, j)
      <4>1. CASE a + 1 = x + 1
        BY <2>1, <2>3, <3>4, <4>1 DEF get_key
      <4>2. CASE a + 1 # x + 1
        <5>1. get_key(U, a) = get_key(T, a)
          BY <2>1, <2>3, <3>4, <4>2 DEF get_key
        <5> QED BY <3>2, <3>4, <4>2, <5>1 DEF k
      <4> QED BY <4>1, <4>2
    <3> QED BY <3>1, <3>3, <3>4, <3>5 DEF HasKey
  <2>10. Replaced(B, c, i, r)
    <3>1. r.table = U /\ r.idx = x
      OBVIOUS
    <3>2. x <= i /\ size(U) = x + (n - i)
      <4> HIDE DEF z
      <4> QED BY <1>1, <1>3, <1>8, <2>3
    <3> HIDE DEF r
    <3> QED BY <2>6, <2>7, <2>8, <2>9, <3>1, <3>2 DEF Replaced, Gathers, n
  <2>11. r \in [table : Table, idx : Nat]
    BY <1>3, <2>3
  <2> QED BY <1>1, <2>2, <2>10, <2>11 DEF Replacing, n
<1>12. CASE ~Hit(T, k, p)
  <2> DEFINE U == PlaceAt(T, k, x, p)
             r == [table |-> U, idx |-> x + 1]
  <2>1. ReplaceStep(s) = r
    BY <1>6, <1>12
  <2>2. \A j \in I : get_key(T, j) # k
    BY <1>10, <1>12
  <2>3. Belongs(T, k, p)
    BY <1>4, <1>9, <2>2, ProbeMissing DEF p
  <2>4. SomeVacant(T)
    BY <1>3, <1>4, <1>8, Vacancy
  <2>5. x \notin I /\ I \cup {x} = 0 .. (x + 1) - 1
    BY <1>3
  <2>6. Rebucketed(T, U) /\ Sound(U, I \cup {x})
    BY <1>4, <1>8, <2>2, <2>3, <2>4, <2>5, Placed DEF k
  <2> HIDE DEF U
  <2>7. /\ Allocated(U) /\ U \in Table /\ SameFrame(B, U) /\ U.m_values = T.m_values
    BY <1>4, <2>6 DEF Rebucketed, Allocated, SameFrame
  <2>8. size(U) = z /\ \A j : get_key(U, j) = get_key(T, j)
    BY <2>7 DEF size, get_key
  <2>9. Gathers(U, c, n)
    <3>1. Indices(U) = Indices(T)
      BY <2>8 DEF Indices
    <3> QED BY <1>4, <2>7, <2>8, <3>1 DEF Gathers, HasKey
  <2>10. Replaced(B, c, i, r)
    <3>1. r.table = U /\ r.idx = x + 1
      OBVIOUS
    <3>2. x + 1 <= i /\ size(U) = x + 1 + (n - i)
      BY <1>8, <2>8
    <3>3. Sound(U, 0 .. (x + 1) - 1)
      BY <2>5, <2>6
    <3> HIDE DEF r
    <3> QED BY <2>7, <2>9, <3>1, <3>2, <3>3 DEF Replaced, n
  <2>11. r \in [table : Table, idx : Nat]
    BY <1>3, <2>7
  <2> QED BY <1>1, <2>1, <2>10, <2>11 DEF Replacing, n
<1> QED
  BY <1>11, <1>12

\* replace() finds or makes vacant buckets, enough for the container.
LEMMA ReplaceBuckets ==
  ASSUME NEW T, Ready(T) \/ Bare(T), NEW c \in Seq(Key \X Val),
         Load(max_bucket_count, T.m_max_load_factor) >= Len(c)
  PROVE  LET shifts == calc_shifts_for_size(T, Len(c))
             B == IF bucket_count(T) = 0 \/ shifts < T.m_shifts
                    THEN allocate_buckets_from_shift([T EXCEPT !.m_shifts = shifts])
                    ELSE clear_buckets(T)
         IN Framed(B) /\ Allocated(B) /\ AllVacant(B) /\ Len(c) <= bucket_count(B)
<1> DEFINE shifts == calc_shifts_for_size(T, Len(c))
           A == [T EXCEPT !.m_shifts = shifts]
           P == bucket_count(T) = 0 \/ shifts < T.m_shifts
           U == allocate_buckets_from_shift(A)
           C == clear_buckets(T)
<1>1. /\ T \in Table /\ T.m_shifts \in 0 .. initial_shifts /\ Framed(T)
      /\ T.m_max_load_factor \in Percents \cup {default_max_load_factor}
  BY ReadyIs, BareIs DEF Ready, Bare
<1>2. shifts \in 0 .. initial_shifts /\ Len(c) <= calc_num_buckets(shifts) /\ Len(c) \in Nat
  BY <1>1, ShiftsFor
<1> HIDE DEF shifts
<1>3. calc_num_buckets(shifts) \in Nat /\ shifts \in Nat /\ T.m_shifts \in Nat
  BY <1>1, <1>2, Counts, Widths
<1>4. CASE P
  <2>1. A \in Table /\ A.m_shifts = shifts /\ A.m_max_load_factor = T.m_max_load_factor
    BY <1>1, <1>3 DEF Table
  <2> HIDE DEF A
  <2>2. /\ Allocated(U) /\ AllVacant(U) /\ U.m_shifts = shifts
        /\ U.m_max_load_factor = T.m_max_load_factor
        /\ bucket_count(U) = calc_num_buckets(shifts)
        /\ U.m_max_bucket_capacity =
             IF bucket_count(U) = max_bucket_count THEN max_bucket_count
             ELSE Load(bucket_count(U), U.m_max_load_factor)
    BY <1>2, <2>1, AllocatedIs
  <2> HIDE DEF U
  <2>3. Framed(U) /\ Len(c) <= bucket_count(U)
    BY <1>1, <1>2, <2>2 DEF Framed, Allocated
  <2> QED BY <1>4, <2>2, <2>3 DEF U, A, shifts
<1>5. CASE ~P
  <2>1. Ready(T)
    BY <1>5, BareIs
  <2>2. Allocated(T) /\ bucket_count(T) = calc_num_buckets(T.m_shifts) /\ bucket_count(T) \in Nat
    BY <2>1, ReadyIs
  <2>3. calc_num_buckets(shifts) <= calc_num_buckets(T.m_shifts)
    <3>1. T.m_shifts <= shifts
      BY <1>3, <1>5
    <3> QED BY <1>1, <1>2, <3>1, MoreBuckets
  <2>4. Rebucketed(T, C) /\ AllVacant(C)
    BY <2>2, ClearedIs
  <2> HIDE DEF C
  <2>5. Allocated(C) /\ bucket_count(C) = bucket_count(T) /\ C \in Table
    BY <2>4 DEF Rebucketed, Allocated
  <2>6. Framed(C)
    BY <1>1, <2>4, <2>5 DEF Framed, Rebucketed
  <2>7. Len(c) <= bucket_count(C)
    BY <1>2, <1>3, <2>2, <2>3, <2>5
  <2> QED BY <1>5, <2>4, <2>5, <2>6, <2>7 DEF C, shifts
<1> QED
  BY <1>4, <1>5

\* replace(container).
LEMMA ReplaceIs ==
  ASSUME HashOK, NEW T, Ready(T) \/ Bare(T), NEW c \in Seq(Key \X Val),
         Load(max_bucket_count, T.m_max_load_factor) >= Len(c)
  PROVE  Ready(replace(T, c)) /\ Gathers(replace(T, c), c, Len(c))
<1> DEFINE n == Len(c)
           shifts == calc_shifts_for_size(T, Len(c))
           B == IF bucket_count(T) = 0 \/ shifts < T.m_shifts
                  THEN allocate_buckets_from_shift([T EXCEPT !.m_shifts = shifts])
                  ELSE clear_buckets(T)
           X == Replacing(B, c)
           R == [B EXCEPT !.m_values = c]
           a == [table |-> R, idx |-> 0]
           F == [i \in 1 .. n |-> [x \in X[i - 1] |-> ReplaceStep(x)]]
           Fixed(f) == f = [i \in 0 .. n |-> IF i = 0 THEN a ELSE ReplaceStep(f[i - 1])]
           f1 == CHOOSE f : Fixed(f)
<1>1. n \in Nat
  OBVIOUS
<1>2. replace(T, c) = f1[n].table
  BY Zenon DEF replace
<1>3. Framed(B) /\ Allocated(B) /\ AllVacant(B) /\ n <= bucket_count(B)
  BY ReplaceBuckets
<1> HIDE DEF B
<1>4. a \in X[0]
  <2>1. B \in Table
    BY <1>3 DEF Allocated
  <2>2. /\ R \in Table /\ R.m_values = c /\ R.m_buckets = B.m_buckets /\ R.m_shifts = B.m_shifts
        /\ SameFrame(B, R) /\ size(R) = n
    BY <2>1, Revalued
  <2> HIDE DEF R
  <2>3. Sound(B, {})
    BY <1>3, NoneYet
  <2>4. Allocated(R) /\ Sound(R, {})
    BY <1>3, <2>2, <2>3, Transfer
  <2>5. \A j \in 1 .. size(R) : \E l \in 1 .. n : R.m_values[j] = c[l]
    BY <2>2
  <2>6. \A l \in 1 .. n : HasKey(R, c[l][1])
    <3> TAKE l \in 1 .. n
    <3>1. l - 1 \in Indices(R) /\ (l - 1) + 1 = l
      BY <1>1, <2>2 DEF Indices
    <3>2. get_key(R, l - 1) = c[l][1]
      BY <2>2, <3>1 DEF get_key
    <3> QED BY <3>1, <3>2 DEF HasKey
  <2>7. a.table = R /\ a.idx = 0 /\ a \in [table : Table, idx : Nat]
    BY <2>2
  <2> HIDE DEF a
  <2>8. 0 .. 0 - 1 = {} /\ 0 \in 0 .. n /\ 0 <= 0 /\ n = 0 + (n - 0)
    BY <1>1
  <2>9. Replaced(B, c, 0, a)
    BY <2>2, <2>4, <2>5, <2>6, <2>7, <2>8 DEF Replaced, Gathers
  <2> QED BY <2>7, <2>8, <2>9 DEF Replacing
<1>5. ASSUME NEW i \in 1 .. n, NEW x \in X[i - 1] PROVE ReplaceStep(x) \in X[i]
  BY <1>3, ReplaceRound
<1> HIDE DEF X, a
<1>7. LoopFits(n, X, F)
  BY <1>5 DEF LoopFits
<1> HIDE DEF n
<1>8. PICK g : LoopValues(n, X, F, a, g)
  <2> HIDE DEF F
  <2> QED BY <1>1, <1>4, <1>7, LoopRuns
<1>9. Fixed(g)
  <2>1. ASSUME NEW i \in 0 .. n, i # 0 PROVE F[i][g[i - 1]] = ReplaceStep(g[i - 1])
    <3>1. i - 1 \in 0 .. n /\ i \in 1 .. n
      BY <1>1, <2>1
    <3> QED BY <1>8, <3>1 DEF LoopValues
  <2> HIDE DEF F
  <2> QED BY <1>8, <2>1 DEF LoopValues
<1>10. Fixed(f1)
  <2> HIDE DEF Fixed
  <2> QED BY <1>9
<1> HIDE DEF f1
<1>11. f1[0] \in X[0]
  BY <1>1, <1>4, <1>10
<1>12. \A i \in 1 .. n : f1[i - 1] \in X[i - 1] => f1[i] \in X[i]
  <2> TAKE i \in 1 .. n
  <2>1. i \in 0 .. n /\ i # 0
    BY <1>1
  <2>2. f1[i] = ReplaceStep(f1[i - 1])
    BY <1>10, <2>1
  <2> QED BY <1>5, <2>2
<1> HIDE DEF Fixed
<1>13. f1[n] \in X[n]
  BY <1>1, <1>11, <1>12, LoopKeeps
<1> DEFINE s == f1[n]
           U == s.table
<1>14. s \in [table : Table, idx : Nat] /\ Replaced(B, c, n, s)
  <2>1. n \in 0 .. n
    BY <1>1
  <2> QED BY <1>13, <2>1 DEF Replacing, X, n
<1> HIDE DEF s
<1>15. /\ U \in Table /\ Allocated(U) /\ SameFrame(B, U) /\ s.idx <= n /\ size(U) = s.idx + (n - n)
       /\ Sound(U, 0 .. s.idx - 1) /\ Gathers(U, c, n) /\ s.idx \in Nat
  BY <1>14 DEF Replaced, n
<1>16. size(U) = s.idx /\ size(U) <= bucket_count(U)
  <2>1. bucket_count(U) = bucket_count(B) /\ bucket_count(U) \in Nat
    BY <1>15, Buckets DEF SameFrame
  <2> HIDE DEF U
  <2> QED BY <1>1, <1>3, <1>15, <2>1
<1>17. Exact(U)
  BY <1>15, <1>16 DEF Exact, Indices
<1>18. Ready(U)
  BY <1>3, <1>15, <1>16, <1>17, StaysReady
<1> QED
  BY <1>2, <1>15, <1>18 DEF s, n

----------------------------------------------------------------------------
(* The steps of the program.                                               *)

\* What is true of a table stays true of it: the hash function never changes.
LEMMA SameHash ==
  ASSUME m_hash' = m_hash, HashOK, Ready(tbl') \/ Bare(tbl'), calls' \in 0 .. MaxCalls
  PROVE  TableInv'
<1>1. Ready(tbl') => Ready(tbl)'
  BY DEF Ready, Exact, Sound, Stands, Home, Dist
<1>2. Bare(tbl') => Bare(tbl)'
  BY DEF Bare
<1> QED
  BY <1>1, <1>2 DEF TableInv, HashOK

\* A usable table is ready.
LEMMA UsableIs ==
  ASSUME TableInv
  PROVE  HashOK /\ (Usable => Ready(tbl)) /\ (Ready(tbl) => Usable) /\ calls \in Nat /\ MaxCalls \in Nat
<1>1. Ready(tbl) \/ Bare(tbl)
  BY DEF TableInv
<1>2. Bare(tbl) => bucket_count(tbl) = 0
  BY BareIs
<1>3. Ready(tbl) => bucket_count(tbl) > 0
  BY ReadyIs
<1> QED
  BY <1>1, <1>2, <1>3, DenseMapAssumption DEF TableInv, Usable, HashOK

\* The parts of a result.
LEMMA ResultIs ==
  \A U, r : Result(U, r).table = U /\ Result(U, r).ret = r
BY DEF Result

\* A value that is tried ends in a table that is ready.
LEMMA TriesReady ==
  ASSUME NEW T, Ready(T), NEW k, NEW v, NEW r, Tries(T, k, v, r) \/ Adds(T, k, v, r)
  PROVE  Ready(r.table) /\ r.ret \in {"found", "overflow", "inserted"}
BY ResultIs DEF Tries, Adds

\* A word in front of the arguments of the call.
LEMMA Answers ==
  ASSUME NEW w, NEW a, NEW b
  PROVE  <<w>> \o <<a, b>> = <<w, a, b>> /\ <<w>> \o <<a>> = <<w, a>>
<1> DEFINE S == {w, a, b}
<1>1. <<w>> \in Seq(S) /\ <<a, b>> \in Seq(S) /\ <<a>> \in Seq(S) /\ <<w, a, b>> \in Seq(S) /\ <<w, a>> \in Seq(S)
  OBVIOUS
<1>2. ASSUME NEW x \in Seq(S), NEW y \in Seq(S), NEW z \in Seq(S), Len(z) = Len(x) + Len(y),
             \A i \in 1 .. Len(z) : z[i] = IF i <= Len(x) THEN x[i] ELSE y[i - Len(x)]
      PROVE  x \o y = z
  <2> HIDE DEF S
  <2>1. /\ x \o y \in Seq(S) /\ Len(x \o y) = Len(z)
        /\ \A i \in 1 .. Len(z) : (x \o y)[i] = z[i]
    BY <1>2, ConcatProperties
  <2> QED BY <2>1, SeqEqual
<1> HIDE DEF S
<1>3. <<w>> \o <<a, b>> = <<w, a, b>>
  <2> DEFINE x == <<w>>
             y == <<a, b>>
             z == <<w, a, b>>
  <2>1. Len(x) = 1 /\ Len(y) = 2 /\ Len(z) = 3 /\ Len(z) = Len(x) + Len(y)
    OBVIOUS
  <2>2. \A i \in 1 .. 3 : z[i] = IF i <= 1 THEN x[i] ELSE y[i - 1]
    OBVIOUS
  <2> HIDE DEF x, y, z
  <2>3. \A i \in 1 .. Len(z) : z[i] = IF i <= Len(x) THEN x[i] ELSE y[i - Len(x)]
    BY <2>1, <2>2
  <2>4. x \in Seq(S) /\ y \in Seq(S) /\ z \in Seq(S)
    BY <1>1 DEF x, y, z
  <2>5. x \o y = z
    BY <1>2, <2>1, <2>3, <2>4
  <2> QED BY <2>5 DEF x, y, z
<1>4. <<w>> \o <<a>> = <<w, a>>
  <2> DEFINE x == <<w>>
             y == <<a>>
             z == <<w, a>>
  <2>1. Len(x) = 1 /\ Len(y) = 1 /\ Len(z) = 2 /\ Len(z) = Len(x) + Len(y)
    OBVIOUS
  <2>2. \A i \in 1 .. 2 : z[i] = IF i <= 1 THEN x[i] ELSE y[i - 1]
    OBVIOUS
  <2> HIDE DEF x, y, z
  <2>3. \A i \in 1 .. Len(z) : z[i] = IF i <= Len(x) THEN x[i] ELSE y[i - Len(x)]
    BY <2>1, <2>2
  <2>4. x \in Seq(S) /\ y \in Seq(S) /\ z \in Seq(S)
    BY <1>1 DEF x, y, z
  <2>5. x \o y = z
    BY <1>2, <2>1, <2>3, <2>4
  <2> QED BY <2>5 DEF x, y, z
<1> QED
  BY <1>3, <1>4

\* Init.
LEMMA InitReady ==
  ASSUME Init
  PROVE  HashOK /\ Ready(tbl)
<1>1. HashOK
  BY DEF Init, HashOK
<1>2. PICK n \in 0 .. Load(max_bucket_count, default_max_load_factor), c \in Containers :
        Len(c) <= max_size /\ tbl = InsertRange(Constructed(n), c)
  BY DEF Init
<1>3. c \in Seq(Key \X Val)
  BY DenseMapAssumption
<1>4. Ready(Constructed(n)) /\ size(Constructed(n)) = 0
  BY <1>1, ConstructedIs
<1> DEFINE T == Constructed(n)
<1> HIDE DEF T
<1>5. Ready(InsertRange(T, c))
  BY <1>1, <1>3, <1>4, InsertRangeIs DEF T
<1> QED
  BY <1>1, <1>2, <1>5 DEF T

\* The sizes of Replace, Rehash and Reserve.
LEMMA TableParts ==
  ASSUME NEW T, Ready(T) \/ Bare(T)
  PROVE  /\ T \in Table /\ Distinct(T) /\ T.m_shifts \in 0 .. initial_shifts
         /\ T.m_max_load_factor \in Percents \cup {default_max_load_factor}
         /\ T.m_values \in Seq(Key \X Val) /\ size(T) = Len(T.m_values) /\ size(T) \in Nat
         /\ size(T) <= max_size /\ Indices(T) = 0 .. size(T) - 1
BY ReadyIs, BareIs DEF Indices

\* The failing operations lose the buckets and change no value.
LEMMA FailsLose ==
  ASSUME TableInv, RehashFails \/ ReplaceFails \/ CopyFails
  PROVE  \E shifts \in 0 .. initial_shifts : Become(Lost(tbl, shifts), <<"bad_alloc">>)
<1>1. /\ tbl.m_shifts \in 0 .. initial_shifts /\ size(tbl) \in Nat
      /\ tbl.m_max_load_factor \in Percents \cup {default_max_load_factor}
  BY TableParts DEF TableInv
<1>2. initial_shifts \in 0 .. initial_shifts /\ max_size \in Nat
  BY Widths
<1>3. \A s \in Nat : Representable(s) => calc_shifts_for_size(tbl, s) \in 0 .. initial_shifts
  BY <1>1, ShiftsFor DEF Representable
<1>4. \A shifts : LoseBuckets(shifts) => Become(Lost(tbl, shifts), <<"bad_alloc">>)
  BY Zenon DEF LoseBuckets, Lost
<1>5. CASE RehashFails
  <2>1. PICK n \in 0 .. max_size :
          /\ Representable(Max({n, size(tbl)}))
          /\ LoseBuckets(calc_shifts_for_size(tbl, Max({n, size(tbl)})))
    BY <1>5, Zenon DEF RehashFails
  <2>2. Max({n, size(tbl)}) \in Nat
    <3>1. n \in Int /\ size(tbl) \in Int /\ n \in Nat
      BY <1>1, <1>2
    <3>2. Max({n, size(tbl)}) = IF n <= size(tbl) THEN size(tbl) ELSE n
      BY <3>1, MinMax, Zenon
    <3> QED BY <1>1, <3>1, <3>2
  <2> QED BY <1>3, <1>4, <2>1, <2>2
<1>6. CASE ReplaceFails
  <2>1. PICK c \in Containers :
          Representable(Len(c)) /\ LoseBuckets(calc_shifts_for_size(tbl, Len(c)))
    BY <1>6, Zenon DEF ReplaceFails
  <2>2. Len(c) \in Nat
    BY DenseMapAssumption
  <2> QED BY <1>3, <1>4, <2>1, <2>2
<1>7. CASE CopyFails
  <2>1. LoseBuckets(initial_shifts) \/ LoseBuckets(tbl.m_shifts)
    BY <1>7 DEF CopyFails
  <2> QED BY <1>1, <1>2, <1>4, <2>1
<1> QED BY <1>5, <1>6, <1>7

\* Every operation leaves a table that is ready, or has no buckets.
LEMMA NextReady ==
  ASSUME TableInv, Next
  PROVE  (Ready(tbl') \/ Bare(tbl')) /\ m_hash' = m_hash /\ calls' \in 0 .. MaxCalls
<1>1. HashOK /\ (Usable => Ready(tbl)) /\ calls \in 0 .. MaxCalls /\ MaxCalls \in Nat /\ (Ready(tbl) \/ Bare(tbl))
  BY UsableIs DEF TableInv
<1>2. ASSUME NEW U, NEW r, Become(U, r) PROVE tbl' = U /\ m_hash' = m_hash /\ calls' \in 0 .. MaxCalls
  BY <1>1, <1>2 DEF Become
<1>3. ASSUME NEW r, NEW args, Return(r, args)
      PROVE  tbl' = r.table /\ m_hash' = m_hash /\ calls' \in 0 .. MaxCalls
  BY <1>2, <1>3 DEF Return
<1>4. InsertedValue \in Val
  BY DenseMapAssumption DEF InsertedValue
<1>5. CASE TryEmplace
  <2>1. PICK k \in Key : Return(do_try_emplace(tbl, k, InsertedValue), <<k, InsertedValue>>)
    BY <1>5 DEF TryEmplace
  <2>2. Ready(tbl)
    BY <1>1, <1>5 DEF TryEmplace
  <2>3. Ready(do_try_emplace(tbl, k, InsertedValue).table)
    BY <1>1, <1>4, <2>2, TryEmplaceIs, TriesReady
  <2> QED BY <1>3, <2>1, <2>3
<1>6. CASE Emplace
  <2>1. PICK k \in Key : Return(emplace(tbl, k, InsertedValue), <<k, InsertedValue>>)
    BY <1>6 DEF Emplace
  <2>2. Ready(tbl)
    BY <1>1, <1>6 DEF Emplace
  <2>3. Ready(emplace(tbl, k, InsertedValue).table)
    BY <1>1, <1>4, <2>2, EmplaceIs, TriesReady
  <2> QED BY <1>3, <2>1, <2>3
<1>7. CASE InsertOrAssign
  <2>1. PICK k \in Key, v \in Val : Return(do_insert_or_assign(tbl, k, v), <<k, v>>)
    BY <1>7 DEF InsertOrAssign
  <2>2. Ready(tbl)
    BY <1>1, <1>7 DEF InsertOrAssign
  <2> DEFINE r == do_insert_or_assign(tbl, k, v)
  <2>3. Adds(tbl, k, v, r) \/ \E U : Ready(U) /\ r = Result(U, "assigned")
    BY <1>1, <2>2, InsertOrAssignIs
  <2> HIDE DEF r
  <2>4. Ready(r.table)
    BY <2>2, <2>3, ResultIs, TriesReady
  <2> QED BY <1>3, <2>1, <2>4 DEF r
<1>8. CASE EraseKey
  <2>1. PICK k \in Key : Return(do_erase_key(tbl, k), <<k>>)
    BY <1>8 DEF EraseKey
  <2>2. Ready(tbl)
    BY <1>1, <1>8 DEF EraseKey
  <2> DEFINE r == do_erase_key(tbl, k)
  <2>3. r = Result(tbl, "absent") \/ \E U : Ready(U) /\ r = Result(U, "erased")
    BY <1>1, <2>2, ErasesKey
  <2> HIDE DEF r
  <2>4. Ready(r.table)
    BY <2>2, <2>3, ResultIs
  <2> QED BY <1>3, <2>1, <2>4 DEF r
<1>9. CASE Erase
  <2>1. PICK first \in 0 .. size(tbl), last \in 0 .. size(tbl) :
          first <= last /\ Become(EraseRange(tbl, first, last), <<"pruned">>)
    BY <1>9 DEF Erase
  <2>2. Ready(tbl)
    BY <1>1, <1>9 DEF Erase
  <2>3. Ready(EraseRange(tbl, first, last))
    BY <1>1, <2>1, <2>2, EraseRangeIs
  <2> QED BY <1>2, <2>1, <2>3
<1>10. CASE EraseIf
  <2>1. PICK S : Become(erase_if(tbl, S), <<"pruned">>)
    BY <1>10 DEF EraseIf
  <2>2. Ready(tbl)
    BY <1>1, <1>10 DEF EraseIf
  <2>3. Ready(erase_if(tbl, S))
    BY <1>1, <2>2, EraseIfIs
  <2> QED BY <1>2, <2>1, <2>3
<1>11. CASE Clear
  <2>1. Ready(clear(tbl)) \/ Bare(clear(tbl))
    BY <1>1, ClearIs
  <2> QED BY <1>2, <1>11, <2>1 DEF Clear
<1>12. CASE ReplaceKey
  <2>1. PICK idx \in 0 .. size(tbl) - 1, k \in Key :
          Return(replace_key(tbl, idx, k), <<get_key(tbl, idx), k>>)
    BY <1>12 DEF ReplaceKey
  <2>2. Ready(tbl) /\ idx \in Indices(tbl)
    BY <1>1, <1>12, <2>1 DEF ReplaceKey, Indices
  <2> DEFINE r == replace_key(tbl, idx, k)
  <2>3. r = Result(tbl, "found") \/ \E U : Ready(U) /\ r = Result(U, "rekeyed")
    BY <1>1, <2>2, ReplacesKey
  <2> HIDE DEF r
  <2>4. Ready(r.table)
    BY <2>2, <2>3, ResultIs
  <2> QED BY <1>3, <2>1, <2>4 DEF r
<1>13. CASE Replace
  <2>1. PICK c \in Containers :
          \/ Become(tbl, <<"too_many_elements">>)
          \/ Representable(Len(c)) /\ Become(replace(tbl, c), <<"replaced">>)
    BY <1>13 DEF Replace
  <2>2. CASE Become(tbl, <<"too_many_elements">>)
    BY <1>1, <1>2, <2>2
  <2>3. CASE Representable(Len(c)) /\ Become(replace(tbl, c), <<"replaced">>)
    <3>1. c \in Seq(Key \X Val)
      BY DenseMapAssumption
    <3>2. Ready(replace(tbl, c))
      BY <1>1, <2>3, <3>1, ReplaceIs DEF Representable
    <3> QED BY <1>2, <2>3, <3>2
  <2> QED BY <2>1, <2>2, <2>3
<1>14. CASE AssignList
  <2>1. PICK c \in Containers : Usable /\ \E a : Become(InsertRange(clear(tbl), c), a)
    BY <1>14 DEF AssignList
  <2>2. c \in Seq(Key \X Val)
    BY DenseMapAssumption
  <2> DEFINE T == clear(tbl)
  <2>3. Ready(T) /\ size(T) = 0
    BY <1>1, <2>1, ClearIs, NoValues
  <2> HIDE DEF T
  <2>4. Ready(InsertRange(T, c))
    BY <1>1, <2>2, <2>3, InsertRangeIs
  <2> QED BY <1>2, <2>1, <2>4 DEF T
<1>15. CASE SetMaxLoadFactor
  <2>1. PICK ml \in Percents : Become(max_load_factor(tbl, ml), <<"void">>)
    BY <1>15 DEF SetMaxLoadFactor
  <2>2. Ready(max_load_factor(tbl, ml)) \/ Bare(max_load_factor(tbl, ml))
    BY <1>1, MaxLoadFactorIs
  <2> QED BY <1>2, <2>1, <2>2
<1>16. CASE Rehash
  <2>1. PICK n \in 0 .. max_size : Representable(Max({n, size(tbl)})) /\ Become(rehash(tbl, n), <<"void">>)
    BY <1>16 DEF Rehash
  <2>2. n \in Nat
    BY Widths
  <2>3. rehash(tbl, n) = tbl \/ Ready(rehash(tbl, n))
    BY <1>1, <2>1, <2>2, TableParts, RehashIs DEF Representable
  <2>4. Ready(rehash(tbl, n)) \/ Bare(rehash(tbl, n))
    BY <1>1, <2>3
  <2> QED BY <1>2, <2>1, <2>4
<1>17. CASE Reserve
  <2>1. PICK n \in 0 .. max_size : Representable(Max({n, size(tbl)})) /\ Become(reserve(tbl, n), <<"void">>)
    BY <1>17 DEF Reserve
  <2>2. n \in Nat
    BY Widths
  <2>3. reserve(tbl, n) = tbl \/ Ready(reserve(tbl, n))
    BY <1>1, <2>1, <2>2, TableParts, RehashIs DEF Representable
  <2>4. Ready(reserve(tbl, n)) \/ Bare(reserve(tbl, n))
    BY <1>1, <2>3
  <2> QED BY <1>2, <2>1, <2>4
<1>18. CASE Copy
  <2>1. Ready(tbl) \/ (Bare(tbl) /\ empty(tbl))
    BY <1>1, <1>18 DEF Copy
  <2>2. Ready(CopyOf(tbl))
    BY <2>1, CopyIs
  <2> QED BY <1>2, <1>18, <2>2 DEF Copy
<1>19. CASE Move
  <2>1. 0 \in 0 .. Load(max_bucket_count, default_max_load_factor)
    BY Widths, LoadLess
  <2>2. Ready(MovedFrom)
    BY <1>1, <2>1, ConstructedIs
  <2> QED BY <1>2, <1>19, <2>2 DEF Move
<1>20. CASE AllocFails
  <2>1. Ready(tbl)
    BY <1>1, <1>20 DEF AllocFails
  <2>2. PICK k \in Key :
          /\ ~Hit(tbl, k, Probe(tbl, k))
          /\ Appended(tbl, k, InsertedValue).m_max_bucket_capacity # max_bucket_count
          /\ Become(Bereft(Appended(tbl, k, InsertedValue)), <<"bad_alloc", k, InsertedValue>>)
    BY <1>20, Zenon DEF AllocFails, Appended, Bereft
  <2>3. ~HasKey(tbl, k)
    BY <1>1, <2>1, <2>2, ReadyIs, ProbeFinds DEF HasKey
  <2>4. tbl.m_max_bucket_capacity # max_bucket_count
    <3>1. SameFrame(tbl, Appended(tbl, k, InsertedValue))
      BY <1>1, <1>4, <2>1, AppendedIs
    <3> QED BY <2>2, <3>1 DEF SameFrame
  <2>5. Bare(Bereft(Appended(tbl, k, InsertedValue)))
    BY <1>1, <1>4, <2>1, <2>3, <2>4, BereftIs
  <2> QED BY <1>2, <2>2, <2>5
<1>21. CASE calls = MaxCalls /\ UNCHANGED vars
  BY <1>1, <1>21 DEF vars
<1>22. CASE RehashFails \/ ReplaceFails \/ CopyFails
  <2>1. PICK shifts \in 0 .. initial_shifts : Become(Lost(tbl, shifts), <<"bad_alloc">>)
    BY <1>22, FailsLose
  <2>2. Bare(Lost(tbl, shifts))
    BY <1>1, LostIs
  <2> QED BY <1>2, <2>1, <2>2
<1> QED
  BY <1>5, <1>6, <1>7, <1>8, <1>9, <1>10, <1>11, <1>12, <1>13, <1>14, <1>15, <1>16, <1>17, <1>18,
     <1>19, <1>20, <1>21, <1>22 DEF Next

\* The answers.
Words == {"void", "inserted", "found", "overflow", "bad_alloc", "assigned", "erased",
          "absent", "pruned", "cleared", "rekeyed", "replaced", "too_many_elements"}

\* Every operation answers with a word first.
LEMMA NextAnswers ==
  ASSUME TableInv, Next, ret[1] \in Words
  PROVE  ret'[1] \in Words
<1>1. HashOK /\ (Usable => Ready(tbl)) /\ InsertedValue \in Val
  BY UsableIs, DenseMapAssumption DEF InsertedValue
<1>2. ASSUME NEW r, NEW a, NEW b, r.ret \in Words, Return(r, <<a, b>>) \/ Return(r, <<a>>)
      PROVE  ret'[1] \in Words
  <2>1. ret' = <<r.ret, a, b>> \/ ret' = <<r.ret, a>>
    BY <1>2, Answers DEF Return, Become
  <2> QED BY <1>2, <2>1
<1>3. CASE TryEmplace \/ Emplace
  <2>1. PICK k \in Key : \/ Return(do_try_emplace(tbl, k, InsertedValue), <<k, InsertedValue>>)
                         \/ Return(emplace(tbl, k, InsertedValue), <<k, InsertedValue>>)
    BY <1>3 DEF TryEmplace, Emplace
  <2>2. Ready(tbl)
    BY <1>1, <1>3 DEF TryEmplace, Emplace
  <2>3. do_try_emplace(tbl, k, InsertedValue).ret \in Words /\ emplace(tbl, k, InsertedValue).ret \in Words
    BY <1>1, <2>2, TryEmplaceIs, EmplaceIs, TriesReady DEF Words
  <2> QED BY <1>2, <2>1, <2>3
<1>4. CASE InsertOrAssign
  <2>1. PICK k \in Key, v \in Val : Return(do_insert_or_assign(tbl, k, v), <<k, v>>)
    BY <1>4 DEF InsertOrAssign
  <2>2. Ready(tbl)
    BY <1>1, <1>4 DEF InsertOrAssign
  <2> DEFINE r == do_insert_or_assign(tbl, k, v)
  <2>3. Adds(tbl, k, v, r) \/ \E U : r = Result(U, "assigned")
    BY <1>1, <2>2, InsertOrAssignIs
  <2> HIDE DEF r
  <2>4. r.ret \in Words
    BY <2>2, <2>3, ResultIs, TriesReady DEF Words
  <2> QED BY <1>2, <2>1, <2>4 DEF r
<1>5. CASE EraseKey
  <2>1. PICK k \in Key : Return(do_erase_key(tbl, k), <<k>>)
    BY <1>5 DEF EraseKey
  <2>2. Ready(tbl)
    BY <1>1, <1>5 DEF EraseKey
  <2> DEFINE r == do_erase_key(tbl, k)
  <2>3. r = Result(tbl, "absent") \/ \E U : r = Result(U, "erased")
    BY <1>1, <2>2, ErasesKey
  <2> HIDE DEF r
  <2>4. r.ret \in Words
    BY <2>3, ResultIs DEF Words
  <2> QED BY <1>2, <2>1, <2>4 DEF r
<1>6. CASE ReplaceKey
  <2>1. PICK idx \in 0 .. size(tbl) - 1, k \in Key :
          Return(replace_key(tbl, idx, k), <<get_key(tbl, idx), k>>)
    BY <1>6 DEF ReplaceKey
  <2>2. Ready(tbl) /\ idx \in Indices(tbl)
    BY <1>1, <1>6, <2>1 DEF ReplaceKey, Indices
  <2> DEFINE r == replace_key(tbl, idx, k)
  <2>3. r = Result(tbl, "found") \/ \E U : r = Result(U, "rekeyed")
    BY <1>1, <2>2, ReplacesKey
  <2> HIDE DEF r
  <2>4. r.ret \in Words
    BY <2>3, ResultIs DEF Words
  <2> QED BY <1>2, <2>1, <2>4 DEF r
<1>7. CASE AllocFails
  <2>1. PICK k \in Key : ret' = <<"bad_alloc", k, InsertedValue>>
    BY <1>7 DEF AllocFails, Become
  <2> QED BY <2>1 DEF Words
<1>8. CASE calls = MaxCalls /\ UNCHANGED vars
  BY <1>8 DEF vars
<1>9. CASE Erase \/ EraseIf \/ Clear \/ Replace \/ AssignList
  <2>1. ret' \in {<<"pruned">>, <<"cleared">>, <<"too_many_elements">>, <<"replaced">>, <<"overflow">>}
    BY <1>9 DEF Erase, EraseIf, Clear, Replace, AssignList, Become
  <2> QED BY <2>1 DEF Words
<1>10. CASE SetMaxLoadFactor \/ Rehash \/ Reserve \/ Copy \/ Move
  <2>1. ret' \in {<<"void">>, <<"cleared">>}
    BY <1>10 DEF SetMaxLoadFactor, Rehash, Reserve, Copy, Move, Become
  <2> QED BY <2>1 DEF Words
<1>11. CASE RehashFails \/ ReplaceFails \/ CopyFails
  <2>1. ret' = <<"bad_alloc">>
    BY <1>11, FailsLose DEF Become
  <2> QED BY <2>1 DEF Words
<1> QED
  BY <1>3, <1>4, <1>5, <1>6, <1>7, <1>8, <1>9, <1>10, <1>11 DEF Next

\* A table between two operations, for any keys, hashes, widths and
\* containers: it has exactly the buckets its values need, in the order that
\* searches rely on, or none after a failed allocation.
THEOREM TableInvariant == Spec => [](TableInv /\ ret[1] \in Words)
<1>1. Init => TableInv /\ ret[1] \in Words
  <2> SUFFICES ASSUME Init PROVE TableInv /\ ret[1] \in Words
    OBVIOUS
  <2>1. calls \in 0 .. MaxCalls
    BY DenseMapAssumption DEF Init
  <2>2. ret[1] \in Words
    BY DEF Init, Words
  <2> QED BY <2>1, <2>2, InitReady DEF TableInv, HashOK
<1>2. TableInv /\ ret[1] \in Words /\ [Next]_vars => (TableInv /\ ret[1] \in Words)'
  <2> SUFFICES ASSUME TableInv, ret[1] \in Words, [Next]_vars PROVE (TableInv /\ ret[1] \in Words)'
    OBVIOUS
  <2>1. CASE Next
    <3>1. (Ready(tbl') \/ Bare(tbl')) /\ m_hash' = m_hash /\ calls' \in 0 .. MaxCalls
      BY <2>1, NextReady
    <3>2. HashOK
      BY UsableIs
    <3>3. TableInv'
      BY <3>1, <3>2, SameHash
    <3>4. ret'[1] \in Words
      BY <2>1, NextAnswers
    <3> QED BY <3>3, <3>4
  <2>2. CASE UNCHANGED vars
    <3>1. m_hash' = m_hash /\ tbl' = tbl /\ ret' = ret /\ calls' = calls
      BY <2>2 DEF vars
    <3>2. (Ready(tbl') \/ Bare(tbl')) /\ calls' \in 0 .. MaxCalls /\ HashOK
      BY <3>1 DEF TableInv, HashOK
    <3>3. TableInv'
      BY <3>1, <3>2, SameHash
    <3> QED BY <3>1, <3>3
  <2> QED BY <2>1, <2>2
<1> QED
  BY <1>1, <1>2, PTL DEF Spec

----------------------------------------------------------------------------
(* The properties.                                                         *)

\* A number of buckets is a power of two.
LEMMA BucketPowers ==
  ASSUME NEW s \in 0 .. initial_shifts
  PROVE  calc_num_buckets(s) \in {Power[i] : i \in 0 .. IndexBits}
<1> DEFINE h == HashBits - s
<1>1. /\ h \in Nat /\ IndexBits \in Nat /\ Power[h] \in Nat /\ Power[IndexBits] \in Nat
      /\ max_bucket_count = Power[IndexBits]
  BY Counts, Widths, Powers DEF max_bucket_count, max_size
<1>2. calc_num_buckets(s) = IF Power[h] < Power[IndexBits] THEN Power[h] ELSE Power[IndexBits]
  BY <1>1, Counts
<1> HIDE DEF h
<1>3. CASE Power[h] < Power[IndexBits]
  <2>1. ~(IndexBits <= h)
    <3> SUFFICES ASSUME IndexBits <= h PROVE FALSE
      OBVIOUS
    <3>1. Power[IndexBits] <= Power[h]
      BY <1>1, PowersGrow
    <3> QED BY <1>1, <1>3, <3>1
  <2>2. h \in 0 .. IndexBits
    BY <1>1, <2>1
  <2> QED BY <1>2, <1>3, <2>2
<1>4. CASE ~(Power[h] < Power[IndexBits])
  <2>1. IndexBits \in 0 .. IndexBits
    BY <1>1
  <2> QED BY <1>2, <1>4, <2>1
<1> QED
  BY <1>3, <1>4

\* The invariant has the types.
LEMMA InvTypes ==
  ASSUME TableInv, ret[1] \in Words
  PROVE  TypeOK
<1> DEFINE M == max_bucket_count
           N == bucket_count(tbl)
<1>1. Ready(tbl) \/ Bare(tbl)
  BY DEF TableInv
<1>2. /\ tbl \in Table /\ tbl.m_values \in Seq(Key \X Val) /\ size(tbl) <= max_size
      /\ tbl.m_shifts \in 0 .. initial_shifts
      /\ tbl.m_max_load_factor \in Percents \cup {default_max_load_factor}
  BY <1>1, TableParts
<1>3. /\ DOMAIN tbl.m_buckets = 0 .. N - 1 /\ N \in {0} \cup {Power[i] : i \in 0 .. IndexBits}
      /\ N \in Nat /\ N <= M
  <2>1. CASE Ready(tbl)
    <3>1. Allocated(tbl) /\ N = calc_num_buckets(tbl.m_shifts)
      BY <2>1, ReadyIs
    <3>2. DOMAIN tbl.m_buckets = 0 .. N - 1 /\ N \in Nat /\ N <= M
      BY <3>1, Buckets
    <3>3. calc_num_buckets(tbl.m_shifts) \in {Power[i] : i \in 0 .. IndexBits}
      BY <1>2, BucketPowers
    <3> QED BY <3>1, <3>2, <3>3
  <2>2. CASE Bare(tbl)
    <3>1. DOMAIN tbl.m_buckets = {} /\ N = 0
      BY <2>2, BareIs
    <3>2. 0 .. 0 - 1 = {} /\ M \in Nat
      BY Widths
    <3> HIDE DEF N, M
    <3> QED BY <3>1, <3>2
  <2> QED BY <1>1, <2>1, <2>2
<1>4. tbl.m_max_bucket_capacity \in 0 .. M
  <2>1. tbl.m_max_bucket_capacity = IF N = M THEN M ELSE Load(N, tbl.m_max_load_factor)
    BY <1>1 DEF Ready, Bare, Framed
  <2>2. Load(N, tbl.m_max_load_factor) \in Nat /\ Load(N, tbl.m_max_load_factor) <= N /\ M \in Nat
    BY <1>2, <1>3, LoadLess, Widths
  <2> HIDE DEF N, M
  <2> QED BY <1>3, <2>1, <2>2
<1>5. m_hash \in [Key -> HashValues] /\ calls \in 0 .. MaxCalls
  BY DEF TableInv
<1> QED
  BY <1>2, <1>3, <1>4, <1>5 DEF TypeOK, Words

\* Buckets stand where the searches expect them.
LEMMA InvExact ==
  ASSUME TableInv
  PROVE  BucketsExact
<1> DEFINE N == bucket_count(tbl)
<1> SUFFICES ASSUME Usable PROVE BucketsExact
  BY DEF BucketsExact
<1>1. HashOK /\ Ready(tbl)
  BY UsableIs
<1>2. /\ Allocated(tbl) /\ Sound(tbl, Indices(tbl)) /\ Indices(tbl) = 0 .. size(tbl) - 1
      /\ N \in Nat \ {0} /\ tbl \in Table
  BY <1>1, ReadyIs
<1>3. DOMAIN tbl.m_buckets = 0 .. N - 1
  BY <1>2, Buckets
<1>4. ASSUME NEW b \in 0 .. N - 1, tbl.m_buckets[b] # Vacant
      PROVE  /\ Idx(tbl, b) \in 0 .. size(tbl) - 1
             /\ \E n \in 0 .. N - 1 :
                  /\ b = Forward(tbl, Home(tbl, get_key(tbl, Idx(tbl, b))), n)
                  /\ Df(tbl, b) = Dist(get_key(tbl, Idx(tbl, b)), n)
             /\ \/ Df(tbl, b) < 2 * dist_inc
                \/ Df(tbl, b) <= At(tbl, b, N - 1).dist_and_fingerprint + dist_inc
  <2> DEFINE k == get_key(tbl, Idx(tbl, b))
  <2>1. /\ Idx(tbl, b) \in 0 .. size(tbl) - 1 /\ k \in Key
        /\ \E n \in 0 .. N - 1 : b = Hop(N, Home(tbl, k), n) /\ Df(tbl, b) = Dist(k, n)
    BY <1>1, <1>2, <1>4, InUse
  <2>2. Home(tbl, k) \in 0 .. N - 1
    BY <1>1, <1>2, <2>1, HomeIs
  <2>3. PICK n \in 0 .. N - 1 : b = Hop(N, Home(tbl, k), n) /\ Df(tbl, b) = Dist(k, n)
    BY <2>1
  <2>4. n \in 0 .. N /\ N - 1 \in 0 .. N
    BY <1>2
  <2>5. b = Forward(tbl, Home(tbl, k), n)
    BY <1>2, <2>2, <2>3, <2>4, ForwardIs
  <2>6. At(tbl, b, N - 1) = tbl.m_buckets[Hop(N, b, N - 1)]
    BY <1>2, <2>4, ForwardIs
  <2>7. Df(tbl, b) < 2 * dist_inc \/ Df(tbl, b) <= Df(tbl, Hop(N, b, N - 1)) + dist_inc
    BY <1>2 DEF Sound, Ordered
  <2>8. Df(tbl, b) < 2 * dist_inc \/ Df(tbl, b) <= At(tbl, b, N - 1).dist_and_fingerprint + dist_inc
    BY <2>6, <2>7 DEF Df
  <2> HIDE DEF k
  <2>9. \E x \in 0 .. N - 1 : b = Forward(tbl, Home(tbl, k), x) /\ Df(tbl, b) = Dist(k, x)
    BY <2>3, <2>5
  <2> QED BY <2>1, <2>8, <2>9 DEF k
<1>5. ASSUME NEW idx \in 0 .. size(tbl) - 1
      PROVE  Cardinality({b \in DOMAIN tbl.m_buckets :
                            tbl.m_buckets[b] # Vacant /\ tbl.m_buckets[b].value_idx = idx}) = 1
  <2> DEFINE S == {b \in DOMAIN tbl.m_buckets : tbl.m_buckets[b] # Vacant /\ tbl.m_buckets[b].value_idx = idx}
  <2>1. PICK b \in 0 .. N - 1 : tbl.m_buckets[b] # Vacant /\ Idx(tbl, b) = idx
    BY <1>2 DEF Sound
  <2>2. \A c \in 0 .. N - 1 : tbl.m_buckets[c] # Vacant /\ Idx(tbl, c) = idx => c = b
    BY <1>2, <2>1 DEF Sound
  <2>3. S = {b}
    BY <1>3, <2>1, <2>2 DEF Idx
  <2> HIDE DEF S
  <2>4. Cardinality(S) = 1
    BY <2>3, FS_Singleton
  <2> QED BY <2>4 DEF S
<1>6. ASSUME NEW b \in DOMAIN tbl.m_buckets
      PROVE  LET bucket == tbl.m_buckets[b] IN
             \/ bucket = Vacant
             \/ /\ bucket.value_idx \in 0 .. size(tbl) - 1
                /\ LET k == get_key(tbl, bucket.value_idx)
                   IN \E n \in DOMAIN tbl.m_buckets :
                        /\ b = Forward(tbl, Home(tbl, k), n)
                        /\ bucket.dist_and_fingerprint = Dist(k, n)
                /\ \/ bucket.dist_and_fingerprint < 2 * dist_inc
                   \/ bucket.dist_and_fingerprint
                        <= At(tbl, b, bucket_count(tbl) - 1).dist_and_fingerprint + dist_inc
  BY <1>3, <1>4 DEF Df, Idx
<1> QED
  BY <1>5, <1>6 DEF BucketsExact

\* Keys are found where they are, and only then.
LEMMA InvFinds ==
  ASSUME TableInv
  PROVE  FindsExactly
<1> SUFFICES ASSUME Usable, NEW k \in Key
             PROVE  {idx \in 0 .. size(tbl) - 1 : get_key(tbl, idx) = k} = {do_find(tbl, k)} \ {none}
  BY DEF FindsExactly
<1> DEFINE S == {idx \in 0 .. size(tbl) - 1 : get_key(tbl, idx) = k}
<1>1. HashOK /\ Ready(tbl)
  BY UsableIs
<1>2. Allocated(tbl) /\ Sound(tbl, Indices(tbl)) /\ Indices(tbl) = 0 .. size(tbl) - 1 /\ size(tbl) \in Nat /\ Distinct(tbl)
  BY <1>1, ReadyIs
<1>3. none \notin Nat
  BY DenseMapAssumption
<1>4. CASE HasKey(tbl, k)
  <2>1. PICK idx \in Indices(tbl) : get_key(tbl, idx) = k
    BY <1>4 DEF HasKey
  <2>2. do_find(tbl, k) = idx
    BY <1>1, <1>2, <2>1, FindPresent
  <2>3. S = {idx}
    BY <1>2, <2>1 DEF Distinct
  <2>4. idx # none
    BY <1>2, <1>3
  <2> QED BY <2>2, <2>3, <2>4
<1>5. CASE ~HasKey(tbl, k)
  <2>1. \A idx \in Indices(tbl) : get_key(tbl, idx) # k
    BY <1>5 DEF HasKey
  <2>2. do_find(tbl, k) = none
    BY <1>1, <1>2, <2>1, FindMissing
  <2>3. S = {}
    BY <1>2, <2>1
  <2> QED BY <2>2, <2>3
<1> QED
  BY <1>4, <1>5

\* Several values are erased, and no other.
LEMMA InvErases ==
  ASSUME TableInv
  PROVE  ErasesExactly
<1> SUFFICES ASSUME Usable PROVE ErasesExactly
  BY DEF ErasesExactly
<1>1. HashOK /\ Ready(tbl)
  BY UsableIs
<1>2. ASSUME NEW first \in 0 .. size(tbl), NEW last \in 0 .. size(tbl), first <= last
      PROVE  Range(EraseRange(tbl, first, last).m_values)
               = {tbl.m_values[i] : i \in (1 .. first) \cup (last + 1 .. size(tbl))}
  BY <1>1, <1>2, EraseRangeIs
<1>3. ASSUME NEW S \in SUBSET Key
      PROVE  Range(erase_if(tbl, S).m_values) = {e \in Range(tbl.m_values) : e[1] \notin S}
  BY <1>1, EraseIfIs
<1> QED
  BY <1>2, <1>3 DEF ErasesExactly

\* The types of the variables, and the sizes of the table's parts.
THEOREM MapTyped == Spec => []TypeOK
BY TableInvariant, InvTypes, PTL

\* Every value has exactly one bucket, at its distance from home, and buckets
\* are in the order that searches rely on.
THEOREM BucketsAreExact == Spec => []BucketsExact
BY TableInvariant, InvExact, PTL

\* find() finds every key that is there, and no other.
THEOREM FindIsExact == Spec => []FindsExactly
BY TableInvariant, InvFinds, PTL

\* Erasing a range or a selection removes these values and no other.
THEOREM EraseIsExact == Spec => []ErasesExactly
BY TableInvariant, InvErases, PTL

----------------------------------------------------------------------------
(* The table implements a map.                                             *)

\* The mapping that a table stands for, and its entries.
Mapping(T) ==
  [k \in {get_key(T, idx) : idx \in 0 .. size(T) - 1} |->
     (CHOOSE e \in Range(T.m_values) : e[1] = k)[2]]
Binds(T, k, v) == \E j \in 1 .. size(T) : T.m_values[j] = <<k, v>>

\* A table between two operations.
Whole(T) == Ready(T) \/ Bare(T)

\* The mapping has exactly the entries of the table.
LEMMA MappingIs ==
  ASSUME NEW T, Whole(T)
  PROVE  LET f == Mapping(T)
         IN /\ f = [k \in DOMAIN f |-> f[k]] /\ DOMAIN f \subseteq Key
            /\ \A k : k \in DOMAIN f <=> HasKey(T, k)
            /\ \A k, v : Binds(T, k, v) <=> k \in DOMAIN f /\ f[k] = v
            /\ \A k, v : Binds(T, k, v) => k \in Key /\ v \in Val
            /\ f \in [DOMAIN f -> Val]
<1> DEFINE f == Mapping(T)
           n == size(T)
           vs == T.m_values
           D == {get_key(T, idx) : idx \in 0 .. n - 1}
<1>1. vs \in Seq(Key \X Val) /\ n = Len(vs) /\ n \in Nat /\ Distinct(T) /\ Indices(T) = 0 .. n - 1
  BY TableParts DEF Whole
<1>2. f = [k \in DOMAIN f |-> f[k]] /\ DOMAIN f = D
  BY DEF Mapping
<1>3. \A k : k \in D <=> HasKey(T, k)
  BY <1>1 DEF HasKey
<1>4. \A j \in 1 .. n : vs[j] = <<vs[j][1], vs[j][2]>> /\ vs[j][1] \in Key /\ vs[j][2] \in Val
  BY <1>1
<1>5. Range(vs) = {vs[j] : j \in 1 .. n}
  <2>1. DOMAIN vs = 1 .. n
    BY <1>1
  <2> QED BY <2>1 DEF Range
<1> HIDE DEF vs, n
<1>6. \A i, j \in 1 .. n : vs[i][1] = vs[j][1] => i = j
  <2> SUFFICES ASSUME NEW i \in 1 .. n, NEW j \in 1 .. n, vs[i][1] = vs[j][1] PROVE i = j
    OBVIOUS
  <2>1. i - 1 \in Indices(T) /\ j - 1 \in Indices(T) /\ (i - 1) + 1 = i /\ (j - 1) + 1 = j
    BY <1>1
  <2>2. get_key(T, i - 1) = get_key(T, j - 1)
    BY <2>1 DEF get_key, vs
  <2>3. i - 1 = j - 1
    BY <1>1, <2>1, <2>2 DEF Distinct
  <2> QED BY <2>3
<1>7. \A k : k \in D <=> \E j \in 1 .. n : vs[j][1] = k
  <2> TAKE k
  <2>1. ASSUME NEW idx \in 0 .. n - 1 PROVE idx + 1 \in 1 .. n /\ get_key(T, idx) = vs[idx + 1][1]
    BY <1>1 DEF get_key, vs
  <2>2. ASSUME NEW j \in 1 .. n PROVE j - 1 \in 0 .. n - 1 /\ get_key(T, j - 1) = vs[j][1]
    <3>1. j - 1 \in 0 .. n - 1 /\ (j - 1) + 1 = j
      BY <1>1
    <3> QED BY <3>1 DEF get_key, vs
  <2> QED BY <2>1, <2>2
<1>8. ASSUME NEW j \in 1 .. n PROVE vs[j][1] \in D /\ f[vs[j][1]] = vs[j][2]
  <2> DEFINE k == vs[j][1]
             e == CHOOSE e \in Range(vs) : e[1] = k
  <2>1. k \in D
    BY <1>7
  <2>2. e \in Range(vs) /\ e[1] = k
    BY <1>5
  <2>3. PICK i \in 1 .. n : e = vs[i]
    BY <1>5, <2>2
  <2>4. i = j
    BY <1>6, <2>2, <2>3
  <2>5. f[k] = e[2]
    BY <2>1 DEF Mapping, vs, n
  <2> QED BY <2>1, <2>3, <2>4, <2>5
<1> HIDE DEF f, D
<1>9. \A k, v : Binds(T, k, v) <=> \E j \in 1 .. n : vs[j][1] = k /\ vs[j][2] = v
  <2>1. ASSUME NEW j \in 1 .. n, NEW k, NEW v PROVE vs[j] = <<k, v>> <=> vs[j][1] = k /\ vs[j][2] = v
    BY <1>4
  <2> QED BY <2>1 DEF Binds, vs, n
<1>10. \A k, v : Binds(T, k, v) <=> k \in D /\ f[k] = v
  BY <1>7, <1>8, <1>9
<1>11. D \subseteq Key /\ \A k \in D : f[k] \in Val
  BY <1>4, <1>7, <1>8
<1>12. \A k, v : Binds(T, k, v) => k \in Key /\ v \in Val
  BY <1>4, <1>9
<1>13. f \in [D -> Val]
  BY <1>2, <1>11
<1> QED
  BY <1>2, <1>3, <1>10, <1>11, <1>12, <1>13 DEF f

\* And it is the only one with these.
LEMMA MappingFrom ==
  ASSUME NEW T, Whole(T), NEW D, NEW f, f = [k \in D |-> f[k]],
         \A k, v : Binds(T, k, v) <=> k \in D /\ f[k] = v
  PROVE  Mapping(T) = f
<1> DEFINE g == Mapping(T)
<1>1. g = [k \in DOMAIN g |-> g[k]] /\ \A k, v : Binds(T, k, v) <=> k \in DOMAIN g /\ g[k] = v
  BY MappingIs
<1> HIDE DEF g
<1>2. \A k : k \in DOMAIN g <=> k \in D
  BY <1>1
<1>3. \A k \in D : g[k] = f[k]
  BY <1>1, <1>2
<1>4. DOMAIN g = D
  BY <1>2
<1> QED
  BY <1>1, <1>3, <1>4 DEF g

\* The same values make the same mapping.
LEMMA SameMapping ==
  ASSUME NEW T, NEW U, U.m_values = T.m_values
  PROVE  Mapping(U) = Mapping(T)
BY DEF Mapping, size, get_key

\* No values make the empty mapping.
LEMMA EmptyMapping ==
  ASSUME NEW T, T.m_values = << >>
  PROVE  Mapping(T) = << >>
<1>1. size(T) = 0 /\ 0 .. 0 - 1 = {}
  BY DEF size
<1>2. << >> \in [{} -> {}]
  <2>1. << >> \in Seq({}) /\ Len(<< >>) = 0 /\ 1 .. 0 = {}
    OBVIOUS
  <2>2. << >> \in [1 .. Len(<< >>) -> {}]
    BY <2>1, LenProperties
  <2> QED BY <2>1, <2>2
<1>3. Mapping(T) \in [{} -> {}]
  BY <1>1 DEF Mapping
<1> QED
  BY <1>2, <1>3

\* A mapping has as many keys as the table has values.
LEMMA MappingSize ==
  ASSUME NEW T, Whole(T)
  PROVE  Cardinality(DOMAIN Mapping(T)) = size(T)
<1> DEFINE n == size(T)
           A == 0 .. n - 1
           D == DOMAIN Mapping(T)
           b == [i \in A |-> get_key(T, i)]
<1>1. n \in Nat /\ Distinct(T) /\ Indices(T) = A
  BY TableParts DEF Whole
<1>2. D = {get_key(T, i) : i \in A}
  BY DEF Mapping
<1>3. b \in Bijection(A, D)
  <2>1. b \in [A -> D] /\ \A d \in D : \E a \in A : b[a] = d
    BY <1>2
  <2>2. \A x, y \in A : b[x] = b[y] => x = y
    BY <1>1 DEF Distinct
  <2> HIDE DEF b, A, D
  <2> QED BY <2>1, <2>2 DEF Bijection, Injection, Surjection, IsInjective
<1>4. IsFiniteSet(A) /\ Cardinality(A) = n
  <2>1. IsFiniteSet(0 .. n - 1) /\ Cardinality(0 .. n - 1) = IF 0 > n - 1 THEN 0 ELSE (n - 1) - 0 + 1
    BY <1>1, FS_Interval, SMTT(30)
  <2> QED BY <1>1, <2>1
<1> HIDE DEF A, D, b
<1>5. Cardinality(D) = Cardinality(A)
  BY <1>3, <1>4, FS_Bijection DEF ExistsBijection
<1> QED
  BY <1>4, <1>5 DEF D

\* A mapping with k bound to v.
With(f, k, v) == [x \in DOMAIN f \cup {k} |-> IF x = k THEN v ELSE f[x]]

\* One value more is one entry more.
LEMMA MapsAppend ==
  ASSUME NEW T, Whole(T), NEW k \in Key, NEW v \in Val, ~HasKey(T, k), NEW U, Whole(U),
         U.m_values = Append(T.m_values, <<k, v>>)
  PROVE  Mapping(U) = With(Mapping(T), k, v)
<1> DEFINE f == Mapping(T)
           g == With(f, k, v)
           n == size(T)
<1>1. T.m_values \in Seq(Key \X Val) /\ n = Len(T.m_values) /\ n \in Nat /\ size(U) = Len(U.m_values)
  BY TableParts DEF Whole
<1>2. size(U) = n + 1 /\ U.m_values[n + 1] = <<k, v>> /\ \A j \in 1 .. n : U.m_values[j] = T.m_values[j]
  BY <1>1
<1>3. \A x, w : Binds(U, x, w) <=> Binds(T, x, w) \/ (x = k /\ w = v)
  <2> TAKE x, w
  <2>1. \A j : j \in 1 .. n + 1 <=> j \in 1 .. n \/ j = n + 1
    BY <1>1
  <2>2. <<k, v>> = <<x, w>> <=> x = k /\ w = v
    OBVIOUS
  <2> HIDE DEF n
  <2> QED BY <1>2, <2>1, <2>2 DEF Binds, n
<1>4. /\ \A x : x \in DOMAIN f <=> HasKey(T, x)
      /\ \A x, w : Binds(T, x, w) <=> x \in DOMAIN f /\ f[x] = w
  BY MappingIs
<1> HIDE DEF f
<1>5. g = [x \in DOMAIN f \cup {k} |-> g[x]] /\ \A x \in DOMAIN f \cup {k} : g[x] = IF x = k THEN v ELSE f[x]
  BY DEF With
<1> HIDE DEF g
<1>6. \A x, w : Binds(U, x, w) <=> x \in DOMAIN f \cup {k} /\ g[x] = w
  <2>1. k \notin DOMAIN f
    BY <1>4
  <2>2. \A x, w : Binds(U, x, w) <=> (x \in DOMAIN f /\ f[x] = w) \/ (x = k /\ w = v)
    BY <1>3, <1>4
  <2> HIDE DEF n
  <2> QED BY <1>5, <2>1, <2>2
<1>7. Mapping(U) = g
  <2> DEFINE D == DOMAIN f \cup {k}
  <2>1. g = [x \in D |-> g[x]] /\ \A x, w : Binds(U, x, w) <=> x \in D /\ g[x] = w
    BY <1>5, <1>6
  <2> HIDE DEF n, D
  <2> QED BY <2>1, MappingFrom
<1> QED
  BY <1>7 DEF g, f

\* An assignment changes one entry.
LEMMA MapsAssign ==
  ASSUME NEW T, Whole(T), NEW k \in Key, NEW v \in Val, NEW idx \in Indices(T), get_key(T, idx) = k,
         NEW U, Whole(U), Assigned(T, U, idx, k, v)
  PROVE  Mapping(U) = With(Mapping(T), k, v) /\ k \in DOMAIN Mapping(T)
<1> DEFINE f == Mapping(T)
           g == With(f, k, v)
           n == size(T)
<1>1. /\ T.m_values \in Seq(Key \X Val) /\ n = Len(T.m_values) /\ n \in Nat /\ Indices(T) = 0 .. n - 1
      /\ size(U) = Len(U.m_values)
  BY TableParts DEF Whole
<1>2. idx + 1 \in 1 .. n /\ T.m_values[idx + 1][1] = k
  BY <1>1 DEF get_key
<1>3. size(U) = n /\ \A j \in 1 .. n : U.m_values[j] = IF j = idx + 1 THEN <<k, v>> ELSE T.m_values[j]
  BY <1>1, <1>2 DEF Assigned
<1>4. \A j \in 1 .. n : j # idx + 1 => T.m_values[j][1] # k
  <2> SUFFICES ASSUME NEW j \in 1 .. n, j # idx + 1, T.m_values[j][1] = k PROVE FALSE
    OBVIOUS
  <2>1. j - 1 \in Indices(T) /\ (j - 1) + 1 = j /\ j - 1 # idx
    BY <1>1
  <2>2. get_key(T, j - 1) = k
    BY <2>1 DEF get_key
  <2>3. Distinct(T)
    BY TableParts DEF Whole
  <2> QED BY <2>1, <2>2, <2>3 DEF Distinct
<1> HIDE DEF n
<1>5. \A x, w : Binds(U, x, w) <=> (x = k /\ w = v) \/ (x # k /\ Binds(T, x, w))
  <2> TAKE x, w
  <2>1. <<k, v>> = <<x, w>> <=> x = k /\ w = v
    OBVIOUS
  <2>2. <<x, w>>[1] = x
    OBVIOUS
  <2> QED BY <1>2, <1>3, <1>4, <2>1, <2>2 DEF Binds, n
<1>6. /\ \A x : x \in DOMAIN f <=> HasKey(T, x)
      /\ \A x, w : Binds(T, x, w) <=> x \in DOMAIN f /\ f[x] = w
  BY MappingIs
<1>7. k \in DOMAIN f
  BY <1>6 DEF HasKey
<1> HIDE DEF f
<1>8. g = [x \in DOMAIN f \cup {k} |-> g[x]] /\ \A x \in DOMAIN f \cup {k} : g[x] = IF x = k THEN v ELSE f[x]
  BY DEF With
<1> HIDE DEF g
<1>9. \A x, w : Binds(U, x, w) <=> x \in DOMAIN f \cup {k} /\ g[x] = w
  BY <1>5, <1>6, <1>8
<1>10. Mapping(U) = g
  BY <1>8, <1>9, MappingFrom
<1> QED
  BY <1>7, <1>10 DEF g, f

\* Without some entries.
LEMMA MapsRestrict ==
  ASSUME NEW T, Whole(T), NEW U, Whole(U), \A x, w : Binds(U, x, w) => Binds(T, x, w)
  PROVE  Mapping(U) = Restrict(Mapping(T), DOMAIN Mapping(U)) /\ DOMAIN Mapping(U) \subseteq DOMAIN Mapping(T)
<1> DEFINE f == Mapping(T)
           g == Mapping(U)
<1>1. /\ \A x, w : Binds(T, x, w) <=> x \in DOMAIN f /\ f[x] = w
      /\ \A x, w : Binds(U, x, w) <=> x \in DOMAIN g /\ g[x] = w
      /\ g = [x \in DOMAIN g |-> g[x]]
  BY MappingIs
<1> HIDE DEF f, g
<1>2. \A x \in DOMAIN g : x \in DOMAIN f /\ f[x] = g[x]
  BY <1>1
<1>3. g = [x \in DOMAIN g |-> f[x]]
  BY <1>1, <1>2
<1>4. g = Restrict(f, DOMAIN g) /\ DOMAIN g \subseteq DOMAIN f
  BY <1>2, <1>3 DEF Restrict
<1> QED
  BY <1>4 DEF f, g

\* The value at idx is gone, with its entry.
LEMMA MapsRemove ==
  ASSUME NEW T, Whole(T), NEW idx \in Indices(T), NEW U, Whole(U), Removed(T, U, idx)
  PROVE  LET k == get_key(T, idx)
         IN Mapping(U) = Restrict(Mapping(T), DOMAIN Mapping(T) \ {k}) /\ k \in DOMAIN Mapping(T)
<1> DEFINE f == Mapping(T)
           g == Mapping(U)
           n == size(T)
           k == get_key(T, idx)
<1>1. n \in Nat /\ Indices(T) = 0 .. n - 1 /\ Distinct(T)
  BY TableParts DEF Whole
<1>2. idx + 1 \in 1 .. n /\ T.m_values[idx + 1][1] = k /\ n \in 1 .. n /\ n - 1 \in Nat
  BY <1>1 DEF get_key
<1>3. /\ size(U) = n - 1
      /\ \A j \in 1 .. n - 1 : U.m_values[j] = IF j = idx + 1 THEN T.m_values[n] ELSE T.m_values[j]
  BY DEF Removed
<1>4. \A j \in 1 .. n : T.m_values[j][1] = k <=> j = idx + 1
  <2> SUFFICES ASSUME NEW j \in 1 .. n, j # idx + 1, T.m_values[j][1] = k PROVE FALSE
    BY <1>2
  <2>1. j - 1 \in Indices(T) /\ (j - 1) + 1 = j /\ j - 1 # idx
    BY <1>1
  <2>2. get_key(T, j - 1) = k
    BY <2>1 DEF get_key
  <2> QED BY <1>1, <2>1, <2>2 DEF Distinct
<1> HIDE DEF n, k
<1>5. \A x, w : Binds(U, x, w) <=> x # k /\ Binds(T, x, w)
  <2> TAKE x, w
  <2>1. <<x, w>>[1] = x
    OBVIOUS
  <2>2. ASSUME Binds(U, x, w) PROVE x # k /\ Binds(T, x, w)
    <3>1. PICK j \in 1 .. n - 1 : U.m_values[j] = <<x, w>>
      BY <1>3, <2>2 DEF Binds
    <3> DEFINE i == IF j = idx + 1 THEN n ELSE j
    <3>2. i \in 1 .. n /\ i # idx + 1
      BY <1>2
    <3>3. T.m_values[i] = <<x, w>>
      BY <1>3, <3>1
    <3> HIDE DEF i
    <3> QED BY <1>4, <2>1, <3>2, <3>3 DEF Binds, n
  <2>3. ASSUME x # k, Binds(T, x, w) PROVE Binds(U, x, w)
    <3>1. PICK i \in 1 .. n : T.m_values[i] = <<x, w>>
      BY <2>3 DEF Binds, n
    <3>2. i # idx + 1
      BY <1>4, <2>1, <2>3, <3>1
    <3> DEFINE j == IF i = n THEN idx + 1 ELSE i
    <3>3. j \in 1 .. n - 1 /\ (IF j = idx + 1 THEN n ELSE j) = i
      BY <1>1, <1>2, <3>2
    <3> HIDE DEF j
    <3>4. U.m_values[j] = <<x, w>>
      BY <1>3, <3>1, <3>3
    <3> QED BY <1>3, <3>3, <3>4 DEF Binds
  <2> QED BY <2>2, <2>3
<1>6. /\ \A x : x \in DOMAIN f <=> HasKey(T, x)
      /\ \A x, w : Binds(T, x, w) <=> x \in DOMAIN f /\ f[x] = w
      /\ \A x, w : Binds(U, x, w) <=> x \in DOMAIN g /\ g[x] = w
  BY MappingIs
<1>7. k \in DOMAIN f
  BY <1>6 DEF HasKey, k
<1>8. g = Restrict(f, DOMAIN g)
  BY <1>5, MapsRestrict
<1> HIDE DEF f, g
<1>9. DOMAIN g = DOMAIN f \ {k}
  BY <1>5, <1>6
<1> QED
  BY <1>7, <1>8, <1>9 DEF f, g, k

\* A mapping with k in the place of old.
Renamed(f, old, k) == [x \in (DOMAIN f \ {old}) \cup {k} |-> f[IF x = k THEN old ELSE x]]

\* The value at idx has another key.
LEMMA MapsRekey ==
  ASSUME NEW T, Whole(T), NEW idx \in Indices(T), NEW k \in Key, ~HasKey(T, k), NEW U, Whole(U),
         Rekeyed(T, U, idx, k)
  PROVE  LET f == Mapping(T)
             old == get_key(T, idx)
         IN /\ Mapping(U) = Renamed(f, old, k)
            /\ old \in DOMAIN f /\ k \notin DOMAIN f
<1> DEFINE f == Mapping(T)
           old == get_key(T, idx)
           n == size(T)
           D == (DOMAIN f \ {old}) \cup {k}
           g == [x \in D |-> f[IF x = k THEN old ELSE x]]
<1>1. /\ T.m_values \in Seq(Key \X Val) /\ n = Len(T.m_values) /\ n \in Nat /\ Indices(T) = 0 .. n - 1
      /\ Distinct(T) /\ size(U) = Len(U.m_values) /\ U.m_values \in Seq(Key \X Val)
  BY TableParts DEF Whole
<1>2. idx + 1 \in 1 .. n /\ T.m_values[idx + 1][1] = old
  BY <1>1 DEF get_key
<1>3. /\ size(U) = n
      /\ \A j \in 1 .. n : U.m_values[j] = IF j = idx + 1 THEN <<k, T.m_values[j][2]>> ELSE T.m_values[j]
  <2> DEFINE e == [T.m_values[idx + 1] EXCEPT ![1] = k]
  <2>1. U.m_values = [T.m_values EXCEPT ![idx + 1] = e]
    BY DEF Rekeyed
  <2>2. e = <<k, T.m_values[idx + 1][2]>>
    BY <1>1, <1>2
  <2> HIDE DEF e
  <2>3. DOMAIN T.m_values = 1 .. n
    BY <1>1
  <2>4. DOMAIN U.m_values = 1 .. n /\ \A j \in 1 .. n : U.m_values[j] = IF j = idx + 1 THEN e ELSE T.m_values[j]
    BY <1>2, <2>1, <2>3
  <2>5. size(U) = n
    BY <1>1, <2>4, LenProperties
  <2> QED BY <2>2, <2>4, <2>5
<1>4. \A j \in 1 .. n : T.m_values[j][1] = old <=> j = idx + 1
  <2> SUFFICES ASSUME NEW j \in 1 .. n, j # idx + 1, T.m_values[j][1] = old PROVE FALSE
    BY <1>2
  <2>1. j - 1 \in Indices(T) /\ (j - 1) + 1 = j /\ j - 1 # idx
    BY <1>1
  <2>2. get_key(T, j - 1) = old
    BY <2>1 DEF get_key
  <2> QED BY <1>1, <2>1, <2>2 DEF Distinct
<1>5. \A j \in 1 .. n : T.m_values[j] = <<T.m_values[j][1], T.m_values[j][2]>>
  BY <1>1
<1>6. /\ \A x : x \in DOMAIN f <=> HasKey(T, x)
      /\ \A x, w : Binds(T, x, w) <=> x \in DOMAIN f /\ f[x] = w
  BY MappingIs
<1>7. old \in DOMAIN f /\ k \notin DOMAIN f /\ k # old
  BY <1>6 DEF HasKey
<1> HIDE DEF n, old
<1>8. \A x, w : Binds(U, x, w) <=> (x = k /\ Binds(T, old, w)) \/ (x # old /\ x # k /\ Binds(T, x, w))
  <2> TAKE x, w
  <2>1. \A y, a, b : <<y, a>>[1] = y /\ <<y, a>>[2] = a /\ (<<y, a>> = <<x, b>> <=> y = x /\ a = b)
    OBVIOUS
  <2>2. ~Binds(T, k, w)
    BY <1>6, <1>7
  <2>3. Binds(T, old, w) <=> T.m_values[idx + 1][2] = w
    BY <1>2, <1>4, <1>5, <2>1 DEF Binds, n
  <2>4. Binds(U, x, w) <=> \/ <<k, T.m_values[idx + 1][2]>> = <<x, w>>
                           \/ \E j \in 1 .. n : j # idx + 1 /\ T.m_values[j] = <<x, w>>
    BY <1>2, <1>3 DEF Binds
  <2>5. (\E j \in 1 .. n : j # idx + 1 /\ T.m_values[j] = <<x, w>>) <=> x # old /\ Binds(T, x, w)
    BY <1>2, <1>4, <2>1 DEF Binds, n
  <2>6. <<k, T.m_values[idx + 1][2]>> = <<x, w>> <=> x = k /\ T.m_values[idx + 1][2] = w
    BY <2>1
  <2> QED BY <2>2, <2>3, <2>4, <2>5, <2>6
<1> HIDE DEF f
<1>9. g = [x \in D |-> g[x]] /\ \A x \in D : g[x] = IF x = k THEN f[old] ELSE f[x]
  OBVIOUS
<1> HIDE DEF g
<1>10. \A x, w : Binds(U, x, w) <=> x \in D /\ g[x] = w
  BY <1>6, <1>7, <1>8, <1>9
<1> HIDE DEF D
<1>11. Mapping(U) = g
  BY <1>9, <1>10, MappingFrom
<1> QED
  BY <1>7, <1>11 DEF g, f, D, old, Renamed

\* Values gathered from a container have its keys.
LEMMA MapsGather ==
  ASSUME NEW U, Whole(U), NEW c \in Seq(Key \X Val), Gathers(U, c, Len(c))
  PROVE  LET g == Mapping(U)
         IN /\ g \in [{c[i][1] : i \in DOMAIN c} -> Val]
            /\ \A k \in DOMAIN g : \E i \in DOMAIN c : c[i] = <<k, g[k]>>
<1> DEFINE g == Mapping(U)
           n == Len(c)
<1>1. /\ g \in [DOMAIN g -> Val] /\ \A k : k \in DOMAIN g <=> HasKey(U, k)
      /\ \A k, v : Binds(U, k, v) <=> k \in DOMAIN g /\ g[k] = v
  BY MappingIs
<1> HIDE DEF g
<1>2. DOMAIN c = 1 .. n
  OBVIOUS
<1>3. \A k \in DOMAIN g : \E i \in DOMAIN c : c[i] = <<k, g[k]>>
  <2> TAKE k \in DOMAIN g
  <2>1. PICK j \in 1 .. size(U) : U.m_values[j] = <<k, g[k]>>
    BY <1>1 DEF Binds
  <2> QED BY <1>2, <2>1 DEF Gathers
<1>4. DOMAIN g = {c[i][1] : i \in DOMAIN c}
  <2>1. \A k \in DOMAIN g : \E i \in DOMAIN c : c[i][1] = k
    BY <1>3
  <2>2. \A i \in DOMAIN c : c[i][1] \in DOMAIN g
    BY <1>1, <1>2 DEF Gathers
  <2> QED BY <2>1, <2>2
<1> QED
  BY <1>1, <1>3, <1>4 DEF g

\* Values drawn from a container are entries of it.
LEMMA MapsDraw ==
  ASSUME NEW U, Whole(U), NEW c \in Seq(Key \X Val), Draws(U, c, Len(c)), size(U) = max_size
  PROVE  LET g == Mapping(U)
         IN /\ g \in [DOMAIN g -> Val] /\ Cardinality(DOMAIN g) = max_size
            /\ DOMAIN g \in SUBSET {c[i][1] : i \in DOMAIN c}
            /\ \A k \in DOMAIN g : \E i \in DOMAIN c : c[i] = <<k, g[k]>>
<1> DEFINE g == Mapping(U)
           n == Len(c)
<1>1. /\ g \in [DOMAIN g -> Val] /\ \A k, v : Binds(U, k, v) <=> k \in DOMAIN g /\ g[k] = v
      /\ Cardinality(DOMAIN g) = max_size
  BY MappingIs, MappingSize
<1> HIDE DEF g
<1>2. DOMAIN c = 1 .. n
  OBVIOUS
<1>3. \A k \in DOMAIN g : \E i \in DOMAIN c : c[i] = <<k, g[k]>>
  <2> TAKE k \in DOMAIN g
  <2>1. PICK j \in 1 .. size(U) : U.m_values[j] = <<k, g[k]>>
    BY <1>1 DEF Binds
  <2> QED BY <1>2, <2>1 DEF Draws
<1>4. \A k \in DOMAIN g : \E i \in DOMAIN c : c[i][1] = k
  BY <1>3
<1> QED
  BY <1>1, <1>3, <1>4 DEF g

\* A table with values of a container has all its keys, or one is missing.
LEMMA HasAllIs ==
  ASSUME NEW U, Whole(U), NEW c \in Seq(Key \X Val), Draws(U, c, Len(c))
  PROVE  HasAll(U, c) <=> Gathers(U, c, Len(c))
<1>1. U.m_values \in Seq(Key \X Val) /\ size(U) = Len(U.m_values) /\ Indices(U) = 0 .. size(U) - 1
      /\ size(U) \in Nat
  BY TableParts DEF Whole
<1>2. DOMAIN U.m_values = 1 .. size(U) /\ DOMAIN c = 1 .. Len(c)
  BY <1>1
<1>3. Range(U.m_values) = {U.m_values[j] : j \in 1 .. size(U)}
  BY <1>2 DEF Range
<1>4. ASSUME NEW k PROVE HasKey(U, k) <=> \E j \in 1 .. size(U) : U.m_values[j][1] = k
  <2>1. ASSUME HasKey(U, k) PROVE \E j \in 1 .. size(U) : U.m_values[j][1] = k
    <3>1. PICK i \in Indices(U) : get_key(U, i) = k
      BY <2>1 DEF HasKey
    <3>2. i + 1 \in 1 .. size(U)
      BY <1>1
    <3> QED BY <3>1, <3>2 DEF get_key
  <2>2. ASSUME NEW j \in 1 .. size(U), U.m_values[j][1] = k PROVE HasKey(U, k)
    <3>1. j - 1 \in Indices(U) /\ (j - 1) + 1 = j
      BY <1>1
    <3>2. get_key(U, j - 1) = k
      BY <2>2, <3>1 DEF get_key
    <3> QED BY <3>1, <3>2 DEF HasKey
  <2> QED BY <2>1, <2>2
<1>5. HasAll(U, c) <=> \A l \in 1 .. Len(c) : HasKey(U, c[l][1])
  BY <1>2, <1>3, <1>4 DEF HasAll
<1> QED
  BY <1>5 DEF Draws, Gathers

\* Fewer values of the same are fewer entries of the same.
LEMMA MapsPrune ==
  ASSUME NEW T, Whole(T), NEW U, Whole(U), Range(U.m_values) \subseteq Range(T.m_values)
  PROVE  Mapping(U) = Restrict(Mapping(T), DOMAIN Mapping(U)) /\ DOMAIN Mapping(U) \subseteq DOMAIN Mapping(T)
<1>1. ASSUME NEW A, Whole(A) PROVE \A x, w : Binds(A, x, w) <=> <<x, w>> \in Range(A.m_values)
  <2>1. A.m_values \in Seq(Key \X Val) /\ size(A) = Len(A.m_values)
    BY <1>1, TableParts DEF Whole
  <2>2. DOMAIN A.m_values = 1 .. size(A)
    BY <2>1
  <2>3. Range(A.m_values) = {A.m_values[j] : j \in 1 .. size(A)}
    BY <2>2 DEF Range
  <2> QED BY <2>3 DEF Binds
<1>2. \A x, w : Binds(U, x, w) => Binds(T, x, w)
  BY <1>1
<1> QED
  BY <1>2, MapsRestrict

\* The operators of the abstract specification that both modules know.
LEMMA SameOperators ==
  /\ \A S : Map!Cardinality(S) = Cardinality(S)
  /\ \A S, f : Map!Restrict(f, S) = Restrict(f, S)
<1>1. \A S : Map!Cardinality(S) = Cardinality(S)
  BY DEF Map!Cardinality, Cardinality
<1>2. \A S, f : Map!Restrict(f, S) = Restrict(f, S)
  BY DEF Map!Restrict, Restrict
<1> QED
  BY <1>1, <1>2

\* A value that is tried is inserted into the map, or found, or refused.
LEMMA MapsTry ==
  ASSUME TableInv, Ready(tbl), NEW k \in Key, NEW v \in Val, NEW r,
         Tries(tbl, k, v, r) \/ (~HasKey(tbl, k) /\ Adds(tbl, k, v, r)), Return(r, <<k, v>>)
  PROVE  Map!MNext
<1> DEFINE f == Mapping(tbl)
<1>1. Contents = f /\ Contents' = Mapping(tbl')
  BY DEF Contents, Mapping
<1>2. tbl' = r.table /\ ret' = <<r.ret, k, v>>
  BY Answers DEF Return, Become
<1>3. /\ Whole(tbl) /\ (k \in DOMAIN f <=> HasKey(tbl, k)) /\ Cardinality(DOMAIN f) = size(tbl)
      /\ size(tbl) \in Nat /\ max_size \in Nat
  BY MappingIs, MappingSize, TableParts, Widths DEF Whole
<1> HIDE DEF f
<1>4. Map!MInsert(k, v)
  <2>1. CASE HasKey(tbl, k) /\ r = Result(tbl, "found")
    <3>1. tbl' = tbl /\ ret' = <<"found", k, v>>
      BY <1>2, <2>1, ResultIs
    <3>2. Contents' = Contents
      BY <1>1, <3>1 DEF f
    <3> QED BY <1>1, <1>3, <2>1, <3>1, <3>2 DEF Map!MInsert
  <2>2. CASE ~HasKey(tbl, k) /\ r = Result(tbl, "overflow") /\ size(tbl) = max_size
    <3>1. tbl' = tbl /\ ret' = <<"overflow", k, v>>
      BY <1>2, <2>2, ResultIs
    <3>2. Contents' = Contents
      BY <1>1, <3>1 DEF f
    <3>3. Map!Full
      BY <1>1, <1>3, <2>2, SameOperators DEF Map!Full
    <3> QED BY <1>1, <1>3, <2>2, <3>1, <3>2, <3>3 DEF Map!MInsert
  <2>3. CASE ~HasKey(tbl, k) /\ Adds(tbl, k, v, r) /\ ~(size(tbl) = max_size)
    <3>1. PICK U : r = Result(U, "inserted") /\ Ready(U) /\ U.m_values = Append(tbl.m_values, <<k, v>>)
      BY <2>3 DEF Adds
    <3>2. tbl' = U /\ ret' = <<"inserted", k, v>>
      BY <1>2, <3>1, ResultIs
    <3>3. Mapping(U) = With(f, k, v)
      BY <1>3, <2>3, <3>1, MapsAppend DEF Whole, f
    <3>4. Contents' = Map!Bind(k, v)
      BY <1>1, <3>2, <3>3 DEF Map!Bind, With
    <3>5. ~Map!Full
      BY <1>1, <1>3, <2>3, SameOperators DEF Map!Full
    <3> QED BY <1>1, <1>3, <2>3, <3>2, <3>4, <3>5 DEF Map!MInsert
  <2>4. Adds(tbl, k, v, r) /\ size(tbl) = max_size => r = Result(tbl, "overflow")
    BY <1>3 DEF Adds
  <2> QED BY <2>1, <2>2, <2>3, <2>4 DEF Tries
<1> QED
  BY <1>4 DEF Map!MNext

\* insert_or_assign() inserts into the map or assigns.
LEMMA MapsInsertOrAssign ==
  ASSUME TableInv, InsertOrAssign
  PROVE  Map!MNext
<1>1. HashOK /\ Ready(tbl)
  BY UsableIs DEF InsertOrAssign
<1>2. PICK k \in Key, v \in Val : Return(do_insert_or_assign(tbl, k, v), <<k, v>>)
  BY DEF InsertOrAssign
<1> DEFINE r == do_insert_or_assign(tbl, k, v)
<1>3. \/ ~HasKey(tbl, k) /\ Adds(tbl, k, v, r)
      \/ \E idx \in Indices(tbl) : \E U :
           /\ get_key(tbl, idx) = k /\ r = Result(U, "assigned")
           /\ Ready(U) /\ Assigned(tbl, U, idx, k, v)
  BY <1>1, InsertOrAssignIs
<1>4. Return(r, <<k, v>>)
  BY <1>2
<1> HIDE DEF r
<1>5. CASE ~HasKey(tbl, k) /\ Adds(tbl, k, v, r)
  BY <1>1, <1>4, <1>5, MapsTry
<1>6. CASE \E idx \in Indices(tbl) : \E U :
             /\ get_key(tbl, idx) = k /\ r = Result(U, "assigned")
             /\ Ready(U) /\ Assigned(tbl, U, idx, k, v)
  <2>1. PICK idx \in Indices(tbl) : \E U :
               /\ get_key(tbl, idx) = k /\ r = Result(U, "assigned")
               /\ Ready(U) /\ Assigned(tbl, U, idx, k, v)
    BY <1>6
  <2>2. PICK U : /\ get_key(tbl, idx) = k /\ r = Result(U, "assigned")
                 /\ Ready(U) /\ Assigned(tbl, U, idx, k, v)
    BY <2>1
  <2>3. tbl' = U /\ ret' = <<"assigned", k, v>>
    <3>1. tbl' = r.table /\ ret' = <<r.ret, k, v>>
      BY <1>4, Answers DEF Return, Become
    <3> QED BY <2>2, <3>1, ResultIs
  <2>4. Mapping(U) = With(Mapping(tbl), k, v) /\ k \in DOMAIN Mapping(tbl)
    BY <1>1, <2>2, MapsAssign DEF Whole
  <2>5. Contents = Mapping(tbl) /\ Contents' = Mapping(U)
    BY <2>3 DEF Contents, Mapping
  <2>6. Map!MAssign(k, v)
    BY <2>3, <2>4, <2>5 DEF Map!MAssign, Map!Bind, With
  <2> QED BY <2>6 DEF Map!MNext
<1> QED BY <1>3, <1>5, <1>6

\* erase(key) removes the entry of the key, if there is one.
LEMMA MapsEraseKey ==
  ASSUME TableInv, EraseKey
  PROVE  Map!MNext
<1>1. HashOK /\ Ready(tbl) /\ Whole(tbl)
  BY UsableIs DEF EraseKey, Whole
<1>2. PICK k \in Key : Return(do_erase_key(tbl, k), <<k>>)
  BY DEF EraseKey
<1> DEFINE r == do_erase_key(tbl, k)
           f == Mapping(tbl)
<1>3. \/ ~HasKey(tbl, k) /\ r = Result(tbl, "absent")
      \/ \E idx \in Indices(tbl) : \E U :
           /\ get_key(tbl, idx) = k /\ r = Result(U, "erased")
           /\ Ready(U) /\ Removed(tbl, U, idx)
  BY <1>1, ErasesKey
<1>4. Return(r, <<k>>)
  BY <1>2
<1> HIDE DEF r
<1>5. tbl' = r.table /\ ret' = <<r.ret, k>>
  BY <1>4, Answers DEF Return, Become
<1>6. Contents = f /\ Contents' = Mapping(tbl')
  BY DEF Contents, Mapping
<1>7. f = [x \in DOMAIN f |-> f[x]] /\ (k \in DOMAIN f <=> HasKey(tbl, k))
  BY <1>1, MappingIs
<1>8. Mapping(tbl') = Restrict(f, DOMAIN f \ {k}) /\ ret' = <<IF k \in DOMAIN f THEN "erased" ELSE "absent", k>>
  <2>1. CASE ~HasKey(tbl, k) /\ r = Result(tbl, "absent")
    <3>1. tbl' = tbl /\ ret' = <<"absent", k>>
      BY <1>5, <2>1, ResultIs
    <3> HIDE DEF f
    <3>2. DOMAIN f \ {k} = DOMAIN f
      BY <1>7, <2>1
    <3>3. Restrict(f, DOMAIN f) = f
      BY <1>7, Zenon DEF Restrict
    <3> QED BY <1>7, <2>1, <3>1, <3>2, <3>3 DEF f
  <2>2. CASE \E idx \in Indices(tbl) : \E U :
               /\ get_key(tbl, idx) = k /\ r = Result(U, "erased")
               /\ Ready(U) /\ Removed(tbl, U, idx)
    <3>1. PICK idx \in Indices(tbl) : \E U :
               /\ get_key(tbl, idx) = k /\ r = Result(U, "erased")
               /\ Ready(U) /\ Removed(tbl, U, idx)
      BY <2>2
    <3>2. PICK U : /\ get_key(tbl, idx) = k /\ r = Result(U, "erased")
                   /\ Ready(U) /\ Removed(tbl, U, idx)
      BY <3>1
    <3>3. tbl' = U /\ ret' = <<"erased", k>>
      BY <1>5, <3>2, ResultIs
    <3>4. Mapping(U) = Restrict(f, DOMAIN f \ {k}) /\ k \in DOMAIN f
      BY <1>1, <3>2, MapsRemove DEF Whole
    <3> QED BY <3>3, <3>4
  <2> QED BY <1>3, <2>1, <2>2
<1> HIDE DEF f
<1>9. Map!MErase(k)
  BY <1>6, <1>8, SameOperators DEF Map!MErase
<1> QED BY <1>9 DEF Map!MNext

\* replace_key() moves the entry to the other key, unless that one is there.
LEMMA MapsReplaceKey ==
  ASSUME TableInv, ReplaceKey
  PROVE  Map!MNext
<1>1. HashOK /\ Ready(tbl) /\ Whole(tbl)
  BY UsableIs DEF ReplaceKey, Whole
<1>2. PICK idx \in 0 .. size(tbl) - 1, k \in Key :
        Return(replace_key(tbl, idx, k), <<get_key(tbl, idx), k>>)
  BY DEF ReplaceKey
<1> DEFINE r == replace_key(tbl, idx, k)
           f == Mapping(tbl)
           old == get_key(tbl, idx)
<1>3. idx \in Indices(tbl)
  BY <1>2 DEF Indices
<1>4. \/ HasKey(tbl, k) /\ r = Result(tbl, "found")
      \/ ~HasKey(tbl, k) /\ \E U : r = Result(U, "rekeyed") /\ Ready(U) /\ Rekeyed(tbl, U, idx, k)
  BY <1>1, <1>3, ReplacesKey
<1>5. Return(r, <<old, k>>)
  BY <1>2
<1> HIDE DEF r
<1>6. tbl' = r.table /\ ret' = <<r.ret, old, k>>
  BY <1>5, Answers DEF Return, Become
<1>7. Contents = f /\ Contents' = Mapping(tbl')
  BY DEF Contents, Mapping
<1>8. /\ DOMAIN f \subseteq Key /\ (k \in DOMAIN f <=> HasKey(tbl, k))
      /\ (old \in DOMAIN f <=> HasKey(tbl, old))
  BY <1>1, MappingIs
<1>9. old \in DOMAIN f /\ old \in Key
  BY <1>3, <1>8 DEF HasKey
<1>10. Map!MRekey(old, k)
  <2>1. CASE HasKey(tbl, k) /\ r = Result(tbl, "found")
    <3>1. tbl' = tbl /\ ret' = <<"found", old, k>>
      BY <1>6, <2>1, ResultIs
    <3> HIDE DEF f, old
    <3> QED BY <1>7, <1>8, <1>9, <2>1, <3>1 DEF f, Map!MRekey
  <2>2. CASE ~HasKey(tbl, k) /\ \E U : r = Result(U, "rekeyed") /\ Ready(U) /\ Rekeyed(tbl, U, idx, k)
    <3>1. PICK U : r = Result(U, "rekeyed") /\ Ready(U) /\ Rekeyed(tbl, U, idx, k)
      BY <2>2
    <3>2. tbl' = U /\ ret' = <<"rekeyed", old, k>>
      BY <1>6, <3>1, ResultIs
    <3>3. Mapping(U) = Renamed(f, old, k) /\ k \notin DOMAIN f
      BY <1>1, <1>3, <2>2, <3>1, MapsRekey DEF Whole
    <3> HIDE DEF f, old
    <3> QED BY <1>7, <1>9, <3>2, <3>3 DEF Map!MRekey, Renamed
  <2> QED BY <1>4, <2>1, <2>2
<1> HIDE DEF old
<1> QED BY <1>9, <1>10 DEF Map!MNext

\* replace() and operator=(initializer_list) take the entries of a container.
LEMMA MapsReplace ==
  ASSUME TableInv, Replace \/ AssignList
  PROVE  Map!MNext
<1>1. HashOK /\ (Usable => Ready(tbl)) /\ (Ready(tbl) \/ Bare(tbl))
  BY UsableIs DEF TableInv
<1>2. Contents = Mapping(tbl) /\ Contents' = Mapping(tbl')
  BY DEF Contents, Mapping
<1>3. ASSUME NEW c \in Containers, Ready(tbl'), Gathers(tbl', c, Len(c)), ret' = <<"replaced">> PROVE Map!MNext
  <2>1. c \in Seq(Key \X Val) /\ Whole(tbl')
    BY <1>3, DenseMapAssumption DEF Whole
  <2> DEFINE g == Mapping(tbl')
  <2>2. g \in [{c[i][1] : i \in DOMAIN c} -> Val] /\ \A k \in DOMAIN g : \E i \in DOMAIN c : c[i] = <<k, g[k]>>
    BY <1>3, <2>1, MapsGather
  <2> HIDE DEF g
  <2>3. Contents' = g
    BY <1>2 DEF g
  <2>4. Map!MReplace(c)
    BY <1>3, <2>2, <2>3, Zenon DEF Map!MReplace
  <2> QED BY <2>4 DEF Map!MNext
<1>4. CASE Replace
  <2>1. PICK c \in Containers :
          \/ Len(c) > max_size /\ Become(tbl, <<"too_many_elements">>)
          \/ Representable(Len(c)) /\ Become(replace(tbl, c), <<"replaced">>)
    BY <1>4 DEF Replace
  <2>2. CASE Len(c) > max_size /\ Become(tbl, <<"too_many_elements">>)
    <3>1. tbl' = tbl /\ ret' = <<"too_many_elements">>
      BY <2>2 DEF Become
    <3>2. Contents' = Contents
      BY <1>2, <3>1
    <3>3. Map!MTooMany(c)
      BY <2>2, <3>1, <3>2 DEF Map!MTooMany
    <3> QED BY <3>3 DEF Map!MNext
  <2>3. CASE Representable(Len(c)) /\ Become(replace(tbl, c), <<"replaced">>)
    <3>1. c \in Seq(Key \X Val)
      BY DenseMapAssumption
    <3>2. Ready(replace(tbl, c)) /\ Gathers(replace(tbl, c), c, Len(c))
      BY <1>1, <2>3, <3>1, ReplaceIs DEF Representable
    <3>3. tbl' = replace(tbl, c) /\ ret' = <<"replaced">>
      BY <2>3 DEF Become
    <3> QED BY <1>3, <3>2, <3>3
  <2> QED BY <2>1, <2>2, <2>3
<1>5. CASE AssignList
  <2>1. PICK c \in Containers :
          LET T == InsertRange(clear(tbl), c) IN
          Usable /\ Become(T, <<IF HasAll(T, c) THEN "replaced" ELSE "overflow">>)
    BY <1>5, Zenon DEF AssignList
  <2>2. c \in Seq(Key \X Val)
    BY DenseMapAssumption
  <2> DEFINE T == clear(tbl)
             U == InsertRange(T, c)
  <2>3. Ready(T) /\ size(T) = 0
    BY <1>1, <2>1, ClearIs, NoValues
  <2>4. tbl' = U /\ ret' = <<IF HasAll(U, c) THEN "replaced" ELSE "overflow">>
    BY <2>1 DEF Become
  <2> HIDE DEF T
  <2>5. Ready(U) /\ Draws(U, c, Len(c)) /\ (Gathers(U, c, Len(c)) \/ size(U) = max_size)
    BY <1>1, <2>2, <2>3, InsertRangeIs
  <2> HIDE DEF U
  <2>6. Whole(U) /\ (HasAll(U, c) <=> Gathers(U, c, Len(c)))
    BY <2>2, <2>5, HasAllIs DEF Whole
  <2>7. CASE HasAll(U, c)
    BY <1>3, <2>4, <2>5, <2>6, <2>7
  <2>8. CASE ~HasAll(U, c)
    <3> DEFINE g == Mapping(U)
    <3>1. /\ g \in [DOMAIN g -> Val] /\ Cardinality(DOMAIN g) = max_size
          /\ DOMAIN g \in SUBSET {c[i][1] : i \in DOMAIN c}
          /\ \A k \in DOMAIN g : \E i \in DOMAIN c : c[i] = <<k, g[k]>>
      BY <2>2, <2>5, <2>6, <2>8, MapsDraw
    <3>2. Contents' = g /\ ret' = <<"overflow">>
      BY <1>2, <2>4, <2>8
    <3> HIDE DEF g
    <3>3. Map!Cardinality(DOMAIN g) = max_size
      BY <3>1, SameOperators
    <3>4. Map!MReplacePart(c)
      BY <3>1, <3>2, <3>3, Zenon DEF Map!MReplacePart
    <3> QED BY <3>4 DEF Map!MNext
  <2> QED BY <2>7, <2>8
<1> QED BY <1>4, <1>5

\* erase(first, last) and erase_if() remove entries, and change no other.
LEMMA MapsErase ==
  ASSUME TableInv, Erase \/ EraseIf
  PROVE  Map!MNext
<1>1. HashOK /\ Ready(tbl) /\ Whole(tbl)
  BY UsableIs DEF Erase, EraseIf, Whole
<1>2. Contents = Mapping(tbl) /\ Contents' = Mapping(tbl')
  BY DEF Contents, Mapping
<1>3. Ready(tbl') /\ Range(tbl'.m_values) \subseteq Range(tbl.m_values) /\ ret' = <<"pruned">>
  <2>1. CASE Erase
    <3>1. PICK first \in 0 .. size(tbl), last \in 0 .. size(tbl) :
            first <= last /\ Become(EraseRange(tbl, first, last), <<"pruned">>)
      BY <2>1 DEF Erase
    <3> DEFINE U == EraseRange(tbl, first, last)
    <3>2. Ready(U) /\ Range(U.m_values) = {tbl.m_values[i] : i \in (1 .. first) \cup (last + 1 .. size(tbl))}
      BY <1>1, <3>1, EraseRangeIs
    <3>3. tbl' = U /\ ret' = <<"pruned">>
      BY <3>1 DEF Become
    <3> HIDE DEF U
    <3>4. tbl.m_values \in Seq(Key \X Val) /\ size(tbl) = Len(tbl.m_values) /\ size(tbl) \in Nat
      BY <1>1, TableParts
    <3>5. \A i \in (1 .. first) \cup (last + 1 .. size(tbl)) : i \in DOMAIN tbl.m_values
      BY <3>4
    <3>6. Range(U.m_values) \subseteq Range(tbl.m_values)
      BY <3>2, <3>5 DEF Range
    <3> QED BY <3>2, <3>3, <3>6
  <2>2. CASE EraseIf
    <3>1. PICK S : Become(erase_if(tbl, S), <<"pruned">>)
      BY <2>2 DEF EraseIf
    <3>2. /\ Ready(erase_if(tbl, S))
          /\ Range(erase_if(tbl, S).m_values) = {e \in Range(tbl.m_values) : e[1] \notin S}
      BY <1>1, EraseIfIs
    <3>3. tbl' = erase_if(tbl, S) /\ ret' = <<"pruned">>
      BY <3>1 DEF Become
    <3> QED BY <3>2, <3>3
  <2> QED BY <2>1, <2>2
<1> DEFINE S == DOMAIN Mapping(tbl')
<1>4. Mapping(tbl') = Restrict(Mapping(tbl), S) /\ S \subseteq DOMAIN Mapping(tbl)
  BY <1>1, <1>3, MapsPrune DEF Whole
<1> HIDE DEF S
<1>5. Map!MPrune(S) /\ S \in SUBSET DOMAIN Contents
  BY <1>2, <1>3, <1>4, SameOperators DEF Map!MPrune
<1> QED BY <1>5 DEF Map!MNext

\* clear() and a move leave the empty map; a rehash, another load factor and
\* a copy leave the map alone.
LEMMA MapsWhole ==
  ASSUME TableInv, Clear \/ Move \/ SetMaxLoadFactor \/ Rehash \/ Reserve \/ Copy
  PROVE  Map!MNext
<1>1. HashOK /\ (Usable => Ready(tbl)) /\ (Ready(tbl) \/ Bare(tbl))
  BY UsableIs DEF TableInv
<1>2. Contents = Mapping(tbl) /\ Contents' = Mapping(tbl')
  BY DEF Contents, Mapping
<1>3. ASSUME tbl'.m_values = << >>, ret' = <<"cleared">> PROVE Map!MNext
  <2>1. Contents' = << >>
    BY <1>2, <1>3, EmptyMapping
  <2>2. Map!MClear
    BY <1>3, <2>1 DEF Map!MClear
  <2> QED BY <2>2 DEF Map!MNext
<1>4. ASSUME tbl'.m_values = tbl.m_values, ret' = <<"void">> PROVE Map!MNext
  <2>1. Contents' = Contents
    BY <1>2, <1>4, SameMapping
  <2>2. Map!MSame
    BY <1>4, <2>1 DEF Map!MSame
  <2> QED BY <2>2 DEF Map!MNext
<1>5. CASE Clear
  <2>1. tbl' = clear(tbl) /\ ret' = <<"cleared">>
    BY <1>5 DEF Clear, Become
  <2> QED BY <1>1, <1>3, <2>1, ClearIs
<1>6. CASE Move
  <2>1. 0 \in 0 .. Load(max_bucket_count, default_max_load_factor)
    BY Widths, LoadLess
  <2>2. tbl' = MovedFrom /\ ret' = <<"cleared">>
    BY <1>6 DEF Move, Become
  <2> QED BY <1>1, <1>3, <2>1, <2>2, ConstructedIs
<1>7. CASE SetMaxLoadFactor
  <2>1. PICK ml \in Percents : tbl' = max_load_factor(tbl, ml) /\ ret' = <<"void">>
    BY <1>7 DEF SetMaxLoadFactor, Become
  <2> QED BY <1>1, <1>4, <2>1, MaxLoadFactorIs
<1>8. CASE Rehash
  <2>1. PICK n \in 0 .. max_size :
          Representable(Max({n, size(tbl)})) /\ tbl' = rehash(tbl, n) /\ ret' = <<"void">>
    BY <1>8 DEF Rehash, Become
  <2>2. n \in Nat
    BY Widths
  <2>3. rehash(tbl, n) = tbl \/ rehash(tbl, n).m_values = tbl.m_values
    BY <1>1, <2>1, <2>2, TableParts, RehashIs DEF Representable
  <2> QED BY <1>4, <2>1, <2>3
<1>9. CASE Reserve
  <2>1. PICK n \in 0 .. max_size :
          Representable(Max({n, size(tbl)})) /\ tbl' = reserve(tbl, n) /\ ret' = <<"void">>
    BY <1>9 DEF Reserve, Become
  <2>2. n \in Nat
    BY Widths
  <2>3. reserve(tbl, n) = tbl \/ reserve(tbl, n).m_values = tbl.m_values
    BY <1>1, <2>1, <2>2, TableParts, RehashIs DEF Representable
  <2> QED BY <1>4, <2>1, <2>3
<1>10. CASE Copy
  <2>1. Ready(tbl) \/ (Bare(tbl) /\ empty(tbl))
    BY <1>1, <1>10 DEF Copy
  <2>2. tbl' = CopyOf(tbl) /\ ret' = <<"void">>
    BY <1>10 DEF Copy, Become
  <2> QED BY <1>4, <2>1, <2>2, CopyIs
<1> QED BY <1>5, <1>6, <1>7, <1>8, <1>9, <1>10

\* A failed allocation leaves the new entry in the map.
LEMMA MapsAllocFails ==
  ASSUME TableInv, AllocFails
  PROVE  Map!MNext
<1>1. HashOK /\ Ready(tbl) /\ Whole(tbl) /\ InsertedValue \in Val
  BY UsableIs, DenseMapAssumption DEF AllocFails, Whole, InsertedValue
<1>2. PICK k \in Key :
        /\ ~Hit(tbl, k, Probe(tbl, k))
        /\ Appended(tbl, k, InsertedValue).m_max_bucket_capacity # max_bucket_count
        /\ Become(Bereft(Appended(tbl, k, InsertedValue)), <<"bad_alloc", k, InsertedValue>>)
  BY Zenon DEF AllocFails, Appended, Bereft
<1> DEFINE v == InsertedValue
           U == Bereft(Appended(tbl, k, v))
           f == Mapping(tbl)
<1> HIDE DEF v
<1>3. ~HasKey(tbl, k)
  BY <1>1, <1>2, ReadyIs, ProbeFinds DEF HasKey
<1>4. tbl.m_max_bucket_capacity # max_bucket_count
  <2>1. SameFrame(tbl, Appended(tbl, k, v))
    BY <1>1, AppendedIs DEF v
  <2> QED BY <1>2, <2>1 DEF SameFrame, v
<1>5. Bare(U) /\ U.m_values = Append(tbl.m_values, <<k, v>>)
  BY <1>1, <1>3, <1>4, BereftIs DEF v
<1>6. tbl' = U /\ ret' = <<"bad_alloc", k, v>>
  BY <1>2 DEF Become, v
<1> HIDE DEF U
<1>7. Mapping(U) = With(f, k, v)
  BY <1>1, <1>3, <1>5, MapsAppend DEF Whole, v
<1>8. k \notin DOMAIN f
  BY <1>1, <1>3, MappingIs
<1>9. Contents = f /\ Contents' = Mapping(U)
  BY <1>6 DEF Contents, Mapping
<1> HIDE DEF f
<1>10. Contents' = Map!Bind(k, v)
  BY <1>7, <1>9 DEF Map!Bind, With
<1>11. Map!MFail(k, v)
  BY <1>6, <1>8, <1>9, <1>10 DEF Map!MFail
<1>12. v \in Val
  BY <1>1 DEF v
<1> QED BY <1>11, <1>12 DEF Map!MNext

\* The other failed allocations change no entry.
LEMMA MapsNoMemory ==
  ASSUME TableInv, RehashFails \/ ReplaceFails \/ CopyFails
  PROVE  Map!MNext
<1>1. PICK shifts \in 0 .. initial_shifts : Become(Lost(tbl, shifts), <<"bad_alloc">>)
  BY FailsLose
<1>2. Lost(tbl, shifts).m_values = tbl.m_values
  BY LostIs DEF TableInv
<1>3. tbl' = Lost(tbl, shifts) /\ ret' = <<"bad_alloc">>
  BY <1>1 DEF Become
<1>4. Contents = Mapping(tbl) /\ Contents' = Mapping(tbl')
  BY DEF Contents, Mapping
<1>5. Contents' = Contents
  BY <1>2, <1>3, <1>4, SameMapping
<1>6. Map!MNoMemory
  BY <1>3, <1>5 DEF Map!MNoMemory
<1> QED BY <1>6 DEF Map!MNext

\* Every step of the table is a step of the map.
LEMMA NextMaps ==
  ASSUME TableInv, Next
  PROVE  Map!MNext \/ UNCHANGED <<Contents, ret>>
<1>1. HashOK /\ (Usable => Ready(tbl)) /\ InsertedValue \in Val
  BY UsableIs, DenseMapAssumption DEF InsertedValue
<1>2. CASE TryEmplace
  <2>1. PICK k \in Key : Return(do_try_emplace(tbl, k, InsertedValue), <<k, InsertedValue>>)
    BY <1>2 DEF TryEmplace
  <2>2. Ready(tbl)
    BY <1>1, <1>2 DEF TryEmplace
  <2> QED BY <1>1, <2>1, <2>2, TryEmplaceIs, MapsTry
<1>3. CASE Emplace
  <2>1. PICK k \in Key : Return(emplace(tbl, k, InsertedValue), <<k, InsertedValue>>)
    BY <1>3 DEF Emplace
  <2>2. Ready(tbl)
    BY <1>1, <1>3 DEF Emplace
  <2> QED BY <1>1, <2>1, <2>2, EmplaceIs, MapsTry
<1>4. CASE calls = MaxCalls /\ UNCHANGED vars
  BY <1>4 DEF vars, Contents
<1> QED
  BY <1>2, <1>3, <1>4, MapsInsertOrAssign, MapsEraseKey, MapsErase, MapsWhole, MapsReplaceKey, MapsReplace,
     MapsAllocFails, MapsNoMemory DEF Next

\* For any keys, hashes, widths and containers the vendored table is a map:
\* each operation changes the mapping and answers as a map's would.
THEOREM ImplementsAMap == Spec => ImplementsMap
<1>1. Init => Map!MInit
  <2> SUFFICES ASSUME Init PROVE Map!MInit
    OBVIOUS
  <2>1. Whole(tbl)
    BY InitReady DEF Whole
  <2>2. Contents = Mapping(tbl)
    BY DEF Contents, Mapping
  <2> DEFINE f == Mapping(tbl)
  <2>3. DOMAIN f \in SUBSET Key /\ f \in [DOMAIN f -> Val]
    BY <2>1, MappingIs
  <2> HIDE DEF f
  <2>4. \E S \in SUBSET Key : f \in [S -> Val]
    BY <2>3
  <2> QED BY <2>2, <2>4 DEF Map!MInit, Init, f
<1>2. TableInv /\ [Next]_vars => [Map!MNext]_<<Contents, ret>>
  <2> SUFFICES ASSUME TableInv, [Next]_vars PROVE Map!MNext \/ UNCHANGED <<Contents, ret>>
    OBVIOUS
  <2>1. CASE UNCHANGED vars
    BY <2>1 DEF vars, Contents
  <2> QED BY <2>1, NextMaps
<1>3. TableInv /\ [Next]_vars => [Map!MNext]_(Map!mvars)
  BY <1>2 DEF Map!mvars
<1> QED
  BY <1>1, <1>3, TableInvariant, PTL DEF Spec, ImplementsMap, Map!MSpec
==============================================================================
