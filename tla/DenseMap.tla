------------------------------ MODULE DenseMap ------------------------------
(***************************************************************************)
(* ankerl::unordered_dense::detail::table, the hash map that finds a       *)
(* location of the log by its address: values lie densely in m_values, and *)
(* a Robin Hood table of buckets, each with the distance from its home     *)
(* bucket, a few bits of the hash and an index, leads to them.             *)
(*                                                                         *)
(* A table is a record; a member function is an operator from the table    *)
(* before to the table after.  The widths are constants: 64 bits of hash,  *)
(* 8 of fingerprint, 32 of index in the code.  A loop over buckets is the  *)
(* least number of steps after which its condition fails.                  *)
(***************************************************************************)
EXTENDS Integers, Sequences, FiniteSets, FiniteSetsExt, SequencesExt

CONSTANTS
  Key, Val,
  none,             \* end()
  HashBits,         \* width of a hash
  FingerprintBits,  \* its low bits that a bucket keeps
  IndexBits,        \* width of value_idx_type
  InitialBits,      \* 2^InitialBits buckets at first
  HashValues,       \* bound: the hashes that keys may have
  Percents,         \* bound: maximum load factors, in percent
  Containers,       \* bound: ranges of values that are passed to the table
  MaxCalls          \* bound: operations called

\* 1 << n.
Power[n \in Nat] == IF n = 0 THEN 1 ELSE 2 * Power[n - 1]

ASSUME DenseMapAssumption ==
  /\ Val # {} /\ none \notin Nat
  /\ {HashBits, FingerprintBits, IndexBits, InitialBits} \subseteq Nat
  /\ InitialBits <= IndexBits /\ IndexBits <= HashBits
  /\ HashValues \subseteq 0 .. Power[HashBits] - 1
  /\ Percents \subseteq 1 .. 100
  /\ \A c \in Containers : c \in Seq(Key \X Val)
  /\ MaxCalls \in Nat

VARIABLES
  m_hash,  \* m_hash[k]: mixed_hash(k)
  tbl,     \* the table
  ret,     \* what the last operation returned, and its arguments
  calls    \* operations called so far

vars == <<m_hash, tbl, ret, calls>>

initial_shifts == HashBits - InitialBits
default_max_load_factor == 80
max_size == Power[IndexBits]
max_bucket_count == max_size

dist_inc == Power[FingerprintBits]
Vacant == [dist_and_fingerprint |-> 0, value_idx |-> 0]

size(T) == Len(T.m_values)
empty(T) == T.m_values = << >>
bucket_count(T) == Cardinality(DOMAIN T.m_buckets)
get_key(T, idx) == T.m_values[idx + 1][1]

dist_and_fingerprint_from_hash(hash) == dist_inc + (hash % dist_inc)
bucket_idx_from_hash(T, hash) == (hash \div Power[T.m_shifts]) % max_bucket_count

\* n times next(), and the bucket found there.
Forward(T, bucket_idx, n) == (bucket_idx + n) % bucket_count(T)
At(T, bucket_idx, n) == T.m_buckets[Forward(T, bucket_idx, n)]

\* The steps a loop over the buckets takes until Stop(n).
Steps(T, Stop(_)) ==
  CHOOSE n \in 0 .. bucket_count(T) + 1 : Stop(n) /\ \A i \in 0 .. n - 1 : ~Stop(i)

----------------------------------------------------------------------------
(* Buckets.                                                                *)

\* Where the search for a key stands after n steps: what a bucket with this
\* key would hold, and whether the bucket there does.
Home(T, k) == bucket_idx_from_hash(T, m_hash[k])
Dist(k, n) == dist_and_fingerprint_from_hash(m_hash[k]) + n * dist_inc
There(T, k, n) == At(T, Home(T, k), n).dist_and_fingerprint
Hit(T, k, n) ==
  /\ Dist(k, n) = There(T, k, n)
  /\ get_key(T, At(T, Home(T, k), n).value_idx) = k

next_while_less(T, k) == Steps(T, LAMBDA n : ~(Dist(k, n) < There(T, k, n)))

ShiftUpKeepingDistance(T, bucket, place) ==
  LET n == Steps(T, LAMBDA i : At(T, place, i).dist_and_fingerprint = 0)
  IN [T EXCEPT !.m_buckets = [b \in DOMAIN @ |->
        IF b = place THEN bucket
        ELSE IF \E i \in 1 .. n : b = Forward(T, place, i)
          THEN At(T, b, bucket_count(T) - 1)
        ELSE @[b]]]

\* place_and_shift_up({dist_and_fingerprint, value_idx}, place).
place_and_shift_up(T, bucket, place) ==
  LET n == Steps(T, LAMBDA i : At(T, place, i).dist_and_fingerprint = 0)
  IN [T EXCEPT !.m_buckets = [b \in DOMAIN @ |->
        IF b = place THEN bucket
        ELSE IF \E i \in 1 .. n : b = Forward(T, place, i)
          THEN [At(T, b, bucket_count(T) - 1) EXCEPT !.dist_and_fingerprint = @ + dist_inc]
        ELSE @[b]]]

\* The bucket is emptied and leaves a hole in the run behind it.
EraseLeavingHole(T, bucket_idx) == [T EXCEPT !.m_buckets[bucket_idx] = Vacant]

erase_and_shift_down(T, bucket_idx) ==
  LET n == Steps(T, LAMBDA i : At(T, bucket_idx, i + 1).dist_and_fingerprint < 2 * dist_inc)
  IN [T EXCEPT !.m_buckets = [b \in DOMAIN @ |->
        IF b = Forward(T, bucket_idx, n) THEN Vacant
        ELSE IF \E i \in 0 .. n - 1 : b = Forward(T, bucket_idx, i)
          THEN [At(T, b, 1) EXCEPT !.dist_and_fingerprint = @ - dist_inc]
        ELSE @[b]]]

calc_num_buckets(shifts) == Min({max_bucket_count, Power[HashBits - shifts]})

Load(n, percent) == (n * percent) \div 100

calc_shifts_for_size(T, s) ==
  Max({0} \cup {shifts \in 0 .. initial_shifts :
                  Load(calc_num_buckets(shifts), T.m_max_load_factor) >= s})

is_full(T) == size(T) > T.m_max_bucket_capacity

\* m_buckets of the size that m_shifts asks for, all vacant:
\* deallocate_buckets(), allocate_buckets_from_shift() and clear_buckets().
allocate_buckets_from_shift(T) ==
  LET num_buckets == calc_num_buckets(T.m_shifts)
  IN [T EXCEPT
        !.m_buckets = [b \in 0 .. num_buckets - 1 |-> Vacant],
        !.m_max_bucket_capacity =
          IF num_buckets = max_bucket_count THEN max_bucket_count
          ELSE Load(num_buckets, T.m_max_load_factor)]

clear_buckets(T) == [T EXCEPT !.m_buckets = [b \in DOMAIN @ |-> Vacant]]

\* A bucket for the value at value_idx, n steps from the home of its key k.
PlaceAt(T, k, value_idx, n) ==
  place_and_shift_up(T, [dist_and_fingerprint |-> Dist(k, n), value_idx |-> value_idx],
                     Forward(T, Home(T, k), n))

\* The same where next_while_less() ends: the key is known not to be there.
PlaceValue(T, value_idx) ==
  LET k == get_key(T, value_idx) IN PlaceAt(T, k, value_idx, next_while_less(T, k))

clear_and_fill_buckets_from_values(T) ==
  LET filled[n \in 0 .. size(T)] ==
        IF n = 0 THEN clear_buckets(T) ELSE PlaceValue(filled[n - 1], n - 1)
  IN filled[size(T)]

Resized(T, shifts) ==
  clear_and_fill_buckets_from_values(
    allocate_buckets_from_shift([T EXCEPT !.m_shifts = shifts]))

\* The bucket whose value_idx is idx, searched from the home of key k on.
BucketOf(T, k, idx) ==
  Forward(T, Home(T, k), Steps(T, LAMBDA n : At(T, Home(T, k), n).value_idx = idx))

----------------------------------------------------------------------------
(* The operations: the table after and the answer.                         *)

Result(T, r) == [table |-> T, ret |-> r]

\* The search of do_try_emplace(), emplace(), replace() and replace_key().
Probe(T, k) == Steps(T, LAMBDA n : Hit(T, k, n) \/ Dist(k, n) > There(T, k, n))

\* do_find(): the index of the value, or none.  The first two buckets are
\* only compared, without the test that ends the search.
do_find(T, k) ==
  IF empty(T) THEN none
  ELSE LET n == Steps(T, LAMBDA i : Hit(T, k, i) \/ (i >= 2 /\ Dist(k, i) > There(T, k, i)))
       IN IF Hit(T, k, n) THEN At(T, Home(T, k), n).value_idx ELSE none

pop_back(T) == [T EXCEPT !.m_values = Front(@)]

\* increase_size(), when the last value has no bucket yet.
OverflowKeepingValue(T) ==
  IF T.m_max_bucket_capacity = max_bucket_count
    THEN Result(T, "overflow")
    ELSE Result(Resized(T, T.m_shifts - 1), "inserted")
increase_size(T) ==
  IF T.m_max_bucket_capacity = max_bucket_count
    THEN Result(pop_back(T), "overflow")
    ELSE Result(Resized(T, T.m_shifts - 1), "inserted")

\* A value for k, which n steps of a search have not found.
do_place_element(T, k, v, n) ==
  LET A == [T EXCEPT !.m_values = Append(@, <<k, v>>)]
  IN IF is_full(A) THEN increase_size(A)
     ELSE Result(PlaceAt(A, k, size(T), n), "inserted")

do_try_emplace(T, k, v) ==
  LET n == Probe(T, k)
  IN IF Hit(T, k, n) THEN Result(T, "found") ELSE do_place_element(T, k, v, n)

InsertOrKeep(T, k, v) ==
  LET r == do_try_emplace(T, k, v)
  IN IF r.ret # "found" THEN r ELSE Result(T, "assigned")
do_insert_or_assign(T, k, v) ==
  LET r == do_try_emplace(T, k, v)
  IN IF r.ret # "found" THEN r
     ELSE Result([T EXCEPT !.m_values[do_find(T, k) + 1] = <<k, v>>], "assigned")

\* emplace() appends the value before it looks for its key.
emplace(T, k, v) ==
  LET A == [T EXCEPT !.m_values = Append(@, <<k, v>>)]
      n == Probe(A, k)
  IN IF Hit(A, k, n) THEN Result(pop_back(A), "found")
     ELSE IF is_full(A) THEN increase_size(A)
     ELSE Result(PlaceAt(A, k, size(T), n), "inserted")

\* insert(first, last).
InsertRange(T, container) ==
  LET inserted[n \in 0 .. Len(container)] ==
        IF n = 0 THEN T
        ELSE emplace(inserted[n - 1], container[n][1], container[n][2]).table
  IN inserted[Len(container)]

\* The last value fills the hole, and its bucket is told.
do_erase(T, bucket_idx) ==
  LET hole == T.m_buckets[bucket_idx].value_idx
      back == size(T) - 1
      E == erase_and_shift_down(T, bucket_idx)
      moved == BucketOf(E, get_key(T, back), back)
  IN IF hole = back THEN pop_back(E)
     ELSE [E EXCEPT !.m_values = Front([@ EXCEPT ![hole + 1] = Last(E.m_values)]),
                    !.m_buckets[moved].value_idx = hole]

do_erase_key(T, k) ==
  LET m == next_while_less(T, k)
      n == Steps(T, LAMBDA i : i >= m /\ ~(Dist(k, i) = There(T, k, i) /\ ~Hit(T, k, i)))
  IN IF empty(T) \/ Dist(k, n) # There(T, k, n) THEN Result(T, "absent")
     ELSE Result(do_erase(T, Forward(T, Home(T, k), n)), "erased")

\* erase(iterator); extract(iterator) is the same and returns the value.
erase(T, idx) == do_erase(T, BucketOf(T, get_key(T, idx), idx))

\* erase(first, last), of indices first .. last - 1: from the left as long as
\* values from behind the range fill the holes, then the rest from the right.
EraseRange(T, first, last) ==
  LET holes == Min({last - first, size(T) - last})
      erased[n \in 0 .. last - first] ==
        IF n = 0 THEN T
        ELSE erase(erased[n - 1], IF n <= holes THEN first + n - 1 ELSE last + holes - n)
  IN erased[last - first]

\* std::erase_if() of the keys in S, back to front.
EraseIfForward(T, S) ==
  LET kept[n \in 0 .. size(T)] ==
        IF n = 0 THEN T
        ELSE LET t == kept[n - 1]
             IN IF n <= size(t) /\ get_key(t, n - 1) \in S THEN erase(t, n - 1) ELSE t
  IN kept[size(T)]
erase_if(T, S) ==
  LET kept[n \in 0 .. size(T)] ==
        IF n = 0 THEN T
        ELSE LET t == kept[n - 1]
             IN IF get_key(t, size(T) - n) \in S THEN erase(t, size(T) - n) ELSE t
  IN kept[size(T)]

clear(T) == clear_buckets([T EXCEPT !.m_values = << >>])

replace_key(T, idx, k) ==
  LET old == get_key(T, idx)
      R == [T EXCEPT !.m_values[idx + 1][1] = k]
  IN IF Hit(T, k, Probe(T, k)) THEN Result(T, "found")
     ELSE Result(PlaceValue(erase_and_shift_down(R, BucketOf(R, old, idx)), idx), "rekeyed")

\* replace(container): its values one by one; one whose key is already there
\* is overwritten by the last.
ReplaceStep(s) ==
  LET T == s.table
      k == get_key(T, s.idx)
      n == Probe(T, k)
  IN IF Hit(T, k, n)
       THEN [s EXCEPT !.table.m_values = Front([@ EXCEPT ![s.idx + 1] = Last(T.m_values)])]
       ELSE [table |-> PlaceAt(T, k, s.idx, n), idx |-> s.idx + 1]

replace(T, container) ==
  LET shifts == calc_shifts_for_size(T, Len(container))
      B == IF bucket_count(T) = 0 \/ shifts < T.m_shifts
             THEN allocate_buckets_from_shift([T EXCEPT !.m_shifts = shifts])
             ELSE clear_buckets(T)
      replaced[n \in 0 .. Len(container)] ==
        IF n = 0 THEN [table |-> [B EXCEPT !.m_values = container], idx |-> 0]
        ELSE ReplaceStep(replaced[n - 1])
  IN replaced[Len(container)].table

\* The setter of m_max_load_factor.
max_load_factor(T, ml) ==
  [T EXCEPT !.m_max_load_factor = ml,
            !.m_max_bucket_capacity = IF bucket_count(T) # max_bucket_count
                                        THEN Load(bucket_count(T), ml) ELSE @]

rehash(T, count) ==
  LET shifts == calc_shifts_for_size(T, Max({count, size(T)}))
  IN IF shifts # T.m_shifts THEN Resized(T, shifts) ELSE T

reserve(T, capa) ==
  LET shifts == calc_shifts_for_size(T, Max({capa, size(T)}))
  IN IF bucket_count(T) = 0 \/ shifts < T.m_shifts THEN Resized(T, shifts) ELSE T

Blank ==
  [m_values |-> << >>, m_buckets |-> << >>, m_max_bucket_capacity |-> 0,
   m_max_load_factor |-> default_max_load_factor, m_shifts |-> initial_shifts]

\* table(bucket_count).
Constructed(n) ==
  IF n # 0 THEN reserve(Blank, n) ELSE allocate_buckets_from_shift(Blank)

\* A copy of other, constructed or assigned.
CopyOf(other) ==
  LET C == [Blank EXCEPT !.m_values = other.m_values,
                         !.m_max_load_factor = other.m_max_load_factor]
  IN IF empty(other) THEN allocate_buckets_from_shift(C)
     ELSE [allocate_buckets_from_shift([C EXCEPT !.m_shifts = other.m_shifts])
             EXCEPT !.m_buckets = other.m_buckets]

\* What is left of a table that another one was move-assigned from; the other
\* has all its fields.
MovedFrom == allocate_buckets_from_shift(Blank)

----------------------------------------------------------------------------
(* A program that uses a table.                                            *)

Usable == bucket_count(tbl) > 0

\* Sizes for which calc_shifts_for_size() ends before it shifts by the full
\* width of a word, which C++ leaves undefined.
Representable(s) == Load(max_bucket_count, tbl.m_max_load_factor) >= s

Become(T, r) ==
  /\ calls < MaxCalls
  /\ calls' = calls + 1
  /\ tbl' = T
  /\ ret' = r
  /\ UNCHANGED m_hash
Return(result, args) == Become(result.table, <<result.ret>> \o args)

\* Keys are alike: of the hash functions that differ by a renaming of keys one
\* is enough.
Init ==
  /\ LET key == SetToSeq(Key)
     IN \E h \in [Key -> HashValues] :
          /\ \A i \in 1 .. Len(key) - 1 : h[key[i]] <= h[key[i + 1]]
          /\ m_hash = h
  /\ \E n \in 0 .. Load(max_bucket_count, default_max_load_factor), c \in Containers :
       Len(c) <= max_size /\ tbl = InsertRange(Constructed(n), c)
  /\ ret = <<"void">>
  /\ calls = 0

\* The table never looks at a value: one is enough to insert, another can be
\* assigned.
InsertedValue == CHOOSE v \in Val : TRUE

TryEmplace ==
  Usable /\ \E k \in Key :
    Return(do_try_emplace(tbl, k, InsertedValue), <<k, InsertedValue>>)
Emplace ==
  Usable /\ \E k \in Key :
    Return(emplace(tbl, k, InsertedValue), <<k, InsertedValue>>)
InsertOrAssign ==
  Usable /\ \E k \in Key, v \in Val : Return(do_insert_or_assign(tbl, k, v), <<k, v>>)
EraseKey == Usable /\ \E k \in Key : Return(do_erase_key(tbl, k), <<k>>)
Erase ==
  Usable /\ \E first, last \in 0 .. size(tbl) :
    first <= last /\ Become(EraseRange(tbl, first, last), <<"pruned">>)
EraseIf ==
  Usable /\ \E S \in SUBSET {e[1] : e \in Range(tbl.m_values)} :
    Become(erase_if(tbl, S), <<"pruned">>)
Clear == Become(clear(tbl), <<"cleared">>)
ReplaceKey ==
  Usable /\ \E idx \in 0 .. size(tbl) - 1, k \in Key :
    Return(replace_key(tbl, idx, k), <<get_key(tbl, idx), k>>)
Replace ==
  \E c \in Containers :
    IF Len(c) > max_size THEN Become(tbl, <<"too_many_elements">>)
    ELSE Representable(Len(c)) /\ Become(replace(tbl, c), <<"replaced">>)
\* operator=(initializer_list).  When the table is full the next new key makes
\* insert() throw; the calls of emplace() that are left would change nothing.
HasAll(T, c) == \A i \in DOMAIN c : \E e \in Range(T.m_values) : e[1] = c[i][1]
AssignList ==
  \E c \in Containers :
    LET T == InsertRange(clear(tbl), c) IN
    Usable /\ Become(T, <<IF HasAll(T, c) THEN "replaced" ELSE "overflow">>)
SetMaxLoadFactor == \E ml \in Percents : Become(max_load_factor(tbl, ml), <<"void">>)
Rehash ==
  \E n \in 0 .. max_size :
    Representable(Max({n, size(tbl)})) /\ Become(rehash(tbl, n), <<"void">>)
Reserve ==
  \E n \in 0 .. max_size :
    Representable(Max({n, size(tbl)})) /\ Become(reserve(tbl, n), <<"void">>)
\* The program goes on with a copy, or with a table that was moved from.  The
\* branch of operator=(table&&) for unequal allocators is left out: those of
\* std::allocator are always equal.
Copy == (Usable \/ empty(tbl)) /\ Become(CopyOf(tbl), <<"void">>)
Move == Become(MovedFrom, <<"cleared">>)

\* The allocation in increase_size() throws: the old buckets are gone, and the
\* new value has no bucket.
AllocFails ==
  /\ Usable
  /\ \E k \in Key :
       LET A == [tbl EXCEPT !.m_values = Append(@, <<k, InsertedValue>>)] IN
       /\ ~Hit(tbl, k, Probe(tbl, k))
       /\ is_full(A)
       /\ A.m_max_bucket_capacity # max_bucket_count
       /\ Become([A EXCEPT !.m_shifts = @ - 1, !.m_buckets = << >>,
                           !.m_max_bucket_capacity = 0],
                 <<"bad_alloc", k, InsertedValue>>)

\* The other functions that free the buckets first: the values stay, and
\* m_shifts is already that of the buckets that could not be had.
LoseBuckets(shifts) ==
  Become([tbl EXCEPT !.m_shifts = shifts, !.m_buckets = << >>,
                     !.m_max_bucket_capacity = 0],
         <<"bad_alloc">>)

\* rehash() and reserve().
RehashFails ==
  \E n \in 0 .. max_size :
    LET s == Max({n, size(tbl)})
        shifts == calc_shifts_for_size(tbl, s)
    IN /\ Representable(s)
       /\ ~Usable \/ shifts # tbl.m_shifts
       /\ LoseBuckets(shifts)
ReplaceFails ==
  \E c \in Containers :
    LET shifts == calc_shifts_for_size(tbl, Len(c)) IN
    /\ Len(c) <= max_size /\ Representable(Len(c))
    /\ ~Usable \/ shifts < tbl.m_shifts
    /\ LoseBuckets(shifts)
\* operator=(table const &): the program goes on with the unfinished copy.
CopyFails ==
  /\ Usable \/ empty(tbl)
  /\ LoseBuckets(IF empty(tbl) THEN initial_shifts ELSE tbl.m_shifts)

Next ==
  \/ TryEmplace \/ Emplace \/ InsertOrAssign
  \/ EraseKey \/ Erase \/ EraseIf \/ Clear
  \/ ReplaceKey \/ Replace \/ AssignList
  \/ SetMaxLoadFactor \/ Rehash \/ Reserve
  \/ Copy \/ Move
  \/ AllocFails \/ RehashFails \/ ReplaceFails \/ CopyFails
  \/ calls = MaxCalls /\ UNCHANGED vars

Spec == Init /\ [][Next]_vars

----------------------------------------------------------------------------
\* The types of the variables.
TypeOK ==
  /\ m_hash \in [Key -> HashValues]
  /\ tbl.m_values \in Seq(Key \X Val)
  /\ size(tbl) <= max_size
  /\ DOMAIN tbl.m_buckets = 0 .. bucket_count(tbl) - 1
  /\ bucket_count(tbl) \in {0} \cup {Power[i] : i \in 0 .. IndexBits}
  /\ tbl.m_max_bucket_capacity \in 0 .. max_bucket_count
  /\ tbl.m_max_load_factor \in Percents \cup {default_max_load_factor}
  /\ tbl.m_shifts \in 0 .. initial_shifts
  /\ ret[1] \in {"void", "inserted", "found", "overflow", "bad_alloc", "assigned", "erased",
                 "absent", "pruned", "cleared", "rekeyed", "replaced", "too_many_elements"}
  /\ calls \in 0 .. MaxCalls

\* While there are buckets, each value has exactly one, at the distance from
\* home and with the fingerprint it holds, and no bucket lies farther from home
\* than one step more than the bucket before it: what every search relies on
\* when it ends early, and when it follows value_idx without looking at keys
\* (do_erase, replace_key).
BucketsExact ==
  Usable =>
    /\ \A b \in DOMAIN tbl.m_buckets :
         LET bucket == tbl.m_buckets[b] IN
         \/ bucket = Vacant
         \/ /\ bucket.value_idx \in 0 .. size(tbl) - 1
            /\ LET k == get_key(tbl, bucket.value_idx)
               IN \E n \in DOMAIN tbl.m_buckets :
                    /\ b = Forward(tbl, Home(tbl, k), n)
                    /\ bucket.dist_and_fingerprint = Dist(k, n)
            /\ \/ bucket.dist_and_fingerprint < 2 * dist_inc
               \/ bucket.dist_and_fingerprint
                    <= At(tbl, b, bucket_count(tbl) - 1).dist_and_fingerprint + dist_inc
    /\ \A idx \in 0 .. size(tbl) - 1 :
         Cardinality({b \in DOMAIN tbl.m_buckets :
                        tbl.m_buckets[b] # Vacant /\ tbl.m_buckets[b].value_idx = idx}) = 1

\* A table that has buckets finds every key it holds, at the right place, and
\* no other, whatever was inserted, erased, moved and rehashed before; two
\* values never have the same key.
FindsExactly ==
  Usable => \A k \in Key :
    {idx \in 0 .. size(tbl) - 1 : get_key(tbl, idx) = k} = {do_find(tbl, k)} \ {none}

Contents ==
  [k \in {get_key(tbl, idx) : idx \in 0 .. size(tbl) - 1} |->
     (CHOOSE e \in Range(tbl.m_values) : e[1] = k)[2]]

Map == INSTANCE AtomicMap WITH map <- Contents, answer <- ret

\* Every operation changes the mapping and answers as the same operation of a
\* map would: growing, rehashing and copying keep every entry, a full table
\* refuses the next, and replace() keeps one entry per key.
ImplementsMap == Map!MSpec

\* Erasing a range or a selection removes these values and no other, although
\* every single erasure moves the last value into the hole.
ErasesExactly ==
  Usable =>
    /\ \A first, last \in 0 .. size(tbl) : first <= last =>
         Range(EraseRange(tbl, first, last).m_values)
           = {tbl.m_values[i] : i \in (1 .. first) \cup (last + 1 .. size(tbl))}
    /\ \A S \in SUBSET Key :
         Range(erase_if(tbl, S).m_values) = {e \in Range(tbl.m_values) : e[1] \notin S}

=============================================================================
