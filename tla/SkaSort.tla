------------------------------ MODULE SkaSort ------------------------------
(***************************************************************************)
(* ska_sort() and ska_sort_copy(), the radix sort that brings the          *)
(* locations of a log into address order.  An element is a sequence of sub *)
(* keys: its shape says of each one its type and how many bytes of Radix   *)
(* values it has.  The log sorts by one unsigned number of eight bytes;    *)
(* pairs and tuples have several sub keys, and so have arrays when they    *)
(* are copied (in place they are sorted as lists, which is left out).      *)
(*                                                                         *)
(* Sorting in place takes one action per iteration of                      *)
(* american_flag_sort(), and one per element that ska_byte_sort()          *)
(* moves; recursive calls are frames on a stack.  Sorting by copying takes *)
(* one action per byte.                                                    *)
(***************************************************************************)
EXTENDS Integers, Sequences, FiniteSets, FiniteSetsExt, SequencesExt

CONSTANTS
  Radix,       \* values of a byte (256)
  Cases,       \* bound: shapes of keys, each with the elements to be sorted
  MaxLen,      \* bound: elements
  Thresholds,  \* bound: <<StdSortThreshold, AmericanFlagSortThreshold>>
  MaxPasses    \* passes from which ska_sort_copy() sorts in place (8)

\* The widths that SizedRadixSorter and SizedSubKey are there for.  "char" is
\* char or wchar_t, which are signed in this build; char16_t, char32_t and
\* pointers are unsigned.
SubKeyType ==
  [type : {"unsigned", "signed", "float"}, bytes : {1, 2, 4, 8}]
    \cup [type : {"char"}, bytes : {1, 4}]
    \cup [type : {"bool"}, bytes : {1}]

\* Radix ^ n.
Power[n \in Nat] == IF n = 0 THEN 1 ELSE Radix * Power[n - 1]
Full(k) == Power[k.bytes]
Half(k) == Full(k) \div 2

\* The bits that a sub key may have: a float is no negative zero.
Bits(k) ==
  IF k.type = "bool" THEN {0, 1}
  ELSE {u \in 0 .. Full(k) - 1 : k.type = "float" => u # Half(k)}

ASSUME SkaSortAssumption ==
  /\ Radix \in Nat \ {0} /\ Radix % 2 = 0
  /\ MaxLen \in Nat /\ MaxPasses \in Nat
  /\ \A c \in Cases :
       /\ c.shape \in Seq(SubKeyType) /\ c.shape # << >>
       /\ \A e \in c.elements :
            /\ DOMAIN e = DOMAIN c.shape
            /\ \A s \in DOMAIN c.shape : e[s] \in Bits(c.shape[s])
  /\ \A t \in Thresholds : t \in Nat \X Nat /\ t[1] >= 2

VARIABLES
  input,      \* what is to be sorted
  shape,      \* the sub keys of its elements
  threshold,  \* the thresholds
  copying,    \* ska_sort_copy() is called, not ska_sort()
  data,       \* the elements, element i in data[i + 1]
  buffer,     \* the output buffer of ska_sort_copy()
  which,      \* its result: the sorted elements are in the buffer
  frames,     \* calls that are left to do, the next one first
  pass        \* local variables of what is running

vars == <<input, shape, threshold, copying, data, buffer, which, frames, pass>>
config == <<input, shape, threshold, copying>>

Byte == 0 .. Radix - 1
StdSortThreshold == threshold[1]
AmericanFlagSortThreshold == threshold[2]

----------------------------------------------------------------------------
(* Keys.  A sub key is the number that its bits spell.                     *)

\* What the bits mean: two's complement; sign and magnitude.
Value(k, u) ==
  CASE k.type \in {"signed", "char"} /\ u >= Half(k) -> u - Full(k)
    [] k.type = "float" /\ u >= Half(k) -> Half(k) - u
    [] OTHER -> u

\* The number whose bytes are sorted; the sign bit of a char stays as it is.
UnsignedBits(k, u) == u
to_unsigned_or_bool(k, u) ==
  CASE k.type = "signed" -> (u + Half(k)) % Full(k)
    [] k.type = "float" -> IF u >= Half(k) THEN Full(k) - 1 - u ELSE u + Half(k)
    [] OTHER -> u

current_byte(elem, sub, offset) ==
  (to_unsigned_or_bool(shape[sub], elem[sub])
     \div Power[shape[sub].bytes - 1 - offset]) % Radix

\* extract_key(l) < extract_key(r).
Less(l, r) ==
  \E s \in DOMAIN shape :
    /\ \A i \in 1 .. s - 1 : Value(shape[i], l[i]) = Value(shape[i], r[i])
    /\ Value(shape[s], l[s]) < Value(shape[s], r[s])

\* data with its elements begin .. end - 1 brought into another order.
Rearranged(begin, end, p) ==
  [i \in DOMAIN data |-> IF begin < i /\ i <= end THEN data[p[i]] ELSE data[i]]
IterCopy(d, i, j) == [d EXCEPT ![i + 1] = d[j + 1]]
iter_swap(d, i, j) == [d EXCEPT ![i + 1] = d[j + 1], ![j + 1] = d[i + 1]]

----------------------------------------------------------------------------
(* Sorting into another buffer and back, byte by byte from the last.        *)

\* counting_sort_impl(): stable, by the numbers key[i].
counting_sort_impl(s, key) ==
  LET place(i) == Cardinality({j \in DOMAIN s : key[j] < key[i]})
                    + Cardinality({j \in 1 .. i : key[j] = key[i]})
  IN [p \in DOMAIN s |-> s[CHOOSE i \in DOMAIN s : place(i) = p]]

pass_count == Len(shape) + FoldLeft(LAMBDA n, k : n + k.bytes, 0, shape)

----------------------------------------------------------------------------
(* Sorting in place.                                                       *)

Frame(begin, end, sub, offset) ==
  [begin |-> begin, end |-> end, sub |-> sub, offset |-> offset]

Init ==
  /\ \E c \in Cases, n \in 0 .. MaxLen :
       shape = c.shape /\ input \in [1 .. n -> c.elements]
  /\ threshold \in Thresholds
  /\ copying \in BOOLEAN
  /\ data = input
  /\ buffer = << >>
  /\ which = FALSE
  /\ frames = << >>
  /\ pass = [kind |-> "call"]

\* ska_sort_copy() of many elements with short keys: RadixSorter of a pair, a
\* tuple or an array starts with the last sub key.
CallCopy ==
  /\ pass.kind = "call"
  /\ copying
  /\ Len(data) >= StdSortThreshold
  /\ pass_count < MaxPasses
  /\ buffer' = data
  /\ pass' = [kind |-> "copy", sub |-> Len(shape), offset |-> Last(shape).bytes - 1, at |-> 1]
  /\ UNCHANGED <<config, data, which, frames>>

\* A pass over one byte, from the buffer that holds the elements to the other.
\* SizedRadixSorter<1> and RadixSorter<bool> return true after their only pass,
\* the others false after an even number: the caller turns its own result round.
FlippedResult(w, bytes) == IF bytes = 1 THEN ~w ELSE w

\* The elements in the order of one byte, and the pass that follows: the byte
\* before it, or the last one of the sub key before.
ByteSorted(s, sub, offset) ==
  counting_sort_impl(s, [i \in DOMAIN s |-> current_byte(s[i], sub, offset)])

PassAfter(p) ==
  IF p.offset > 0 THEN [p EXCEPT !.offset = @ - 1, !.at = 3 - @]
  ELSE IF p.sub > 1
    THEN [p EXCEPT !.sub = @ - 1, !.at = 3 - @, !.offset = shape[p.sub - 1].bytes - 1]
  ELSE [kind |-> "none"]

CopyPass ==
  LET sorted == ByteSorted(IF pass.at = 1 THEN data ELSE buffer, pass.sub, pass.offset)
  IN /\ pass.kind = "copy"
     /\ IF pass.at = 1 THEN buffer' = sorted /\ UNCHANGED data
                       ELSE data' = sorted /\ UNCHANGED buffer
     /\ which' = IF pass.offset = 0 THEN FlippedResult(which, shape[pass.sub].bytes) ELSE which
     /\ pass' = PassAfter(pass)
     /\ UNCHANGED <<config, frames>>

\* ska_sort(), called by the program or by ska_sort_copy().
CallInPlace ==
  /\ pass.kind = "call"
  /\ ~copying \/ Len(data) < StdSortThreshold \/ pass_count >= MaxPasses
  /\ frames' = <<Frame(0, Len(data), 1, 0)>>
  /\ pass' = [kind |-> "none"]
  /\ UNCHANGED <<config, data, buffer, which>>

\* The frame f is next, and it has enough elements for a pass, or not.
Small(f) ==
  /\ pass.kind = "none"
  /\ frames # << >>
  /\ f.end - f.begin < StdSortThreshold
Large(f) ==
  /\ pass.kind = "none"
  /\ frames # << >>
  /\ f.end - f.begin >= StdSortThreshold

\* The frame is done, up to the calls in new.
Leave(new) == frames' = new \o Tail(frames) /\ UNCHANGED <<config, buffer, which>>

\* StdSortIfLessThanThreshold(): std::sort(), which leaves equal elements in
\* any order, or nothing to do.
SortSmall ==
  LET f == Head(frames)
      window == f.begin + 1 .. f.end
  IN
  /\ Small(f)
  /\ \E p \in Bijection(window, window) :
       /\ \A i, j \in window : i < j => ~Less(data[p[j]], data[p[i]])
       /\ data' = Rearranged(f.begin, f.end, p)
  /\ Leave(<< >>)
  /\ UNCHANGED pass

\* The bytes of the sub key are used up: next_sort().
NextSubKey ==
  LET f == Head(frames) IN
  /\ Large(f)
  /\ f.offset = shape[f.sub].bytes
  /\ Leave(<<Frame(f.begin, f.end, f.sub + 1, 0)>>)
  /\ UNCHANGED <<data, pass>>
\* InplaceSorter of a bool: std::partition() leaves each side in any order.
PartitionBool ==
  LET f == Head(frames)
      window == f.begin + 1 .. f.end
  IN /\ Large(f)
     /\ f.offset = 0 /\ shape[f.sub].type = "bool"
     /\ \E p \in Bijection(window, window), middle \in f.begin .. f.end :
          /\ \A i \in window : data[p[i]][f.sub] = 0 <=> i <= middle
          /\ data' = Rearranged(f.begin, f.end, p)
          /\ Leave(IF f.sub = Len(shape) THEN << >>
                   ELSE <<Frame(f.begin, middle, f.sub + 1, 0),
                          Frame(middle, f.end, f.sub + 1, 0)>>)
     /\ UNCHANGED pass

\* Both passes count the bytes first.  partitions is the sequence of bytes that
\* occur, in order: remaining_partitions; offset and next_offset count from f.begin.
BeginPass ==
  LET f == Head(frames)
      byte(e) == current_byte(e, f.sub, f.offset)
      count(b) == Cardinality({i \in f.begin + 1 .. f.end : byte(data[i]) = b})
      upto(b) == Cardinality({i \in f.begin + 1 .. f.end : byte(data[i]) <= b})
      occurring == {b \in Byte : count(b) > 0}
      begins == [b \in Byte |-> IF count(b) = 0 THEN 0 ELSE upto(b) - count(b)]
      american == f.end - f.begin < AmericanFlagSortThreshold
  IN /\ Large(f)
     /\ f.offset < shape[f.sub].bytes /\ shape[f.sub].type # "bool"
     /\ \E partitions \in [1 .. Cardinality(occurring) -> occurring] :
          /\ \A i, j \in DOMAIN partitions : i < j => partitions[i] < partitions[j]
          /\ pass' = [kind |-> IF Len(partitions) <= 1 THEN "recurse"
                               ELSE IF american THEN "american" ELSE "ska",
                      ascending |-> american,
                      partitions |-> partitions,
                      offset |-> begins,
                      next_offset |-> [b \in Byte |-> upto(b)],
                      block |-> 1,                 \* current_block_ptr
                      it |-> 0,                    \* from f.begin
                      last |-> Len(partitions),    \* last_remaining
                      keep |-> 1]                  \* begin of custom_std_partition
     /\ UNCHANGED <<config, data, buffer, which, frames>>

\* The byte at position it of the frame.
ByteAt(f, it) == current_byte(data[f.begin + it + 1], f.sub, f.offset)

\* american_flag_sort(): behind the end of a block the next one follows that is
\* not complete; the last one needs no work.
NextBlock ==
  LET P == pass.partitions
      Stop(c) == c = Len(P) \/ pass.offset[P[c]] # pass.next_offset[P[c]]
  IN CHOOSE c \in pass.block + 1 .. Len(P) :
       Stop(c) /\ \A d \in pass.block + 1 .. c - 1 : ~Stop(d)

\* The element belongs here.
InPlace ==
  LET f == Head(frames)
      n == f.end - f.begin
      it == pass.it + 1
      P == pass.partitions
  IN /\ pass.kind = "american"
     /\ ByteAt(f, pass.it) = P[pass.block]
     /\ pass' = IF it = n - 1 THEN [pass EXCEPT !.kind = "recurse"]
                ELSE IF it # pass.next_offset[P[pass.block]] THEN [pass EXCEPT !.it = it]
                ELSE IF NextBlock = Len(P) THEN [pass EXCEPT !.kind = "recurse"]
                ELSE [pass EXCEPT !.block = NextBlock, !.it = pass.offset[P[NextBlock]]]
     /\ UNCHANGED <<config, data, buffer, which, frames>>

\* It belongs to another block: swapped with the next one there.
SwapToBlockEnd ==
  LET f == Head(frames)
      b == ByteAt(f, pass.it)
  IN /\ pass.kind = "american"
     /\ b # pass.partitions[pass.block]
     /\ data' = iter_swap(data, f.begin + pass.it, f.begin + pass.next_offset[b] - 1)
     /\ pass' = [pass EXCEPT !.offset[b] = @ + 1]
     /\ UNCHANGED <<config, buffer, which, frames>>

SwapInPlace ==
  LET f == Head(frames)
      b == ByteAt(f, pass.it)
  IN /\ pass.kind = "american"
     /\ b # pass.partitions[pass.block]
     /\ data' = iter_swap(data, f.begin + pass.it, f.begin + pass.offset[b])
     /\ UNCHANGED pass
     /\ UNCHANGED <<config, buffer, which, frames>>

SwapToBlock ==
  LET f == Head(frames)
      b == ByteAt(f, pass.it)
  IN /\ pass.kind = "american"
     /\ b # pass.partitions[pass.block]
     /\ data' = iter_swap(data, f.begin + pass.it, f.begin + pass.offset[b])
     /\ pass' = [pass EXCEPT !.offset[b] = @ + 1]
     /\ UNCHANGED <<config, buffer, which, frames>>

\* ska_byte_sort(): the predicate of custom_std_partition() is called for a
\* partition and takes every element that it has at that moment...
Visit ==
  LET p == pass.partitions[pass.block] IN
  /\ pass.kind = "ska"
  /\ pass' = [pass EXCEPT !.kind = "sweep", !.it = pass.offset[p]]
  /\ UNCHANGED <<config, data, buffer, which, frames>>

\* ... to its own partition, one after the other (unroll_loop_four_times()).
Sweep ==
  LET f == Head(frames)
      b == ByteAt(f, pass.it)
  IN /\ pass.kind = "sweep"
     /\ pass.it < pass.next_offset[pass.partitions[pass.block]]
     /\ data' = iter_swap(data, f.begin + pass.it, f.begin + pass.offset[b])
     /\ pass' = [pass EXCEPT !.it = @ + 1, !.offset[b] = @ + 1]
     /\ UNCHANGED <<config, buffer, which, frames>>

\* A partition that is not complete moves to the front.  After the last one
\* another round visits those, unless there is at most one.
Visited ==
  LET P == pass.partitions
      i == pass.block
      more == pass.offset[P[i]] # pass.next_offset[P[i]]
      keep == IF more THEN pass.keep + 1 ELSE pass.keep
      after == [pass EXCEPT !.kind = "ska", !.partitions =
                  IF more THEN [P EXCEPT ![pass.keep] = P[i], ![i] = P[pass.keep]] ELSE P]
  IN /\ pass.kind = "sweep"
     /\ pass.it = pass.next_offset[P[i]]
     /\ pass' = IF i < pass.last THEN [after EXCEPT !.block = i + 1, !.keep = keep]
                ELSE [after EXCEPT !.last = keep - 1, !.block = 1, !.keep = 1,
                                   !.kind = IF keep - 1 > 1 THEN "ska" ELSE "recurse"]
     /\ UNCHANGED <<config, data, buffer, which, frames>>

\* Each partition is sorted by the next byte, if there is one: the call for
\* byte b, and the order of the calls.
PartitionFrame(f, b) ==
  Frame(f.begin + (IF b = 0 THEN 0 ELSE pass.next_offset[b - 1]),
        f.begin + pass.next_offset[b], f.sub, f.offset + 1)
InOrder == IF pass.ascending THEN pass.partitions ELSE Reverse(pass.partitions)

Recurse ==
  LET f == Head(frames) IN
  /\ pass.kind = "recurse"
  /\ Leave(IF f.offset + 1 = shape[f.sub].bytes /\ f.sub = Len(shape) THEN << >>
           ELSE [i \in DOMAIN InOrder |-> PartitionFrame(f, InOrder[i])])
  /\ pass' = [kind |-> "none"]
  /\ UNCHANGED data

Done == pass.kind = "none" /\ frames = << >>

Next ==
  \/ CallCopy \/ CopyPass \/ CallInPlace
  \/ SortSmall \/ NextSubKey \/ PartitionBool \/ BeginPass
  \/ InPlace \/ SwapToBlock \/ Visit \/ Sweep \/ Visited \/ Recurse
  \/ Done /\ UNCHANGED vars

\* The calling thread runs.
Spec == Init /\ [][Next]_vars /\ WF_vars(Next)

----------------------------------------------------------------------------
\* No element is lost or doubled by any swap, copy or partition: a location
\* that the sort lost would be committed without its lock.
KeepsElements ==
  LET now == IF pass.kind = "copy" THEN IF pass.at = 1 THEN data ELSE buffer
             ELSE IF which THEN buffer ELSE data IN
  /\ DOMAIN now = DOMAIN input
  /\ \A e \in Range(input) :
       Cardinality({i \in DOMAIN now : now[i] = e})
         = Cardinality({i \in DOMAIN input : input[i] = e})

\* What a pass has put behind the offset of a partition belongs there, an
\* offset that is used never passes the end of its partition, and calls that
\* are left to do lie in disjoint ranges whose order is final.
PartitionsRespected ==
  /\ pass.kind \in {"american", "ska", "sweep"} =>
       LET f == Head(frames)
           start(b) == IF b = 0 THEN 0 ELSE pass.next_offset[b - 1]
       IN \A b \in Range(pass.partitions) :
            /\ start(b) <= pass.offset[b] /\ pass.offset[b] <= pass.next_offset[b]
            /\ \A i \in start(b) .. pass.offset[b] - 1 : ByteAt(f, i) = b
  /\ \A i, j \in DOMAIN frames : i # j =>
       frames[i].end <= frames[j].begin \/ frames[j].end <= frames[i].begin

\* l is the smaller key only because a char or wchar_t of it is negative.
NegativeChar(l, r) ==
  \E s \in DOMAIN shape :
    /\ shape[s].type = "char"
    /\ \A i \in 1 .. s - 1 : Value(shape[i], l[i]) = Value(shape[i], r[i])
    /\ Value(shape[s], l[s]) < 0 /\ Value(shape[s], r[s]) >= 0

\* When the call returns, no element has a smaller one anywhere behind it in
\* the buffer that the result names, so LockGuard takes the locks of a log in
\* one order.  The exception is to_unsigned_or_bool() of a char or wchar_t,
\* which leaves a negative number behind the others when there are enough
\* elements for a pass.
SortedAtReturn ==
  Done => LET s == IF which THEN buffer ELSE data IN
          \A i, j \in DOMAIN s : i < j /\ Less(s[j], s[i]) => NegativeChar(s[j], s[i])

\* The call returns: ska_byte_sort() completes a partition in every round.
Returns == <>Done

=============================================================================
