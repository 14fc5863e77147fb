--------------------------- MODULE SkaSort_proofs ---------------------------
(***************************************************************************)
(* ska_sort() and ska_sort_copy() sort: for any number of elements, any    *)
(* keys, any radix and any thresholds, no element is lost, no pass writes  *)
(* outside its partitions, and the elements are in order at the return, in *)
(* the buffer that the result names.                                       *)
(***************************************************************************)
EXTENDS SkaSort, FunctionTheorems, FiniteSetTheorems, SequenceTheorems,
        WellFoundedInduction, TLAPS

----------------------------------------------------------------------------
(* Natural numbers.                                                        *)

\* A nonempty set of natural numbers has a least element.
LEMMA LeastNat ==
  ASSUME NEW T, T \subseteq Nat, T # {}
  PROVE  \E x \in T : \A y \in T : x <= y
<1> DEFINE R == {p \in Nat \X Nat : p[1] < p[2]}
<1>1. IsWellFoundedOn(R, Nat)
  BY NatLessThanWellFounded, Zenon DEF OpToRel
<1>2. \A x, y \in Nat : <<y, x>> \notin R => x <= y
  OBVIOUS
<1> HIDE DEF R
<1>3. \E x \in T : \A y \in T : ~(<<y, x>> \in R)
  BY <1>1, WFMin, Zenon
<1> QED
  BY <1>2, <1>3

\* A set with 0 that has n + 1 if it has n has every natural number.
LEMMA NatsAll ==
  ASSUME NEW S, 0 \in S, \A n \in Nat : n \in S => n + 1 \in S
  PROVE  Nat \subseteq S
<1> DEFINE T == Nat \ S
<1> SUFFICES ASSUME T # {} PROVE FALSE
  OBVIOUS
<1>1. PICK x \in T : \A y \in T : x <= y
  BY LeastNat
<1>2. x - 1 \in Nat /\ x - 1 \notin T
  BY <1>1
<1> QED
  BY <1>1, <1>2

\* Tables of the powers up to n.
PowersTo(n) ==
  {g \in [0 .. n -> Nat] : g[0] = 1 /\ \A i \in 1 .. n : g[i] = Radix * g[i - 1]}

\* Two tables agree where both are defined.
LEMMA PowersAgree ==
  ASSUME NEW m \in Nat, NEW n \in Nat, NEW g \in PowersTo(m), NEW h \in PowersTo(n)
  PROVE  \A i \in Nat : i <= m /\ i <= n => g[i] = h[i]
<1> DEFINE S == {i \in Nat : i <= m /\ i <= n => g[i] = h[i]}
<1>1. 0 \in S
  BY DEF PowersTo
<1>2. ASSUME NEW i \in Nat, i \in S PROVE i + 1 \in S
  <2>1. SUFFICES ASSUME i + 1 <= m, i + 1 <= n PROVE g[i + 1] = h[i + 1]
    OBVIOUS
  <2>2. g[i] = h[i]
    BY <1>2, <2>1
  <2>3. i + 1 \in 1 .. m /\ i + 1 \in 1 .. n /\ (i + 1) - 1 = i
    BY <2>1
  <2> QED BY <2>2, <2>3 DEF PowersTo
<1> HIDE DEF S
<1>3. Nat \subseteq S
  BY <1>1, <1>2, NatsAll
<1> QED
  BY <1>3 DEF S

\* There is a table for every n.
LEMMA PowersExist == \A n \in Nat : PowersTo(n) # {}
<1> USE SkaSortAssumption
<1> DEFINE S == {n \in Nat : PowersTo(n) # {}}
<1>1. 0 \in S
  <2>1. [i \in 0 .. 0 |-> 1] \in PowersTo(0)
    BY DEF PowersTo
  <2> QED BY <2>1
<1>2. ASSUME NEW n \in Nat, n \in S PROVE n + 1 \in S
  <2>1. PICK g : g \in PowersTo(n)
    BY <1>2
  <2> DEFINE h == [i \in 0 .. n + 1 |-> IF i = n + 1 THEN Radix * g[n] ELSE g[i]]
  <2>2. g \in [0 .. n -> Nat] /\ g[0] = 1 /\ \A i \in 1 .. n : g[i] = Radix * g[i - 1]
    BY <2>1 DEF PowersTo
  <2>3. Radix * g[n] \in Nat
    BY <2>2
  <2>4. h \in [0 .. n + 1 -> Nat] /\ h[0] = 1
    BY <2>2, <2>3
  <2>5. ASSUME NEW i \in 1 .. n + 1 PROVE h[i] = Radix * h[i - 1]
    BY <2>2
  <2>6. h \in PowersTo(n + 1)
    BY <2>4, <2>5 DEF PowersTo
  <2> QED BY <2>6
<1> HIDE DEF S
<1>3. Nat \subseteq S
  BY <1>1, <1>2, NatsAll
<1> QED
  BY <1>3 DEF S

\* Power is the function its recursive definition describes.
LEMMA PowerDef ==
  Power = [n \in Nat |-> IF n = 0 THEN 1 ELSE Radix * Power[n - 1]]
<1> DEFINE T(n) == CHOOSE g : g \in PowersTo(n)
           F == [n \in Nat |-> T(n)[n]]
<1>1. \A n \in Nat : T(n) \in PowersTo(n)
  BY PowersExist
<1> HIDE DEF T
<1>2. ASSUME NEW n \in Nat PROVE F[n] = IF n = 0 THEN 1 ELSE Radix * F[n - 1]
  <2>1. T(n) \in PowersTo(n)
    BY <1>1
  <2>2. CASE n = 0
    BY <2>1, <2>2 DEF PowersTo
  <2>3. CASE n # 0
    <3>1. n - 1 \in Nat /\ n \in 1 .. n /\ T(n - 1) \in PowersTo(n - 1)
      BY <1>1, <2>3
    <3>2. T(n)[n - 1] = T(n - 1)[n - 1]
      BY <2>1, <3>1, PowersAgree
    <3>3. T(n)[n] = Radix * T(n)[n - 1]
      BY <2>1, <3>1 DEF PowersTo
    <3> QED BY <2>3, <3>1, <3>2, <3>3
  <2> QED BY <2>2, <2>3
<1> HIDE DEF F
<1>3. F = [n \in Nat |-> IF n = 0 THEN 1 ELSE Radix * F[n - 1]]
  <2>1. F = [n \in Nat |-> F[n]]
    BY DEF F
  <2> QED BY <1>2, <2>1
<1>4. \E f : f = [n \in Nat |-> IF n = 0 THEN 1 ELSE Radix * f[n - 1]]
  BY <1>3, Zenon
<1> QED
  BY <1>4, Zenon DEF Power

\* The powers are positive numbers, each Radix times the one before.
LEMMA Powers ==
  /\ Power[0] = 1
  /\ \A n \in Nat : Power[n] \in Nat \ {0} /\ Power[n + 1] = Radix * Power[n]
<1> USE SkaSortAssumption
<1>1. Power[0] = 1
  BY PowerDef
<1>2. \A n \in Nat : Power[n + 1] = Radix * Power[n]
  <2> TAKE n \in Nat
  <2>1. n + 1 \in Nat /\ n + 1 # 0 /\ (n + 1) - 1 = n
    OBVIOUS
  <2> QED BY <2>1, PowerDef
<1> DEFINE S == {n \in Nat : Power[n] \in Nat \ {0}}
<1>3. 0 \in S
  BY <1>1
<1>4. ASSUME NEW n \in Nat, n \in S PROVE n + 1 \in S
  <2>1. Power[n] \in Nat \ {0} /\ Power[n + 1] = Radix * Power[n]
    BY <1>2, <1>4
  <2>2. Radix * Power[n] \in Nat \ {0}
    BY <2>1
  <2> QED BY <2>1, <2>2
<1> HIDE DEF S
<1>5. Nat \subseteq S
  BY <1>3, <1>4, NatsAll
<1> QED
  BY <1>1, <1>2, <1>5 DEF S

----------------------------------------------------------------------------
(* Digits of a number.                                                     *)

\* Byte w of x, counted from the lowest.
Digit(x, w) == (x \div Power[w]) % Radix

\* Division and remainder.
LEMMA DivMod ==
  ASSUME NEW x \in Nat, NEW a \in Nat \ {0}
  PROVE  /\ x \div a \in Nat /\ x % a \in 0 .. a - 1
         /\ x = a * (x \div a) + (x % a)
  OBVIOUS

\* Dividing twice.
LEMMA DivDiv ==
  ASSUME NEW x \in Nat, NEW a \in Nat \ {0}, NEW b \in Nat \ {0}
  PROVE  (x \div a) \div b = x \div (b * a)
  OBVIOUS

\* A number and its part above byte w, and below it.
LEMMA DigitSplits ==
  ASSUME NEW x \in Nat, NEW w \in Nat
  PROVE  /\ Digit(x, w) \in Byte
         /\ x \div Power[w] \in Nat /\ x \div Power[w + 1] \in Nat
         /\ x \div Power[w] = Radix * (x \div Power[w + 1]) + Digit(x, w)
         /\ x % Power[w] \in 0 .. Power[w] - 1
         /\ x % Power[w + 1] = Power[w] * Digit(x, w) + (x % Power[w])
<1> DEFINE P == Power[w]
           Q == Power[w + 1]
           z == x \div P
<1>0. w + 1 \in Nat
  OBVIOUS
<1>1. P \in Nat \ {0} /\ Q \in Nat \ {0} /\ Q = Radix * P /\ Radix \in Nat \ {0}
  BY <1>0, Powers, SkaSortAssumption
<1> HIDE DEF P, Q
<1>2. z \in Nat /\ x % P \in 0 .. P - 1 /\ x = P * z + (x % P)
  BY <1>1, DivMod
<1>4. z \div Radix = x \div Q
  BY <1>1, DivDiv
<1> HIDE DEF z
<1>3. /\ z \div Radix \in Nat /\ z % Radix \in 0 .. Radix - 1
      /\ z = Radix * (z \div Radix) + (z % Radix)
  BY <1>1, <1>2, DivMod
<1>5. x \div Q \in Nat /\ x = Q * (x \div Q) + (x % Q) /\ x % Q \in 0 .. Q - 1
  BY <1>1, DivMod
<1>6. x % Q = P * (z % Radix) + (x % P)
  <2> DEFINE d == x \div Q
             r == z % Radix
             m == x % P
             k == x % Q
  <2>1. d \in Nat /\ r \in Nat /\ m \in Nat /\ k \in Nat
    BY <1>2, <1>3, <1>5
  <2>2. x = Q * d + k /\ z = Radix * d + r /\ x = P * z + m
    BY <1>2, <1>3, <1>4, <1>5
  <2> HIDE DEF d, r, m, k
  <2>3. P * (Radix * d + r) = (Radix * P) * d + P * r
    BY <1>1, <2>1
  <2>4. Q * d + k = (Radix * P) * d + P * r + m
    BY <1>1, <2>1, <2>2, <2>3
  <2>5. P * r \in Nat /\ Q * d \in Nat
    BY <1>1, <2>1
  <2>6. k = P * r + m
    BY <1>1, <2>1, <2>4, <2>5
  <2> QED BY <2>6 DEF r, m, k
<1> QED
  BY <1>2, <1>3, <1>4, <1>5, <1>6 DEF P, Q, z, Digit, Byte

----------------------------------------------------------------------------
(* Sub keys.                                                               *)

\* A sub key has an even number of values.
LEMMA SubKeys ==
  ASSUME NEW k \in SubKeyType
  PROVE  /\ k.bytes \in {1, 2, 4, 8}
         /\ k.type \in {"unsigned", "signed", "float", "char", "bool"}
         /\ Half(k) \in Nat \ {0} /\ Full(k) = 2 * Half(k)
<1>1. /\ k.bytes \in {1, 2, 4, 8}
      /\ k.type \in {"unsigned", "signed", "float", "char", "bool"}
  BY DEF SubKeyType
<1>2. PICK n \in Nat : k.bytes = n + 1
  <2>1. k.bytes - 1 \in Nat /\ k.bytes = (k.bytes - 1) + 1
    BY <1>1
  <2> QED BY <2>1
<1>3. Full(k) = Radix * Power[n] /\ Power[n] \in Nat \ {0}
  BY <1>2, Powers DEF Full
<1>4. PICK h \in Nat \ {0} : Radix = 2 * h
  <2>1. Radix = 2 * (Radix \div 2) /\ Radix \div 2 \in Nat \ {0}
    BY SkaSortAssumption
  <2> QED BY <2>1
<1> DEFINE m == h * Power[n]
<1>5. m \in Nat \ {0} /\ Full(k) = 2 * m
  BY <1>3, <1>4
<1> HIDE DEF m
<1>6. Half(k) = m
  BY <1>5 DEF Half
<1> QED BY <1>1, <1>5, <1>6

\* The order of the numbers that are sorted is the order of the values, but for
\* a negative char and another that is not.
LEMMA UnsignedOrder ==
  ASSUME NEW k \in SubKeyType, NEW u \in Bits(k), NEW v \in Bits(k)
  PROVE  /\ Value(k, u) \in Int /\ to_unsigned_or_bool(k, u) \in 0 .. Full(k) - 1
         /\ Value(k, v) \in Int /\ to_unsigned_or_bool(k, v) \in 0 .. Full(k) - 1
         /\ Value(k, u) < Value(k, v) =>
              \/ to_unsigned_or_bool(k, u) < to_unsigned_or_bool(k, v)
              \/ k.type = "char" /\ Value(k, u) < 0 /\ Value(k, v) >= 0
         /\ to_unsigned_or_bool(k, u) = to_unsigned_or_bool(k, v)
              <=> Value(k, u) = Value(k, v)
<1> DEFINE h == Half(k)
           f == Full(k)
<1>1. h \in Nat \ {0} /\ f = 2 * h
      /\ k.type \in {"unsigned", "signed", "float", "char", "bool"}
  BY SubKeys
<1> HIDE DEF h, f
<1>2. /\ u \in 0 .. f - 1 /\ v \in 0 .. f - 1
      /\ k.type = "float" => u # h /\ v # h
  BY <1>1 DEF Bits, h, f
<1>3. CASE k.type = "signed"
  <2>1. \A x \in 0 .. f - 1 : (x + h) % f = IF x >= h THEN x - h ELSE x + h
    BY <1>1
  <2>2. \A x \in 0 .. f - 1 :
          /\ to_unsigned_or_bool(k, x) = IF x >= h THEN x - h ELSE x + h
          /\ Value(k, x) = IF x >= h THEN x - f ELSE x
    BY <1>3, <2>1 DEF to_unsigned_or_bool, Value, h, f
  <2> QED BY <1>1, <1>2, <2>2 DEF f
<1>4. CASE k.type = "float"
  <2>1. \A x \in 0 .. f - 1 :
          /\ to_unsigned_or_bool(k, x) = IF x >= h THEN f - 1 - x ELSE x + h
          /\ Value(k, x) = IF x >= h THEN h - x ELSE x
    BY <1>4 DEF to_unsigned_or_bool, Value, h, f
  <2> QED BY <1>1, <1>2, <1>4, <2>1 DEF f
<1>5. CASE k.type \in {"unsigned", "bool"}
  <2>1. \A x : to_unsigned_or_bool(k, x) = x /\ Value(k, x) = x
    BY <1>5 DEF to_unsigned_or_bool, Value
  <2> QED BY <1>1, <1>2, <2>1 DEF f
<1>6. CASE k.type = "char"
  <2>1. \A x \in 0 .. f - 1 :
          /\ to_unsigned_or_bool(k, x) = x
          /\ Value(k, x) = IF x >= h THEN x - f ELSE x
    BY <1>6 DEF to_unsigned_or_bool, Value, h, f
  <2> QED BY <1>1, <1>2, <1>6, <2>1 DEF f
<1> QED BY <1>1, <1>3, <1>4, <1>5, <1>6
----------------------------------------------------------------------------
(* Elements.  U(e, s) is the number whose bytes are sorted, Val(e, s) what *)
(* the sub key means.                                                      *)

ShapeOK == shape \in Seq(SubKeyType) /\ shape # << >>
Valid(e) == DOMAIN e = DOMAIN shape /\ \A s \in DOMAIN shape : e[s] \in Bits(shape[s])
U(e, s) == to_unsigned_or_bool(shape[s], e[s])
Val(e, s) == Value(shape[s], e[s])

\* l and r have the same sub keys before sub, and of sub the same first bytes.
Agree(l, r, sub, offset) ==
  /\ \A s \in 1 .. sub - 1 : Val(l, s) = Val(r, s)
  /\ U(l, sub) \div Power[shape[sub].bytes - offset]
       = U(r, sub) \div Power[shape[sub].bytes - offset]

\* The sub keys of a shape.
LEMMA ShapeSubKeys ==
  ASSUME ShapeOK
  PROVE  /\ Len(shape) \in Nat \ {0} /\ DOMAIN shape = 1 .. Len(shape)
         /\ \A s \in DOMAIN shape :
              shape[s] \in SubKeyType /\ shape[s].bytes \in {1, 2, 4, 8}
<1>1. /\ Len(shape) \in Nat \ {0} /\ DOMAIN shape = 1 .. Len(shape)
      /\ \A s \in DOMAIN shape : shape[s] \in SubKeyType
  BY DEF ShapeOK
<1> QED BY <1>1, SubKeys

\* Numbers and values of two elements.
LEMMA UVal ==
  ASSUME ShapeOK, NEW l, NEW r, Valid(l), Valid(r), NEW s \in DOMAIN shape
  PROVE  /\ U(l, s) \in Nat /\ U(r, s) \in Nat /\ Val(l, s) \in Int /\ Val(r, s) \in Int
         /\ U(l, s) < Power[shape[s].bytes] /\ U(r, s) < Power[shape[s].bytes]
         /\ Power[shape[s].bytes] \in Nat \ {0}
         /\ Val(l, s) < Val(r, s) =>
              \/ U(l, s) < U(r, s)
              \/ shape[s].type = "char" /\ Val(l, s) < 0 /\ Val(r, s) >= 0
         /\ U(l, s) = U(r, s) <=> Val(l, s) = Val(r, s)
<1>1. shape[s] \in SubKeyType /\ shape[s].bytes \in Nat
  BY ShapeSubKeys
<1>2. l[s] \in Bits(shape[s]) /\ r[s] \in Bits(shape[s])
  BY DEF Valid
<1>3. Power[shape[s].bytes] \in Nat \ {0}
  BY <1>1, Powers
<1> QED
  BY <1>1, <1>2, <1>3, UnsignedOrder DEF U, Val, Full

\* The order that the passes establish, by the numbers that are sorted; and
\* the part of the order of keys that it respects.
RadixLess(l, r) ==
  \E s \in DOMAIN shape :
    (\A i \in 1 .. s - 1 : U(l, i) = U(r, i)) /\ U(l, s) < U(r, s)
Below(l, r) == Less(l, r) /\ ~NegativeChar(l, r)

\* It does respect it.
LEMMA BelowIsRadixLess ==
  ASSUME ShapeOK, NEW l, NEW r, Valid(l), Valid(r), Below(l, r)
  PROVE  RadixLess(l, r)
<1>0. DOMAIN shape = 1 .. Len(shape) /\ Len(shape) \in Nat
  BY ShapeSubKeys
<1>1. PICK s \in DOMAIN shape :
        /\ \A i \in 1 .. s - 1 : Val(l, i) = Val(r, i)
        /\ Val(l, s) < Val(r, s)
  BY DEF Below, Less, Val
<1>2. ~(shape[s].type = "char" /\ Val(l, s) < 0 /\ Val(r, s) >= 0)
  BY <1>1 DEF Below, NegativeChar, Val
<1>3. U(l, s) < U(r, s)
  BY <1>1, <1>2, UVal
<1>4. ASSUME NEW i \in 1 .. s - 1 PROVE U(l, i) = U(r, i)
  <2>1. i \in DOMAIN shape
    BY <1>0
  <2> QED BY <1>1, <2>1, UVal
<1> QED BY <1>3, <1>4 DEF RadixLess

\* The order of the passes is asymmetric.
LEMMA RadixLessOneWay ==
  ASSUME ShapeOK, NEW l, NEW r, Valid(l), Valid(r), RadixLess(l, r)
  PROVE  ~Below(r, l)
<1> SUFFICES ASSUME RadixLess(r, l) PROVE FALSE
  BY BelowIsRadixLess
<1>0. DOMAIN shape = 1 .. Len(shape) /\ Len(shape) \in Nat
  BY ShapeSubKeys
<1>1. PICK s \in DOMAIN shape :
        (\A i \in 1 .. s - 1 : U(l, i) = U(r, i)) /\ U(l, s) < U(r, s)
  BY DEF RadixLess
<1>2. PICK t \in DOMAIN shape :
        (\A i \in 1 .. t - 1 : U(r, i) = U(l, i)) /\ U(r, t) < U(l, t)
  BY DEF RadixLess
<1>3. U(l, s) \in Nat /\ U(r, s) \in Nat /\ U(l, t) \in Nat /\ U(r, t) \in Nat
  BY UVal
<1>4. CASE s < t
  BY <1>0, <1>1, <1>2, <1>3, <1>4
<1>5. CASE t < s
  BY <1>0, <1>1, <1>2, <1>3, <1>5
<1>6. CASE s = t
  BY <1>1, <1>2, <1>3, <1>6
<1> QED BY <1>0, <1>4, <1>5, <1>6

\* Elements with the same sub keys before sub agree on its first 0 bytes.
LEMMA AgreeFirst ==
  ASSUME ShapeOK, NEW l, NEW r, Valid(l), Valid(r), NEW sub \in DOMAIN shape,
         \A s \in 1 .. sub - 1 : Val(l, s) = Val(r, s)
  PROVE  Agree(l, r, sub, 0)
<1> DEFINE P == Power[shape[sub].bytes]
<1>1. /\ U(l, sub) \in Nat /\ U(r, sub) \in Nat /\ P \in Nat \ {0}
      /\ U(l, sub) < P /\ U(r, sub) < P
  BY UVal
<1>2. shape[sub].bytes - 0 = shape[sub].bytes
  BY ShapeSubKeys
<1>3. \A x \in Nat : x < P => x \div P = 0
  BY <1>1
<1> QED BY <1>1, <1>2, <1>3 DEF Agree

\* Elements that agree on all bytes of a sub key agree on the sub key.
LEMMA AgreeAll ==
  ASSUME ShapeOK, NEW l, NEW r, Valid(l), Valid(r), NEW sub \in DOMAIN shape,
         Agree(l, r, sub, shape[sub].bytes)
  PROVE  \A s \in 1 .. sub : Val(l, s) = Val(r, s)
<1>1. shape[sub].bytes - shape[sub].bytes = 0 /\ DOMAIN shape = 1 .. Len(shape)
  BY ShapeSubKeys
<1>2. U(l, sub) \in Nat /\ U(r, sub) \in Nat
  BY UVal
<1>3. U(l, sub) \div 1 = U(r, sub) \div 1
  BY <1>1, Powers DEF Agree
<1>4. Val(l, sub) = Val(r, sub)
  BY <1>2, <1>3, UVal
<1> QED BY <1>1, <1>4 DEF Agree

\* Elements with the same sub keys are not ordered.
LEMMA SameNotBelow ==
  ASSUME ShapeOK, NEW l, NEW r, Valid(l), Valid(r),
         \A s \in DOMAIN shape : Val(l, s) = Val(r, s)
  PROVE  ~Below(l, r)
<1>1. \A s \in DOMAIN shape : Val(l, s) \in Int /\ Val(r, s) \in Int
  BY UVal
<1> QED BY <1>1 DEF Below, Less, Val

\* The next byte of two elements that agree on those before: a smaller one
\* makes a smaller number, an equal one keeps them in agreement.
LEMMA NextByte ==
  ASSUME ShapeOK, NEW l, NEW r, Valid(l), Valid(r), NEW sub \in DOMAIN shape,
         NEW offset \in 0 .. shape[sub].bytes - 1, Agree(l, r, sub, offset)
  PROVE  /\ current_byte(l, sub, offset) \in Byte
         /\ current_byte(r, sub, offset) \in Byte
         /\ current_byte(l, sub, offset) = current_byte(r, sub, offset) =>
              Agree(l, r, sub, offset + 1)
         /\ current_byte(l, sub, offset) < current_byte(r, sub, offset) => RadixLess(l, r)
<1> DEFINE w == shape[sub].bytes - 1 - offset
           x == U(l, sub)
           y == U(r, sub)
<1>1. w \in Nat /\ shape[sub].bytes - offset = w + 1 /\ shape[sub].bytes - (offset + 1) = w
  BY ShapeSubKeys
<1>2. x \in Nat /\ y \in Nat
  BY UVal
<1>3. current_byte(l, sub, offset) = Digit(x, w) /\ current_byte(r, sub, offset) = Digit(y, w)
  BY DEF current_byte, Digit, U
<1> HIDE DEF w, x, y
<1>4. x \div Power[w + 1] = y \div Power[w + 1]
  BY <1>1 DEF Agree, x, y
<1>5. /\ Digit(x, w) \in Byte /\ Digit(y, w) \in Byte
      /\ x \div Power[w + 1] \in Nat
      /\ x \div Power[w] = Radix * (x \div Power[w + 1]) + Digit(x, w)
      /\ y \div Power[w] = Radix * (y \div Power[w + 1]) + Digit(y, w)
  BY <1>1, <1>2, DigitSplits
<1>6. Digit(x, w) = Digit(y, w) => x \div Power[w] = y \div Power[w]
  BY <1>4, <1>5
<1>7. ASSUME Digit(x, w) < Digit(y, w) PROVE RadixLess(l, r)
  <2>1. Power[w] \in Nat \ {0} /\ Radix \in Nat
    BY <1>1, Powers, SkaSortAssumption
  <2>2. Radix * (x \div Power[w + 1]) \in Nat
    BY <1>5, <2>1
  <2>3. x \div Power[w] < y \div Power[w]
    BY <1>4, <1>5, <1>7, <2>2 DEF Byte
  <2>4. \A a, b, c \in Nat : c # 0 /\ a \div c < b \div c => a < b
    OBVIOUS
  <2>5. x < y
    BY <1>2, <2>1, <2>3, <2>4
  <2>6. ASSUME NEW i \in 1 .. sub - 1 PROVE U(l, i) = U(r, i)
    <3>1. i \in DOMAIN shape
      BY ShapeSubKeys
    <3> QED BY <3>1, UVal DEF Agree
  <2> QED BY <2>5, <2>6 DEF RadixLess, x, y
<1> QED
  BY <1>1, <1>3, <1>5, <1>6, <1>7 DEF Agree, x, y
----------------------------------------------------------------------------
(* Permutations and counting.                                              *)

\* What a bijection of a set to itself is.
LEMMA BijectionIs ==
  ASSUME NEW S, NEW q
  PROVE  q \in Bijection(S, S) <=>
           /\ q \in [S -> S]
           /\ \A i, j \in S : q[i] = q[j] => i = j
           /\ \A j \in S : \E i \in S : q[i] = j
  BY DEF Bijection, Injection, Surjection, IsInjective

\* One rearrangement after another.
LEMMA BijectionsCompose ==
  ASSUME NEW S, NEW p \in Bijection(S, S), NEW q \in Bijection(S, S)
  PROVE  [i \in S |-> p[q[i]]] \in Bijection(S, S)
<1> DEFINE r == [i \in S |-> p[q[i]]]
<1>1. /\ p \in [S -> S] /\ q \in [S -> S]
      /\ \A i, j \in S : p[i] = p[j] => i = j
      /\ \A i, j \in S : q[i] = q[j] => i = j
      /\ \A j \in S : \E i \in S : p[i] = j
      /\ \A j \in S : \E i \in S : q[i] = j
  BY BijectionIs
<1>2. r \in [S -> S] /\ \A i, j \in S : r[i] = r[j] => i = j
  BY <1>1
<1>3. ASSUME NEW j \in S PROVE \E i \in S : r[i] = j
  <2>1. PICK m \in S : p[m] = j
    BY <1>1
  <2>2. PICK i \in S : q[i] = m
    BY <1>1
  <2> QED BY <2>1, <2>2
<1> HIDE DEF r
<1>4. r \in Bijection(S, S)
  BY <1>2, <1>3, BijectionIs
<1> QED BY <1>4 DEF r

\* The exchange of two elements.
Exchange(S, x, y) == [i \in S |-> IF i = x THEN y ELSE IF i = y THEN x ELSE i]

\* It takes every position once.
LEMMA ExchangeBijection ==
  ASSUME NEW S, NEW x \in S, NEW y \in S
  PROVE  Exchange(S, x, y) \in Bijection(S, S)
<1> DEFINE q == Exchange(S, x, y)
<1>1. q \in [S -> S] /\ \A i \in S : q[i] \in S /\ q[q[i]] = i
  BY DEF Exchange
<1> HIDE DEF q
<1>2. /\ \A i, j \in S : q[i] = q[j] => i = j
      /\ \A j \in S : \E i \in S : q[i] = j
  BY <1>1
<1>3. q \in Bijection(S, S)
  BY <1>1, <1>2, BijectionIs
<1> QED BY <1>3 DEF q

\* How often a value occurs does not depend on the order.
LEMMA Recount ==
  ASSUME NEW S, IsFiniteSet(S), NEW q \in Bijection(S, S),
         NEW A \in SUBSET S, NEW B \in SUBSET S, \A i \in S : i \in A <=> q[i] \in B
  PROVE  Cardinality(A) = Cardinality(B)
<1> DEFINE r == [i \in A |-> q[i]]
<1>1. /\ q \in [S -> S]
      /\ \A i, j \in S : q[i] = q[j] => i = j
      /\ \A j \in S : \E i \in S : q[i] = j
  BY BijectionIs
<1>2. r \in [A -> B] /\ \A i, j \in A : r[i] = r[j] => i = j
  BY <1>1
<1>3. \A j \in B : \E i \in A : r[i] = j
  BY <1>1
<1>4. IsFiniteSet(A)
  BY FS_Subset
<1> HIDE DEF r
<1>5. r \in Bijection(A, B)
  BY <1>2, <1>3 DEF Bijection, Injection, Surjection, IsInjective
<1>6. ExistsBijection(A, B)
  BY <1>5 DEF ExistsBijection
<1> QED
  BY <1>4, <1>6, FS_Bijection

\* If b occurs e - a times, from a to o - 1 and somewhere else, then o < e.
LEMMA Room ==
  ASSUME NEW n \in Nat, NEW g, NEW b,
         NEW a \in Nat, NEW o \in Nat, NEW e \in Nat, a <= o, o <= n,
         Cardinality({i \in 0 .. n - 1 : g[i] = b}) = e - a,
         \A i \in a .. o - 1 : g[i] = b,
         NEW it \in 0 .. n - 1, g[it] = b, it \notin a .. o - 1
  PROVE  o < e
<1> DEFINE S == {i \in 0 .. n - 1 : g[i] = b}
           T == (a .. o - 1) \cup {it}
<1>1. IsFiniteSet(0 .. n - 1) /\ IsFiniteSet(a .. o - 1)
      /\ Cardinality(a .. o - 1) = o - a
  <2>1. o - 1 \in Int /\ n - 1 \in Int
    OBVIOUS
  <2> QED BY <2>1, FS_Interval
<1>2. IsFiniteSet(S)
  BY <1>1, FS_Subset
<1>3. Cardinality(T) = o - a + 1
  BY <1>1, FS_AddElement
<1>4. T \subseteq S
  OBVIOUS
<1>5. Cardinality(T) <= Cardinality(S)
  BY <1>2, <1>4, FS_Subset
<1> QED
  BY <1>3, <1>5
----------------------------------------------------------------------------
(* The invariant: what is to be sorted, and the calls that are left.       *)

Pos == 1 .. Len(input)

ConfOK ==
  /\ ShapeOK
  /\ Len(input) \in Nat /\ DOMAIN input = Pos
  /\ \A i \in Pos : Valid(input[i])
  /\ StdSortThreshold \in Nat /\ StdSortThreshold >= 2

\* s is the input in some order.
Perm(s) == \E p \in Bijection(Pos, Pos) : s = [i \in Pos |-> input[p[i]]]

Window(f) == f.begin + 1 .. f.end
Frames == [begin : Nat, end : Nat, sub : Nat, offset : Nat]

\* The elements of a call's range agree on the bytes that are sorted.
FrameOK(f) ==
  /\ f.begin <= f.end /\ f.end <= Len(input)
  /\ f.sub \in DOMAIN shape /\ f.offset <= shape[f.sub].bytes
  /\ f.offset = shape[f.sub].bytes => f.sub < Len(shape)
  /\ \A i, j \in Window(f) : Agree(data[i], data[j], f.sub, f.offset)

Apart(f, g) == f.end <= g.begin \/ g.end <= f.begin

FramesOK ==
  /\ frames \in Seq(Frames)
  /\ \A k \in DOMAIN frames : FrameOK(frames[k])
  /\ \A k, m \in DOMAIN frames : k # m => Apart(frames[k], frames[m])

\* Two elements are in the order of their keys, unless a call that is left
\* has both in its range.
Together(i, j) ==
  \E k \in DOMAIN frames : i \in Window(frames[k]) /\ j \in Window(frames[k])
Ordered(s) == \A i, j \in Pos : i < j => Together(i, j) \/ ~Below(s[j], s[i])

\* A step that keeps the configuration keeps what is said about keys.
LEMMA SameConf ==
  ASSUME UNCHANGED config
  PROVE  /\ Pos' = Pos /\ ConfOK' = ConfOK
         /\ input' = input /\ shape' = shape
         /\ \A l, r : Below(l, r)' <=> Below(l, r)
         /\ \A e : Valid(e)' <=> Valid(e)
         /\ \A l, r, sub, offset : Agree(l, r, sub, offset)' <=> Agree(l, r, sub, offset)
<1>1. input' = input /\ shape' = shape /\ threshold' = threshold
  BY DEF config
<1> QED
  BY <1>1 DEF Pos, ConfOK, ShapeOK, Valid, Below, Less, NegativeChar, Agree, U, Val, Value,
              Half, Full, to_unsigned_or_bool, StdSortThreshold

\* A permutation of the input has its elements.
LEMMA PermIs ==
  ASSUME ConfOK, NEW s, Perm(s)
  PROVE  /\ DOMAIN s = Pos /\ s = [i \in Pos |-> s[i]]
         /\ Len(s) = Len(input)
         /\ \A i \in Pos : Valid(s[i])
<1>1. PICK p \in Bijection(Pos, Pos) : s = [i \in Pos |-> input[p[i]]]
  BY DEF Perm
<1>2. p \in [Pos -> Pos]
  BY BijectionIs
<1>3. Len(input) \in Nat /\ DOMAIN s = 1 .. Len(input)
  BY <1>1 DEF Pos, ConfOK
<1>4. Len(s) = Len(input)
  BY <1>1, <1>3 DEF Pos
<1>5. \A i \in Pos : Valid(s[i])
  BY <1>1, <1>2 DEF ConfOK
<1> QED
  BY <1>1, <1>4, <1>5

\* A window of data in another order.
LEMMA RearrangedIs ==
  ASSUME ConfOK, Perm(data), NEW b \in Nat, NEW e \in Nat, e <= Len(input),
         NEW q \in Bijection(b + 1 .. e, b + 1 .. e)
  PROVE  /\ Perm(Rearranged(b, e, q))
         /\ \A i \in Pos : Rearranged(b, e, q)[i] =
              IF i \in b + 1 .. e THEN data[q[i]] ELSE data[i]
<1> DEFINE W == b + 1 .. e
           h == [i \in Pos |-> IF i \in W THEN q[i] ELSE i]
<1>1. /\ q \in [W -> W]
      /\ \A i, j \in W : q[i] = q[j] => i = j
      /\ \A j \in W : \E i \in W : q[i] = j
  BY BijectionIs
<1>2. W \subseteq Pos /\ Len(input) \in Nat
  BY DEF Pos, ConfOK
<1>3. PICK p \in Bijection(Pos, Pos) : data = [i \in Pos |-> input[p[i]]]
  BY DEF Perm
<1>4. \A i \in Pos : b < i /\ i <= e <=> i \in W
  BY DEF Pos
<1> HIDE DEF W
<1>5. h \in Bijection(Pos, Pos)
  <2>1. h \in [Pos -> Pos] /\ \A i, j \in Pos : h[i] = h[j] => i = j
    BY <1>1, <1>2
  <2>2. ASSUME NEW j \in Pos PROVE \E i \in Pos : h[i] = j
    <3>1. CASE j \in W
      BY <1>1, <1>2, <3>1
    <3>2. CASE j \notin W
      BY <3>2
    <3> QED BY <3>1, <3>2
  <2> HIDE DEF h
  <2> QED BY <2>1, <2>2, BijectionIs
<1>6. DOMAIN data = Pos /\ \A i \in Pos : data[i] = input[p[i]]
  BY <1>3
<1>7. /\ DOMAIN Rearranged(b, e, q) = Pos
      /\ \A i \in Pos : Rearranged(b, e, q)[i] = IF i \in W THEN data[q[i]] ELSE data[i]
      /\ Rearranged(b, e, q) = [i \in Pos |-> IF i \in W THEN data[q[i]] ELSE data[i]]
  BY <1>4, <1>6 DEF Rearranged
<1>8. \A i \in Pos : h[i] \in Pos /\ (IF i \in W THEN data[q[i]] ELSE data[i]) = input[p[h[i]]]
  BY <1>1, <1>2, <1>6
<1> DEFINE r == [i \in Pos |-> p[h[i]]]
<1>9. r \in Bijection(Pos, Pos)
  BY <1>5, BijectionsCompose
<1>10. Rearranged(b, e, q) = [i \in Pos |-> input[r[i]]]
  BY <1>7, <1>8
<1> HIDE DEF r
<1> QED
  BY <1>7, <1>9, <1>10 DEF Perm, W

\* The calls left after a step: those in new, in the place of the first, and
\* the others.
LEMMA LeaveFrames ==
  ASSUME FramesOK, frames # << >>, NEW new \in Seq(Frames),
         frames' = new \o Tail(frames)
  PROVE  /\ Head(frames) = frames[1] /\ 1 \in DOMAIN frames /\ frames[1] \in Frames
         /\ frames' \in Seq(Frames)
         /\ \A k \in DOMAIN frames' :
              \/ k \in DOMAIN new /\ frames'[k] = new[k]
              \/ /\ k \notin DOMAIN new
                 /\ (k - Len(new)) + 1 \in DOMAIN frames \ {1}
                 /\ frames'[k] = frames[(k - Len(new)) + 1]
         /\ \A k \in DOMAIN new : k \in DOMAIN frames' /\ frames'[k] = new[k]
         /\ \A m \in DOMAIN frames \ {1} :
              \E k \in DOMAIN frames' : k \notin DOMAIN new /\ frames'[k] = frames[m]
<1>1. frames \in Seq(Frames)
  BY DEF FramesOK
<1>2. /\ Len(frames) \in Nat \ {0} /\ DOMAIN frames = 1 .. Len(frames)
      /\ Head(frames) = frames[1] /\ frames[1] \in Frames
      /\ Tail(frames) \in Seq(Frames) /\ Len(Tail(frames)) = Len(frames) - 1
      /\ \A k \in 1 .. Len(frames) - 1 : Tail(frames)[k] = frames[k + 1]
  BY <1>1
<1>3. /\ Len(new) \in Nat /\ DOMAIN new = 1 .. Len(new)
  OBVIOUS
<1>4. /\ frames' \in Seq(Frames) /\ DOMAIN frames' = 1 .. Len(new) + Len(frames) - 1
      /\ \A k \in 1 .. Len(new) + Len(frames) - 1 :
           frames'[k] = IF k <= Len(new) THEN new[k] ELSE Tail(frames)[k - Len(new)]
  BY <1>2, <1>3
<1>5. ASSUME NEW k \in DOMAIN frames', k \notin DOMAIN new
      PROVE  /\ (k - Len(new)) + 1 \in DOMAIN frames \ {1}
             /\ frames'[k] = frames[(k - Len(new)) + 1]
  BY <1>2, <1>3, <1>4, <1>5
<1>6. ASSUME NEW m \in DOMAIN frames \ {1}
      PROVE  \E k \in DOMAIN frames' : k \notin DOMAIN new /\ frames'[k] = frames[m]
  <2>1. /\ Len(new) + m - 1 \in DOMAIN frames' /\ Len(new) + m - 1 \notin DOMAIN new
        /\ (Len(new) + m - 1) - Len(new) = m - 1 /\ m - 1 \in 1 .. Len(frames) - 1
        /\ (m - 1) + 1 = m
    BY <1>2, <1>3, <1>4
  <2>2. frames'[Len(new) + m - 1] = Tail(frames)[m - 1]
    BY <1>3, <1>4, <2>1
  <2> QED BY <1>2, <2>1, <2>2
<1>7. \A k \in DOMAIN new : k \in DOMAIN frames' /\ frames'[k] = new[k]
  BY <1>2, <1>3, <1>4
<1>8. \A k \in DOMAIN frames' : k \in DOMAIN new \/ k \notin DOMAIN new
  OBVIOUS
<1>9. 1 \in DOMAIN frames
  BY <1>2
<1> QED
  BY <1>2, <1>4, <1>5, <1>6, <1>7, <1>8, <1>9

\* A step that rearranges the range of the first call, and replaces the call by
\* others that have inside it every two elements that are not in order.
LEMMA Leaving ==
  ASSUME ConfOK, UNCHANGED config, FramesOK, frames # << >>, Ordered(data), Perm(data),
         NEW f, f = Head(frames),
         NEW q \in Bijection(Window(f), Window(f)),
         data' = Rearranged(f.begin, f.end, q),
         NEW new \in Seq(Frames), frames' = new \o Tail(frames),
         \A k \in DOMAIN new :
           f.begin <= new[k].begin /\ new[k].end <= f.end /\ FrameOK(new[k])',
         \A k, m \in DOMAIN new : k # m => Apart(new[k], new[m]),
         \A i, j \in Window(f) : i < j =>
           \/ \E k \in DOMAIN new : i \in Window(new[k]) /\ j \in Window(new[k])
           \/ ~Below(data'[j], data'[i])
  PROVE  FramesOK' /\ Ordered(data)' /\ Perm(data)'
<1> DEFINE W == Window(f)
           rest == DOMAIN frames \ {1}
<1>1. /\ f = frames[1] /\ 1 \in DOMAIN frames /\ f \in Frames
      /\ frames' \in Seq(Frames)
      /\ \A k \in DOMAIN frames' :
           \/ k \in DOMAIN new /\ frames'[k] = new[k]
           \/ /\ k \notin DOMAIN new
              /\ (k - Len(new)) + 1 \in rest
              /\ frames'[k] = frames[(k - Len(new)) + 1]
      /\ \A k \in DOMAIN new : k \in DOMAIN frames' /\ frames'[k] = new[k]
      /\ \A m \in rest :
           \E k \in DOMAIN frames' : k \notin DOMAIN new /\ frames'[k] = frames[m]
  BY LeaveFrames
<1>2. /\ f.begin \in Nat /\ f.end \in Nat /\ f.begin <= f.end /\ f.end <= Len(input)
      /\ Len(input) \in Nat
  BY <1>1 DEF FramesOK, FrameOK, Frames, ConfOK
<1>3. /\ Perm(data') 
      /\ \A i \in Pos : data'[i] = IF i \in W THEN data[q[i]] ELSE data[i]
  BY <1>2, RearrangedIs DEF Window
<1>4. q \in [W -> W]
  BY BijectionIs
<1>5. \A k \in rest : frames[k] \in Frames /\ Apart(frames[k], f) /\ FrameOK(frames[k])
  BY <1>1 DEF FramesOK
<1>6. ASSUME NEW k \in rest
      PROVE  Window(frames[k]) \cap W = {} /\ Window(frames[k]) \subseteq Pos
  <2>1. PICK g : g = frames[k]
    OBVIOUS
  <2>2. g \in Frames /\ Apart(g, f) /\ g.end <= Len(input)
    BY <1>5, <2>1 DEF FrameOK
  <2>3. g.begin \in Nat /\ g.end \in Nat
    BY <2>2 DEF Frames
  <2>4. Window(g) \subseteq Pos
    BY <1>2, <2>2, <2>3 DEF Window, Pos
  <2>5. \A i \in Window(g) : i \notin W
    BY <1>2, <2>2, <2>3 DEF Window, Apart
  <2> QED BY <2>1, <2>4, <2>5
<1>7. W \subseteq Pos
  BY <1>2 DEF Window, Pos
<1>8. ASSUME NEW k \in rest, NEW g, g = frames[k] PROVE FrameOK(g)'
  <2>1. \A i \in Window(g) : data'[i] = data[i]
    BY <1>3, <1>6, <1>8
  <2>2. FrameOK(g)
    BY <1>5, <1>8
  <2> QED BY <2>1, <2>2, SameConf DEF FrameOK, Window
<1>9. FramesOK'
  <2>1. ASSUME NEW k \in DOMAIN frames', NEW g, g = frames'[k] PROVE FrameOK(g)'
    BY <1>1, <1>8, <2>1
  <2>2. ASSUME NEW k \in DOMAIN frames', NEW m \in DOMAIN frames', k # m,
               NEW g, NEW h, g = frames'[k], h = frames'[m]
        PROVE  Apart(g, h)
    <3>0. Len(new) \in Nat /\ DOMAIN new = 1 .. Len(new)
          /\ DOMAIN frames' \subseteq Nat
      BY <1>1
    <3>1. CASE k \in DOMAIN new /\ m \in DOMAIN new
      BY <1>1, <2>2, <3>1
    <3>2. CASE k \notin DOMAIN new /\ m \notin DOMAIN new
      <4>1. /\ (k - Len(new)) + 1 \in rest /\ g = frames[(k - Len(new)) + 1]
            /\ (m - Len(new)) + 1 \in rest /\ h = frames[(m - Len(new)) + 1]
        BY <1>1, <2>2, <3>2
      <4>2. (k - Len(new)) + 1 # (m - Len(new)) + 1
        BY <2>2, <3>0
      <4> QED BY <4>1, <4>2 DEF FramesOK
    <3>3. ASSUME NEW x, NEW y, x \in Frames, f.begin <= x.begin, x.end <= f.end,
                 \E n \in rest : y = frames[n]
          PROVE  Apart(x, y) /\ Apart(y, x)
      <4>1. Apart(y, f) /\ y \in Frames
        BY <1>5, <3>3
      <4> QED BY <1>2, <3>3, <4>1 DEF Apart, Frames
    <3>4. \A n \in DOMAIN new : new[n] \in Frames
      OBVIOUS
    <3>5. CASE k \in DOMAIN new /\ m \notin DOMAIN new
      <4>1. g = new[k] /\ \E n \in rest : h = frames[n]
        BY <1>1, <2>2, <3>5
      <4> QED BY <3>3, <3>4, <3>5, <4>1
    <3>6. CASE k \notin DOMAIN new /\ m \in DOMAIN new
      <4>1. h = new[m] /\ \E n \in rest : g = frames[n]
        BY <1>1, <2>2, <3>6
      <4> QED BY <3>3, <3>4, <3>6, <4>1
    <3> QED BY <3>1, <3>2, <3>5, <3>6
  <2>3. \A k \in DOMAIN frames' : FrameOK(frames[k])'
    BY <2>1
  <2>4. \A k, m \in DOMAIN frames' : k # m => Apart(frames'[k], frames'[m])
    BY <2>2
  <2> QED BY <1>1, <2>3, <2>4 DEF FramesOK, Apart
<1>10. ASSUME NEW i \in Pos, NEW j \in Pos, i < j
       PROVE  \/ \E k \in DOMAIN frames' : i \in Window(frames'[k]) /\ j \in Window(frames'[k])
              \/ ~Below(data'[j], data'[i])
  <2> DEFINE a == IF i \in W THEN q[i] ELSE i
             c == IF j \in W THEN q[j] ELSE j
  <2>1. CASE i \in W /\ j \in W
    BY <1>1, <1>10, <2>1
  <2>2. CASE ~(i \in W /\ j \in W)
    <3>1. data'[i] = data[a] /\ data'[j] = data[c] /\ a \in Pos /\ c \in Pos
      BY <1>3, <1>4, <1>7
    <3>2. a < c /\ ~(a \in W /\ c \in W)
      <4>1. i \in W => a \in W
        BY <1>4
      <4>2. j \in W => c \in W
        BY <1>4
      <4> QED BY <1>2, <1>10, <2>2, <4>1, <4>2 DEF Window, Pos
    <3>3. Together(a, c) \/ ~Below(data[c], data[a])
      BY <3>1, <3>2 DEF Ordered
    <3>4. CASE Together(a, c)
      <4>1. PICK k \in DOMAIN frames : a \in Window(frames[k]) /\ c \in Window(frames[k])
        BY <3>4 DEF Together
      <4>2. k \in rest
        BY <1>1, <3>2, <4>1
      <4>3. a = i /\ c = j
        BY <1>4, <1>6, <4>1, <4>2
      <4>4. PICK n \in DOMAIN frames' : frames'[n] = frames[k]
        BY <1>1, <4>2
      <4> QED BY <4>1, <4>3, <4>4
    <3> QED BY <3>1, <3>3, <3>4
  <2> QED BY <2>1, <2>2
<1>11. Ordered(data)'
  BY <1>10, SameConf DEF Ordered, Together, Window
<1>12. Perm(data)'
  <2>1. input' = input /\ Pos' = Pos
    BY SameConf
  <2>2. PICK p \in Bijection(Pos, Pos) : data' = [i \in Pos |-> input[p[i]]]
    BY <1>3 DEF Perm
  <2>3. \E r \in Bijection(Pos', Pos') : data' = [i \in Pos' |-> input'[r[i]]]
    BY <2>1, <2>2
  <2> QED BY <2>3 DEF Perm
<1> QED BY <1>9, <1>11, <1>12

----------------------------------------------------------------------------
(* The steps that finish a call.                                           *)

InPlaceInv == ConfOK /\ which = FALSE /\ FramesOK /\ Ordered(data) /\ Perm(data)

\* The call that is next.
LEMMA FirstFrame ==
  ASSUME InPlaceInv, frames # << >>, NEW f, f = Head(frames)
  PROVE  /\ f = frames[1] /\ 1 \in DOMAIN frames
         /\ f.begin \in Nat /\ f.end \in Nat /\ f.sub \in Nat /\ f.offset \in Nat
         /\ FrameOK(f) /\ Window(f) \subseteq Pos
         /\ \A i \in Pos : Valid(data[i])
         /\ \A i \in Window(f) : Valid(data[i])
         /\ DOMAIN shape = 1 .. Len(shape) /\ Len(shape) \in Nat
         /\ f.sub \in DOMAIN shape /\ shape[f.sub].bytes \in {1, 2, 4, 8}
<1>1. frames \in Seq(Frames) /\ ConfOK /\ Perm(data) /\ ShapeOK /\ Len(input) \in Nat
  BY DEF InPlaceInv, FramesOK, ConfOK
<1>2. f = frames[1] /\ 1 \in DOMAIN frames /\ f \in Frames
  BY <1>1
<1>3. f.begin \in Nat /\ f.end \in Nat /\ f.sub \in Nat /\ f.offset \in Nat
  BY <1>2 DEF Frames
<1>4. FrameOK(f)
  BY <1>2 DEF InPlaceInv, FramesOK
<1>5. Window(f) \subseteq Pos
  BY <1>1, <1>3, <1>4 DEF Window, Pos, FrameOK
<1>6. \A i \in Pos : Valid(data[i])
  BY <1>1, PermIs
<1>7. f.sub \in DOMAIN shape
  BY <1>4 DEF FrameOK
<1> QED BY <1>1, <1>2, <1>3, <1>4, <1>5, <1>6, <1>7, ShapeSubKeys

\* Leaving things as they are is a rearrangement too.
LEMMA NothingMoves ==
  ASSUME ConfOK, Perm(data), NEW b \in Nat, NEW e \in Nat
  PROVE  /\ [i \in b + 1 .. e |-> i] \in Bijection(b + 1 .. e, b + 1 .. e)
         /\ Rearranged(b, e, [i \in b + 1 .. e |-> i]) = data
<1> DEFINE W == b + 1 .. e
           q == [i \in W |-> i]
<1>1. \A i \in Pos : b < i /\ i <= e <=> i \in W
  BY DEF Pos, ConfOK
<1> HIDE DEF W
<1>2. /\ q \in [W -> W] /\ \A i, j \in W : q[i] = q[j] => i = j
      /\ \A j \in W : \E i \in W : q[i] = j
  OBVIOUS
<1>3. \A i \in W : q[i] = i
  OBVIOUS
<1> HIDE DEF q
<1>4. q \in Bijection(W, W)
  BY <1>2, BijectionIs
<1>5. DOMAIN data = Pos /\ data = [i \in Pos |-> data[i]]
  BY PermIs
<1>6. Rearranged(b, e, q) = [i \in Pos |-> IF b < i /\ i <= e THEN data[q[i]] ELSE data[i]]
  BY <1>5 DEF Rearranged
<1>7. \A i \in Pos : (IF b < i /\ i <= e THEN data[q[i]] ELSE data[i]) = data[i]
  BY <1>1, <1>3
<1>8. Rearranged(b, e, q) = data
  BY <1>5, <1>6, <1>7
<1> QED BY <1>4, <1>8 DEF q, W

\* std::sort() of a short range.
LEMMA SortSmallKeeps ==
  ASSUME InPlaceInv, SortSmall
  PROVE  InPlaceInv'
<1>1. PICK f : f = Head(frames)
  OBVIOUS
<1>2. PICK q \in Bijection(Window(f), Window(f)) :
        /\ \A i, j \in Window(f) : i < j => ~Less(data[q[j]], data[q[i]])
        /\ data' = Rearranged(f.begin, f.end, q)
  BY <1>1 DEF SortSmall, Window
<1>3. /\ frames # << >> /\ frames' = << >> \o Tail(frames)
      /\ UNCHANGED config /\ which' = which
  BY DEF SortSmall, Small, Leave
<1>4. /\ f.begin \in Nat /\ f.end \in Nat /\ f.end <= Len(input)
      /\ Window(f) \subseteq Pos
  BY <1>1, <1>3, FirstFrame DEF FrameOK
<1>5. /\ ConfOK /\ FramesOK /\ Ordered(data) /\ Perm(data)
  BY DEF InPlaceInv
<1>6. \A i \in Window(f) : data'[i] = data[q[i]]
  BY <1>2, <1>4, <1>5, RearrangedIs DEF Window
<1>7. PICK new : new = << >>
  OBVIOUS
<1>9. new \in Seq(Frames) /\ DOMAIN new = {}
  BY <1>7
<1>8. FramesOK' /\ Ordered(data)' /\ Perm(data)'
  <2>1. /\ \A k \in DOMAIN new :
             f.begin <= new[k].begin /\ new[k].end <= f.end /\ FrameOK(new[k])'
        /\ \A k, m \in DOMAIN new : k # m => Apart(new[k], new[m])
    BY <1>9
  <2>2. \A i, j \in Window(f) : i < j =>
          \/ \E k \in DOMAIN new : i \in Window(new[k]) /\ j \in Window(new[k])
          \/ ~Below(data'[j], data'[i])
    BY <1>2, <1>6 DEF Below
  <2>3. frames' = new \o Tail(frames)
    BY <1>3, <1>7
  <2> QED BY <1>1, <1>2, <1>3, <1>5, <1>9, <2>1, <2>2, <2>3, Leaving
<1> QED
  BY <1>3, <1>5, <1>8, SameConf DEF InPlaceInv

\* The next sub key of elements that agree on one.
LEMMA NextSubKeyKeeps ==
  ASSUME InPlaceInv, NextSubKey
  PROVE  InPlaceInv'
<1>1. PICK f : f = Head(frames)
  OBVIOUS
<1>2. PICK g : g = Frame(f.begin, f.end, f.sub + 1, 0)
  OBVIOUS
<1>3. /\ frames # << >> /\ frames' = <<g>> \o Tail(frames)
      /\ UNCHANGED config /\ which' = which /\ data' = data
      /\ f.offset = shape[f.sub].bytes
  BY <1>1, <1>2 DEF NextSubKey, Large, Leave
<1>4. /\ f.begin \in Nat /\ f.end \in Nat /\ f.sub \in Nat /\ FrameOK(f)
      /\ Window(f) \subseteq Pos /\ \A i \in Pos : Valid(data[i])
      /\ DOMAIN shape = 1 .. Len(shape) /\ Len(shape) \in Nat
      /\ f.sub \in DOMAIN shape
  BY <1>1, <1>3, FirstFrame
<1>5. /\ ConfOK /\ FramesOK /\ Ordered(data) /\ Perm(data) /\ ShapeOK
  BY DEF InPlaceInv, ConfOK
<1>6. /\ g.begin = f.begin /\ g.end = f.end /\ g.sub = f.sub + 1 /\ g.offset = 0
      /\ g \in Frames
  BY <1>2, <1>4 DEF Frame, Frames
<1>7. PICK q : q = [i \in f.begin + 1 .. f.end |-> i]
  OBVIOUS
<1>8. q \in Bijection(Window(f), Window(f)) /\ data' = Rearranged(f.begin, f.end, q)
  BY <1>3, <1>4, <1>5, <1>7, NothingMoves DEF Window
<1>9. g.sub \in DOMAIN shape /\ shape[g.sub].bytes \in {1, 2, 4, 8}
  <2>1. f.sub < Len(shape)
    BY <1>3, <1>4 DEF FrameOK
  <2> QED BY <1>4, <1>5, <1>6, <2>1, ShapeSubKeys
<1>10. ASSUME NEW i \in Window(f), NEW j \in Window(f)
       PROVE  Agree(data[i], data[j], g.sub, 0)
  <2>1. Agree(data[i], data[j], f.sub, shape[f.sub].bytes)
    BY <1>3, <1>4 DEF FrameOK
  <2>2. Valid(data[i]) /\ Valid(data[j])
    BY <1>4
  <2>3. \A s \in 1 .. f.sub : Val(data[i], s) = Val(data[j], s)
    BY <1>4, <1>5, <2>1, <2>2, AgreeAll
  <2>4. g.sub - 1 = f.sub
    BY <1>4, <1>6
  <2> QED BY <1>5, <1>9, <2>2, <2>3, <2>4, AgreeFirst
<1>11. FrameOK(g)'
  <2>1. FrameOK(g)
    BY <1>4, <1>6, <1>9, <1>10 DEF FrameOK, Window
  <2> QED BY <1>3, <2>1, SameConf DEF FrameOK, Window
<1>12. PICK new : new = <<g>>
  OBVIOUS
<1>13. new \in Seq(Frames) /\ DOMAIN new = {1} /\ new[1] = g
  BY <1>6, <1>12
<1>14. FramesOK' /\ Ordered(data)' /\ Perm(data)'
  <2>1. /\ \A k \in DOMAIN new :
             f.begin <= new[k].begin /\ new[k].end <= f.end /\ FrameOK(new[k])'
        /\ \A k, m \in DOMAIN new : k # m => Apart(new[k], new[m])
    BY <1>4, <1>6, <1>11, <1>13
  <2>2. \A i, j \in Window(f) : i < j =>
          \/ \E k \in DOMAIN new : i \in Window(new[k]) /\ j \in Window(new[k])
          \/ ~Below(data'[j], data'[i])
    BY <1>6, <1>13 DEF Window
  <2>3. frames' = new \o Tail(frames)
    BY <1>3, <1>12
  <2> QED BY <1>1, <1>3, <1>5, <1>8, <1>13, <2>1, <2>2, <2>3, Leaving
<1> QED
  BY <1>3, <1>5, <1>14, SameConf DEF InPlaceInv

\* A bool of elements that agree on the sub keys before it.
LEMMA BoolOrder ==
  ASSUME ShapeOK, NEW l, NEW r, Valid(l), Valid(r), NEW sub \in DOMAIN shape,
         shape[sub].type = "bool", \A s \in 1 .. sub - 1 : Val(l, s) = Val(r, s)
  PROVE  /\ (l[sub] = 0 <=> r[sub] = 0) => \A s \in 1 .. sub : Val(l, s) = Val(r, s)
         /\ l[sub] = 0 /\ r[sub] # 0 => RadixLess(l, r)
<1>1. l[sub] \in {0, 1} /\ r[sub] \in {0, 1}
  BY DEF Valid, Bits
<1>2. Val(l, sub) = l[sub] /\ Val(r, sub) = r[sub]
  BY DEF Val, Value
<1>3. sub \in Nat
  BY ShapeSubKeys
<1>4. ASSUME l[sub] = 0 <=> r[sub] = 0, NEW s \in 1 .. sub
      PROVE  Val(l, s) = Val(r, s)
  BY <1>1, <1>2, <1>3, <1>4
<1>5. ASSUME l[sub] = 0, r[sub] # 0 PROVE RadixLess(l, r)
  <2>1. U(l, sub) < U(r, sub)
    BY <1>1, <1>5 DEF U, to_unsigned_or_bool
  <2>2. ASSUME NEW i \in 1 .. sub - 1 PROVE U(l, i) = U(r, i)
    <3>1. i \in DOMAIN shape
      BY ShapeSubKeys
    <3> QED BY <3>1, UVal
  <2> QED BY <2>1, <2>2 DEF RadixLess
<1> QED BY <1>4, <1>5

\* std::partition() by a bool.
LEMMA PartitionBoolKeeps ==
  ASSUME InPlaceInv, PartitionBool
  PROVE  InPlaceInv'
<1>1. PICK f : f = Head(frames)
  OBVIOUS
<1> DEFINE W == Window(f)
<1>2. PICK q \in Bijection(W, W), middle \in f.begin .. f.end :
        /\ \A i \in W : data[q[i]][f.sub] = 0 <=> i <= middle
        /\ data' = Rearranged(f.begin, f.end, q)
        /\ Leave(IF f.sub = Len(shape) THEN << >>
                 ELSE <<Frame(f.begin, middle, f.sub + 1, 0),
                        Frame(middle, f.end, f.sub + 1, 0)>>)
  BY <1>1 DEF PartitionBool, Window
<1>3. PICK g : g = Frame(f.begin, middle, f.sub + 1, 0)
  OBVIOUS
<1>4. PICK h : h = Frame(middle, f.end, f.sub + 1, 0)
  OBVIOUS
<1>5. PICK new : new = IF f.sub = Len(shape) THEN << >> ELSE <<g, h>>
  OBVIOUS
<1>6. /\ frames # << >> /\ frames' = new \o Tail(frames)
      /\ UNCHANGED config /\ which' = which
      /\ f.offset = 0 /\ shape[f.sub].type = "bool"
  BY <1>1, <1>2, <1>3, <1>4, <1>5 DEF PartitionBool, Large, Leave
<1>7. /\ f.begin \in Nat /\ f.end \in Nat /\ f.sub \in Nat /\ FrameOK(f)
      /\ W \subseteq Pos /\ \A i \in Pos : Valid(data[i])
      /\ DOMAIN shape = 1 .. Len(shape) /\ Len(shape) \in Nat
      /\ f.sub \in DOMAIN shape /\ f.end <= Len(input)
  BY <1>1, <1>6, FirstFrame DEF FrameOK
<1>8. /\ ConfOK /\ FramesOK /\ Ordered(data) /\ Perm(data) /\ ShapeOK
      /\ Len(input) \in Nat
  BY DEF InPlaceInv, ConfOK
<1>9. q \in [W -> W] /\ \A i \in W : data'[i] = data[q[i]]
  <2>1. \A i \in Pos : data'[i] = IF i \in W THEN data[q[i]] ELSE data[i]
    BY <1>2, <1>7, <1>8, RearrangedIs DEF Window
  <2> QED BY <1>7, <2>1, BijectionIs
<1>10. ASSUME NEW i \in W, NEW j \in W
       PROVE  /\ Valid(data'[i]) /\ Valid(data'[j])
              /\ \A s \in 1 .. f.sub - 1 : Val(data'[i], s) = Val(data'[j], s)
              /\ (i <= middle <=> j <= middle) =>
                   \A s \in 1 .. f.sub : Val(data'[i], s) = Val(data'[j], s)
              /\ i <= middle /\ ~(j <= middle) => RadixLess(data'[i], data'[j])
  <2>1. PICK l : l = data'[i]
    OBVIOUS
  <2>2. PICK r : r = data'[j]
    OBVIOUS
  <2>3. Valid(l) /\ Valid(r)
    BY <1>7, <1>9, <2>1, <2>2
  <2>4. \A s \in 1 .. f.sub - 1 : Val(l, s) = Val(r, s)
    <3>1. Agree(l, r, f.sub, f.offset)
      BY <1>7, <1>9, <2>1, <2>2 DEF FrameOK
    <3> QED BY <3>1 DEF Agree
  <2>5. (l[f.sub] = 0 <=> i <= middle) /\ (r[f.sub] = 0 <=> j <= middle)
    BY <1>2, <1>9, <2>1, <2>2
  <2>6. /\ (l[f.sub] = 0 <=> r[f.sub] = 0) => \A s \in 1 .. f.sub : Val(l, s) = Val(r, s)
        /\ l[f.sub] = 0 /\ r[f.sub] # 0 => RadixLess(l, r)
    BY <1>6, <1>7, <1>8, <2>3, <2>4, BoolOrder
  <2> QED BY <2>1, <2>2, <2>3, <2>4, <2>5, <2>6
<1>11. ASSUME NEW i \in W, NEW j \in W, i < j, i <= middle, ~(j <= middle)
       PROVE  ~Below(data'[j], data'[i])
  BY <1>8, <1>10, <1>11, RadixLessOneWay
<1>12. \A i, j \in W : i < j => i \in Int /\ j \in Int
  BY <1>7 DEF Window
<1>13. CASE f.sub = Len(shape)
  <2>1. new \in Seq(Frames) /\ DOMAIN new = {}
    BY <1>5, <1>13
  <2>2. /\ \A k \in DOMAIN new :
             f.begin <= new[k].begin /\ new[k].end <= f.end /\ FrameOK(new[k])'
        /\ \A k, m \in DOMAIN new : k # m => Apart(new[k], new[m])
    BY <2>1
  <2>3. ASSUME NEW i \in W, NEW j \in W, i < j
        PROVE  ~Below(data'[j], data'[i])
    <3>1. CASE i <= middle <=> j <= middle
      <4>1. \A s \in DOMAIN shape : Val(data'[j], s) = Val(data'[i], s)
        BY <1>7, <1>10, <1>13, <3>1
      <4> QED BY <1>8, <1>10, <4>1, SameNotBelow
    <3>2. CASE ~(i <= middle <=> j <= middle)
      <4>1. i <= middle /\ ~(j <= middle)
        BY <1>2, <1>7, <1>12, <2>3, <3>2
      <4> QED BY <1>11, <2>3, <4>1
    <3> QED BY <3>1, <3>2
  <2>4. \A i, j \in W : i < j =>
          \/ \E k \in DOMAIN new : i \in Window(new[k]) /\ j \in Window(new[k])
          \/ ~Below(data'[j], data'[i])
    BY <2>3
  <2>5. FramesOK' /\ Ordered(data)' /\ Perm(data)'
    BY <1>1, <1>2, <1>6, <1>8, <2>1, <2>2, <2>4, Leaving
  <2> QED
    BY <1>6, <1>8, <2>5, SameConf DEF InPlaceInv
<1>14. CASE f.sub # Len(shape)
  <2>0. middle \in Nat /\ f.begin <= middle /\ middle <= f.end
    BY <1>2, <1>7
  <2>1. /\ g.begin = f.begin /\ g.end = middle /\ g.sub = f.sub + 1 /\ g.offset = 0
        /\ h.begin = middle /\ h.end = f.end /\ h.sub = f.sub + 1 /\ h.offset = 0
        /\ g \in Frames /\ h \in Frames
    BY <1>3, <1>4, <1>7, <2>0 DEF Frame, Frames
  <2>2. new \in Seq(Frames) /\ DOMAIN new = {1, 2} /\ new[1] = g /\ new[2] = h
    BY <1>5, <1>14, <2>1
  <2>3. f.sub + 1 \in DOMAIN shape /\ shape[f.sub + 1].bytes \in {1, 2, 4, 8}
    BY <1>7, <1>8, <1>14, ShapeSubKeys
  <2>4. ASSUME NEW i \in W, NEW j \in W, i <= middle <=> j <= middle
        PROVE  Agree(data'[i], data'[j], f.sub + 1, 0)
    <3>1. \A s \in 1 .. (f.sub + 1) - 1 : Val(data'[i], s) = Val(data'[j], s)
      BY <1>7, <1>10, <2>4
    <3> QED BY <1>8, <1>10, <2>3, <3>1, AgreeFirst
  <2>5. /\ \A i \in Window(g) : i \in W /\ i <= middle
        /\ \A i \in Window(h) : i \in W /\ ~(i <= middle)
        /\ \A i \in W : i <= middle => i \in Window(g)
        /\ \A i \in W : ~(i <= middle) => i \in Window(h)
    BY <1>7, <2>0, <2>1 DEF Window
  <2>6. FrameOK(g)' /\ FrameOK(h)'
    <3>1. /\ \A i, j \in Window(g) : Agree(data'[i], data'[j], f.sub + 1, 0)
          /\ \A i, j \in Window(h) : Agree(data'[i], data'[j], f.sub + 1, 0)
      BY <2>4, <2>5
    <3>2. middle <= Len(input)
      BY <1>7, <1>8, <2>0
    <3>3. /\ shape' = shape /\ input' = input
          /\ \A l, r, sub, offset : Agree(l, r, sub, offset)' <=> Agree(l, r, sub, offset)
      BY <1>6, SameConf
    <3>4. f.end <= Len(input) /\ 0 <= shape[f.sub + 1].bytes /\ shape[f.sub + 1].bytes # 0
      <4>1. 0 <= shape[f.sub + 1].bytes /\ shape[f.sub + 1].bytes # 0
        BY <2>3
      <4> QED BY <1>7, <4>1
    <3>5. FrameOK(g)'
      BY <2>0, <2>1, <2>3, <3>1, <3>2, <3>3, <3>4 DEF FrameOK, Window
    <3>6. FrameOK(h)'
      BY <2>0, <2>1, <2>3, <3>1, <3>2, <3>3, <3>4 DEF FrameOK, Window
    <3> QED BY <3>5, <3>6
  <2>7. /\ \A k \in DOMAIN new :
             f.begin <= new[k].begin /\ new[k].end <= f.end /\ FrameOK(new[k])'
        /\ \A k, m \in DOMAIN new : k # m => Apart(new[k], new[m])
    BY <1>7, <2>0, <2>1, <2>2, <2>6 DEF Apart
  <2>8. ASSUME NEW i \in W, NEW j \in W, i < j
        PROVE  \/ \E k \in DOMAIN new : i \in Window(new[k]) /\ j \in Window(new[k])
               \/ ~Below(data'[j], data'[i])
    <3>1. CASE i <= middle <=> j <= middle
      BY <2>2, <2>5, <3>1
    <3>2. CASE ~(i <= middle <=> j <= middle)
      <4>1. i <= middle /\ ~(j <= middle)
        BY <1>12, <2>0, <2>8, <3>2
      <4> QED BY <1>11, <2>8, <4>1
    <3> QED BY <3>1, <3>2
  <2>9. FramesOK' /\ Ordered(data)' /\ Perm(data)'
    BY <1>1, <1>2, <1>6, <1>8, <2>2, <2>7, <2>8, Leaving
  <2> QED
    BY <1>6, <1>8, <2>9, SameConf DEF InPlaceInv
<1> QED BY <1>13, <1>14

----------------------------------------------------------------------------
(* Passes over one byte.                                                   *)

\* The call that runs, its number of elements and their bytes.
Cur == Head(frames)
Count == Cur.end - Cur.begin
Bytes == [i \in 0 .. Count - 1 |-> ByteAt(Cur, i)]

\* The positions that belong to byte b.
Start(b) == IF b = 0 THEN 0 ELSE pass.next_offset[b - 1]
Block(b) == Start(b) .. pass.next_offset[b] - 1
Complete(b) == \A i \in Block(b) : Bytes[i] = b

PassFields ==
  {"kind", "ascending", "partitions", "offset", "next_offset", "block", "it", "last", "keep"}

\* The blocks follow each other, each is as long as its byte is frequent, and
\* its positions before the offset hold the byte.
Blocks ==
  /\ pass.next_offset \in [Byte -> Nat] /\ pass.offset \in [Byte -> Nat]
  /\ \A b \in Byte : pass.next_offset[b] <= Count
  /\ \A b, c \in Byte : b <= c => pass.next_offset[b] <= pass.next_offset[c]
  /\ \A b \in Byte :
       Cardinality({i \in 0 .. Count - 1 : Bytes[i] = b}) = pass.next_offset[b] - Start(b)
  /\ \A b \in Byte : Start(b) < pass.next_offset[b] =>
       /\ Start(b) <= pass.offset[b] /\ pass.offset[b] <= pass.next_offset[b]
       /\ \A i \in Start(b) .. pass.offset[b] - 1 : Bytes[i] = b

\* The partitions are the bytes that occur.
Partitions ==
  /\ pass.partitions \in Seq(Byte)
  /\ \A c, d \in DOMAIN pass.partitions :
       pass.partitions[c] = pass.partitions[d] => c = d
  /\ \A b \in Byte : Start(b) < pass.next_offset[b] <=>
       \E c \in DOMAIN pass.partitions : pass.partitions[c] = b

PassOK ==
  /\ frames # << >>
  /\ Cur.offset < shape[Cur.sub].bytes
  /\ DOMAIN pass = PassFields
  /\ Partitions
  /\ Blocks

\* The bytes of a call's elements are bytes.
LEMMA BytesAre ==
  ASSUME InPlaceInv, frames # << >>, Cur.offset < shape[Cur.sub].bytes
  PROVE  /\ Count \in Nat
         /\ \A i \in 0 .. Count - 1 :
              /\ Cur.begin + i + 1 \in Window(Cur)
              /\ Bytes[i] = current_byte(data[Cur.begin + i + 1], Cur.sub, Cur.offset)
              /\ Bytes[i] \in Byte
<1>1. PICK f : f = Cur
  OBVIOUS
<1>2. /\ f.begin \in Nat /\ f.end \in Nat /\ f.offset \in Nat /\ FrameOK(f)
      /\ \A i \in Window(f) : Valid(data[i])
      /\ f.sub \in DOMAIN shape /\ shape[f.sub].bytes \in {1, 2, 4, 8}
  BY <1>1, FirstFrame DEF Cur
<1>3. Count = f.end - f.begin /\ Count \in Nat
  BY <1>1, <1>2 DEF Count, FrameOK
<1>4. ASSUME NEW i \in 0 .. Count - 1
      PROVE  /\ f.begin + i + 1 \in Window(f)
             /\ Bytes[i] = current_byte(data[f.begin + i + 1], f.sub, f.offset)
             /\ Bytes[i] \in Byte
  <2>1. f.begin + i + 1 \in Window(f)
    BY <1>2, <1>3 DEF Window
  <2>2. PICK e : e = data[f.begin + i + 1]
    OBVIOUS
  <2>3. Bytes[i] = current_byte(e, f.sub, f.offset)
    BY <1>1, <2>2 DEF Bytes, ByteAt
  <2>4. f.offset \in 0 .. shape[f.sub].bytes - 1 /\ Valid(e) /\ Agree(e, e, f.sub, f.offset)
    BY <1>1, <1>2, <2>1, <2>2 DEF FrameOK
  <2>5. ShapeOK
    BY DEF InPlaceInv, ConfOK
  <2>6. current_byte(e, f.sub, f.offset) \in Byte
    BY <1>2, <2>4, <2>5, NextByte
  <2> QED BY <2>1, <2>2, <2>3, <2>6
<1> QED BY <1>1, <1>3, <1>4

\* Where the blocks lie.
LEMMA BlocksAre ==
  ASSUME InPlaceInv, frames # << >>, Cur.offset < shape[Cur.sub].bytes, Blocks
  PROVE  /\ \A b \in Byte :
              /\ Start(b) \in Nat /\ pass.next_offset[b] \in Nat
              /\ Start(b) <= pass.next_offset[b] /\ pass.next_offset[b] <= Count
         /\ \A b, c \in Byte : b < c => pass.next_offset[b] <= Start(c)
         /\ \A b, c \in Byte : \A i \in Block(b) : i \in Block(c) => b = c
<1>0. Radix \in Nat /\ Count \in Nat
  BY BytesAre, SkaSortAssumption
<1>1. \A b \in Byte : b \in Nat /\ (b # 0 => b - 1 \in Byte /\ b - 1 <= b)
  BY <1>0 DEF Byte
<1>2. \A b \in Byte :
        /\ Start(b) \in Nat /\ pass.next_offset[b] \in Nat
        /\ Start(b) <= pass.next_offset[b] /\ pass.next_offset[b] <= Count
  BY <1>1 DEF Blocks, Start
<1>3. ASSUME NEW b \in Byte, NEW c \in Byte, b < c
      PROVE  pass.next_offset[b] <= Start(c)
  <2>1. c # 0 /\ c - 1 \in Byte /\ b <= c - 1
    BY <1>0, <1>3 DEF Byte
  <2>2. pass.next_offset[b] <= pass.next_offset[c - 1]
    BY <2>1 DEF Blocks
  <2> QED BY <2>1, <2>2 DEF Start
<1>4. ASSUME NEW b \in Byte, NEW c \in Byte, NEW i \in Block(b), i \in Block(c)
      PROVE  b = c
  <2>1. Start(b) <= i /\ i < pass.next_offset[b] /\ Start(c) <= i /\ i < pass.next_offset[c]
        /\ i \in Int
    BY <1>2, <1>4 DEF Block
  <2>0. /\ Start(b) \in Nat /\ pass.next_offset[b] \in Nat
        /\ Start(c) \in Nat /\ pass.next_offset[c] \in Nat
    BY <1>2
  <2>2. ~(b < c) /\ ~(c < b)
    <3>1. b < c => pass.next_offset[b] <= Start(c)
      BY <1>3
    <3>2. c < b => pass.next_offset[c] <= Start(b)
      BY <1>3
    <3> QED BY <2>0, <2>1, <3>1, <3>2
  <2> QED BY <1>0, <2>2 DEF Byte
<1> QED BY <1>2, <1>3, <1>4

\* A byte outside the first part of its block has a place left in it.
LEMMA PlaceLeft ==
  ASSUME InPlaceInv, frames # << >>, Cur.offset < shape[Cur.sub].bytes, Blocks,
         NEW it \in 0 .. Count - 1, NEW b, b = Bytes[it],
         NEW o \in Nat, Start(b) <= o, o <= Count,
         \A i \in Start(b) .. o - 1 : Bytes[i] = b, it \notin Start(b) .. o - 1
  PROVE  b \in Byte /\ o < pass.next_offset[b]
<1>1. Count \in Nat /\ b \in Byte
  BY BytesAre
<1>2. Start(b) \in Nat /\ pass.next_offset[b] \in Nat
  BY <1>1, BlocksAre
<1>3. Cardinality({i \in 0 .. Count - 1 : Bytes[i] = b}) = pass.next_offset[b] - Start(b)
  BY <1>1 DEF Blocks
<1>4. PICK n, g, a, e : n = Count /\ g = Bytes /\ a = Start(b) /\ e = pass.next_offset[b]
  OBVIOUS
<1>5. /\ n \in Nat /\ a \in Nat /\ e \in Nat /\ a <= o /\ o <= n
      /\ Cardinality({i \in 0 .. n - 1 : g[i] = b}) = e - a
      /\ \A i \in a .. o - 1 : g[i] = b
      /\ it \in 0 .. n - 1 /\ g[it] = b /\ it \notin a .. o - 1
  BY <1>1, <1>2, <1>3, <1>4
<1>6. o < e
  BY <1>5, Room
<1> QED
  BY <1>1, <1>4, <1>6

\* A byte that occurs has a block, and is in it if the block is complete.
LEMMA InBlock ==
  ASSUME InPlaceInv, frames # << >>, Cur.offset < shape[Cur.sub].bytes, Blocks,
         NEW i \in 0 .. Count - 1, NEW b, b = Bytes[i]
  PROVE  /\ b \in Byte /\ Start(b) < pass.next_offset[b]
         /\ Complete(b) => i \in Block(b)
<1>1. Count \in Nat /\ b \in Byte
  BY BytesAre
<1>2. /\ Start(b) \in Nat /\ pass.next_offset[b] \in Nat
      /\ Start(b) <= pass.next_offset[b] /\ pass.next_offset[b] <= Count
  BY <1>1, BlocksAre
<1>3. Start(b) .. Start(b) - 1 = {} /\ Start(b) <= Count
  BY <1>1, <1>2
<1>4. Start(b) < pass.next_offset[b]
  BY <1>1, <1>2, <1>3, PlaceLeft
<1>5. ASSUME Complete(b), i \notin Block(b) PROVE FALSE
  <2>1. pass.next_offset[b] < pass.next_offset[b]
    BY <1>1, <1>2, <1>5, PlaceLeft DEF Complete, Block
  <2> QED BY <1>2, <2>1
<1> QED BY <1>1, <1>4, <1>5

\* If all blocks but one are complete, all are.
LEMMA LastComplete ==
  ASSUME InPlaceInv, PassOK, NEW d \in Byte,
         \A c \in DOMAIN pass.partitions :
           pass.partitions[c] # d => Complete(pass.partitions[c])
  PROVE  \A b \in Byte : Complete(b)
<1> SUFFICES ASSUME NEW b \in Byte, NEW i \in Block(b), Bytes[i] # b PROVE FALSE
  BY DEF Complete
<1>0. Blocks /\ frames # << >> /\ Cur.offset < shape[Cur.sub].bytes /\ Partitions
  BY DEF PassOK
<1>1. i \in 0 .. Count - 1 /\ Start(b) < pass.next_offset[b] /\ Count \in Nat
  BY <1>0, BlocksAre, BytesAre DEF Block
<1>2. PICK c : c = Bytes[i]
  OBVIOUS
<1>3. c \in Byte /\ Start(c) < pass.next_offset[c] /\ (Complete(c) => i \in Block(c))
  BY <1>0, <1>1, <1>2, InBlock
<1>4. ~Complete(c)
  BY <1>0, <1>2, <1>3, BlocksAre
<1>5. ~Complete(b)
  BY DEF Complete
<1>6. b = d /\ c = d
  BY <1>0, <1>1, <1>3, <1>4, <1>5 DEF Partitions
<1> QED BY <1>2, <1>6

\* A step that keeps the configuration keeps the bytes of an element.
LEMMA SameByte ==
  ASSUME UNCHANGED config
  PROVE  \A e, sub, offset : current_byte(e, sub, offset)' = current_byte(e, sub, offset)
<1>1. shape' = shape
  BY DEF config
<1> QED BY <1>1 DEF current_byte, to_unsigned_or_bool

\* A step that rearranges the range of the call that runs.
LEMMA Shuffled ==
  ASSUME InPlaceInv, frames # << >>, UNCHANGED config, frames' = frames, which' = which,
         NEW f, f = Cur, NEW q \in Bijection(Window(f), Window(f)),
         data' = Rearranged(f.begin, f.end, q)
  PROVE  InPlaceInv' /\ \A i \in Window(f) : data'[i] = data[q[i]]
<1>1. /\ f.begin \in Nat /\ f.end \in Nat /\ FrameOK(f) /\ f.end <= Len(input)
      /\ Window(f) \subseteq Pos
      /\ f = Head(frames) /\ f = frames[1]
  BY FirstFrame DEF Cur, FrameOK
<1>2. /\ ConfOK /\ FramesOK /\ Ordered(data) /\ Perm(data)
      /\ frames \in Seq(Frames)
  BY DEF InPlaceInv, FramesOK
<1>3. \A i \in Window(f) : data'[i] = data[q[i]]
  BY <1>1, <1>2, RearrangedIs DEF Window
<1>4. q \in [Window(f) -> Window(f)]
  BY BijectionIs
<1>5. PICK new : new = <<f>>
  OBVIOUS
<1>6. f \in Frames /\ frames' = new \o Tail(frames)
  BY <1>1, <1>2, <1>5
<1>7. new \in Seq(Frames) /\ DOMAIN new = {1} /\ new[1] = f
  BY <1>5, <1>6
<1>8. FrameOK(f)'
  <2>1. \A i, j \in Window(f) : Agree(data'[i], data'[j], f.sub, f.offset)
    BY <1>1, <1>3, <1>4 DEF FrameOK
  <2> QED BY <1>1, <2>1, SameConf DEF FrameOK, Window
<1>9. /\ \A k \in DOMAIN new :
           f.begin <= new[k].begin /\ new[k].end <= f.end /\ FrameOK(new[k])'
      /\ \A k, m \in DOMAIN new : k # m => Apart(new[k], new[m])
  BY <1>1, <1>7, <1>8
<1>10. \A i, j \in Window(f) : i < j =>
         \/ \E k \in DOMAIN new : i \in Window(new[k]) /\ j \in Window(new[k])
         \/ ~Below(data'[j], data'[i])
  <2>1. 1 \in DOMAIN new /\ Window(new[1]) = Window(f)
    BY <1>7
  <2> QED BY <2>1
<1>11. FramesOK' /\ Ordered(data)' /\ Perm(data)'
  <2>1. /\ ConfOK /\ FramesOK /\ Ordered(data) /\ Perm(data)
        /\ f = Head(frames) /\ new \in Seq(Frames) /\ frames' = new \o Tail(frames)
    BY <1>1, <1>2, <1>6, <1>7
  <2> QED BY <1>9, <1>10, <2>1, Leaving
<1> QED
  BY <1>2, <1>3, <1>11, SameConf DEF InPlaceInv

\* The swap of an element with the first place left in its block.
LEMMA Swapped ==
  ASSUME InPlaceInv, PassOK, NEW it \in 0 .. Count - 1, NEW b, b = Bytes[it],
         it \notin Start(b) .. pass.offset[b] - 1,
         UNCHANGED config, frames' = frames, which' = which,
         data' = iter_swap(data, Cur.begin + it, Cur.begin + pass.offset[b]),
         DOMAIN pass' = PassFields, pass'.partitions = pass.partitions,
         pass'.next_offset = pass.next_offset,
         pass'.offset = [pass.offset EXCEPT ![b] = @ + 1]
  PROVE  /\ InPlaceInv' /\ PassOK'
         /\ b \in Byte /\ pass.offset[b] \in Nat
         /\ Start(b) <= pass.offset[b] /\ pass.offset[b] < pass.next_offset[b]
         /\ Count' = Count /\ Cur' = Cur /\ \A c : Start(c)' = Start(c)
         /\ Bytes'[pass.offset[b]] = b
         /\ \A i \in 0 .. Count - 1 :
              i # it /\ i # pass.offset[b] => Bytes'[i] = Bytes[i]
<1>1. PICK f, o, n : f = Cur /\ o = pass.offset[b] /\ n = Count
  OBVIOUS
<1>2. /\ Blocks /\ Partitions /\ frames # << >> /\ Cur.offset < shape[Cur.sub].bytes
  BY DEF PassOK
<1>3. /\ f.begin \in Nat /\ f.end \in Nat /\ FrameOK(f) /\ n = f.end - f.begin
      /\ Window(f) \subseteq Pos
  BY <1>1, <1>2, FirstFrame DEF Cur, Count
<1>4. /\ n \in Nat
      /\ \A i \in 0 .. n - 1 :
           /\ f.begin + i + 1 \in Window(f)
           /\ Bytes[i] = current_byte(data[f.begin + i + 1], f.sub, f.offset)
           /\ Bytes[i] \in Byte
  BY <1>1, <1>2, BytesAre
<1>5. /\ b \in Byte /\ Start(b) < pass.next_offset[b]
  BY <1>2, InBlock
<1>6. /\ Start(b) \in Nat /\ pass.next_offset[b] \in Nat /\ pass.next_offset[b] <= n
  BY <1>1, <1>2, <1>5, BlocksAre
<1>7. /\ Start(b) <= o /\ o <= pass.next_offset[b] /\ o \in Nat
      /\ \A i \in Start(b) .. o - 1 : Bytes[i] = b
  BY <1>1, <1>2, <1>5 DEF Blocks
<1>8. o < pass.next_offset[b]
  <2>1. o <= Count
    BY <1>1, <1>4, <1>6, <1>7
  <2> QED BY <1>1, <1>2, <1>7, <2>1, PlaceLeft
<1>9. o \in 0 .. n - 1 /\ o \in Block(b)
  BY <1>4, <1>6, <1>7, <1>8 DEF Block
<1>10. PICK x, y, q : x = f.begin + it + 1 /\ y = f.begin + o + 1 /\ q = Exchange(Window(f), x, y)
  OBVIOUS
<1>11. x \in Window(f) /\ y \in Window(f)
  BY <1>1, <1>4, <1>9, <1>10
<1>12. q \in Bijection(Window(f), Window(f))
  BY <1>10, <1>11, ExchangeBijection
<1>13. ConfOK /\ Perm(data) /\ DOMAIN data = Pos /\ Len(input) \in Nat /\ f.end <= Len(input)
  <2>1. ConfOK /\ Perm(data)
    BY DEF InPlaceInv
  <2> QED BY <1>3, <2>1, PermIs DEF ConfOK, FrameOK
<1>14. data' = Rearranged(f.begin, f.end, q)
  <2>1. data' = [data EXCEPT ![x] = data[y], ![y] = data[x]]
    BY <1>1, <1>10 DEF iter_swap
  <2>2. data' = [i \in Pos |-> IF i = y THEN data[x] ELSE IF i = x THEN data[y] ELSE data[i]]
    BY <1>3, <1>11, <1>13, <2>1
  <2>3. \A i \in Pos : f.begin < i /\ i <= f.end <=> i \in Window(f)
    BY <1>3, <1>13 DEF Pos, Window
  <2>4. \A i \in Pos : (IF i = y THEN data[x] ELSE IF i = x THEN data[y] ELSE data[i])
                         = IF f.begin < i /\ i <= f.end THEN data[q[i]] ELSE data[i]
    BY <1>10, <1>11, <2>3 DEF Exchange
  <2>5. Rearranged(f.begin, f.end, q)
          = [i \in Pos |-> IF f.begin < i /\ i <= f.end THEN data[q[i]] ELSE data[i]]
    BY <1>13 DEF Rearranged
  <2> QED BY <2>2, <2>4, <2>5
<1>15. InPlaceInv' /\ \A i \in Window(f) : data'[i] = data[q[i]]
  BY <1>1, <1>2, <1>12, <1>14, Shuffled
<1>16. Cur' = f /\ Count' = n /\ \A c : Start(c)' = Start(c)
  BY <1>1, <1>3 DEF Cur, Count, Start
<1>17. ASSUME NEW i \in 0 .. n - 1
       PROVE  Bytes'[i] = Bytes[Exchange(0 .. n - 1, it, o)[i]]
  <2>1. PICK j : j = Exchange(0 .. n - 1, it, o)[i]
    OBVIOUS
  <2>2. j = (IF i = it THEN o ELSE IF i = o THEN it ELSE i) /\ j \in 0 .. n - 1
    BY <1>1, <1>9, <2>1 DEF Exchange
  <2>3. q[f.begin + i + 1] = f.begin + j + 1
    BY <1>1, <1>3, <1>4, <1>9, <1>10, <2>2 DEF Exchange
  <2>4. Bytes'[i] = ByteAt(Cur, i)'
    BY <1>16 DEF Bytes
  <2>5. ByteAt(Cur, i)' = current_byte(data'[f.begin + i + 1], f.sub, f.offset)
    BY <1>16, SameByte DEF ByteAt
  <2>6. data'[f.begin + i + 1] = data[f.begin + j + 1]
    BY <1>4, <1>15, <2>3
  <2> QED BY <1>4, <2>1, <2>2, <2>4, <2>5, <2>6
<1>18. /\ Bytes'[o] = b
       /\ \A i \in 0 .. n - 1 : i # it /\ i # o => Bytes'[i] = Bytes[i]
  BY <1>1, <1>9, <1>17 DEF Exchange
<1>19. ASSUME NEW c \in Byte
       PROVE  Cardinality({i \in 0 .. n - 1 : Bytes'[i] = c})
                = pass.next_offset[c] - Start(c)
  <2>1. PICK S, e, A, B : /\ S = 0 .. n - 1 /\ e = Exchange(0 .. n - 1, it, o)
                          /\ A = {i \in 0 .. n - 1 : Bytes'[i] = c}
                          /\ B = {i \in 0 .. n - 1 : Bytes[i] = c}
    OBVIOUS
  <2>2. e \in Bijection(S, S) /\ IsFiniteSet(S)
    <3>1. it \in S /\ o \in S /\ e = Exchange(S, it, o)
      BY <1>1, <1>9, <2>1
    <3>2. 0 \in Int /\ n - 1 \in Int
      BY <1>4
    <3>3. IsFiniteSet(S)
      BY <2>1, <3>2, FS_Interval
    <3> QED BY <3>1, <3>3, ExchangeBijection
  <2>3. Cardinality(A) = Cardinality(B)
    <3>1. A \in SUBSET S /\ B \in SUBSET S /\ e \in [S -> S]
      <4>1. A \subseteq S /\ B \subseteq S
        BY <2>1
      <4>2. e \in [S -> S]
        BY <2>2, BijectionIs
      <4> QED BY <4>1, <4>2
    <3>3. ASSUME NEW i \in S PROVE Bytes'[i] = Bytes[e[i]] /\ e[i] \in S
      <4>1. i \in 0 .. n - 1
        BY <2>1
      <4>2. Bytes'[i] = Bytes[Exchange(0 .. n - 1, it, o)[i]]
        BY <1>17, <4>1
      <4> QED BY <2>1, <3>1, <4>2
    <3>4. \A i \in S : (i \in A <=> Bytes'[i] = c) /\ (i \in B <=> Bytes[i] = c)
      BY <2>1
    <3>2. \A i \in S : i \in A <=> e[i] \in B
      BY <3>3, <3>4
    <3> QED BY <2>2, <3>1, <3>2, Recount
  <2>4. Cardinality({i \in 0 .. Count - 1 : Bytes[i] = c}) = pass.next_offset[c] - Start(c)
    BY <1>2 DEF Blocks
  <2> QED BY <1>1, <2>1, <2>3, <2>4
<1>20. ASSUME NEW c \in Byte, Start(c) < pass.next_offset[c]
       PROVE  /\ Start(c) <= pass'.offset[c] /\ pass'.offset[c] <= pass.next_offset[c]
              /\ \A i \in Start(c) .. pass'.offset[c] - 1 : Bytes'[i] = c
  <2>1. pass.offset \in [Byte -> Nat]
    BY <1>2 DEF Blocks
  <2>2. CASE c = b
    <3>1. pass'.offset[c] = o + 1
      BY <1>1, <1>5, <2>1, <2>2
    <3>2. \A i \in Start(c) .. o : Bytes'[i] = c
      <4> TAKE i \in Start(c) .. o
      <4>1. CASE i = o
        BY <1>18, <2>2, <4>1
      <4>2. CASE i # o
        <5>1. i \in Start(b) .. o - 1 /\ i \in 0 .. n - 1 /\ i # it
          BY <1>1, <1>4, <1>6, <1>7, <1>9, <2>2, <4>2
        <5> QED BY <1>7, <1>18, <2>2, <4>2, <5>1
      <4> QED BY <4>1, <4>2
    <3>3. (o + 1) - 1 = o
      BY <1>7
    <3> QED BY <1>6, <1>7, <1>8, <2>2, <3>1, <3>2, <3>3
  <2>3. CASE c # b
    <3>1. pass'.offset[c] = pass.offset[c] /\ pass.offset[c] \in Nat
      BY <2>1, <2>3
    <3>2. /\ Start(c) <= pass.offset[c] /\ pass.offset[c] <= pass.next_offset[c]
          /\ \A i \in Start(c) .. pass.offset[c] - 1 : Bytes[i] = c
      BY <1>2, <1>20 DEF Blocks
    <3>3. /\ Start(c) \in Nat /\ pass.next_offset[c] \in Nat /\ pass.next_offset[c] <= n
      BY <1>1, <1>2, BlocksAre
    <3>4. ASSUME NEW i \in Start(c) .. pass.offset[c] - 1
          PROVE  Bytes'[i] = c
      <4>1. i \in Block(c) /\ i \in 0 .. n - 1
        BY <1>4, <3>1, <3>2, <3>3 DEF Block
      <4>2. i # o
        BY <1>2, <1>5, <1>9, <2>3, <4>1, BlocksAre
      <4>3. i # it
        BY <2>3, <3>2
      <4> QED BY <1>18, <3>2, <4>1, <4>2, <4>3
    <3> QED BY <3>1, <3>2, <3>4
  <2> QED BY <2>2, <2>3
<1>21. Blocks'
  <2>1. pass.next_offset \in [Byte -> Nat] /\ pass'.offset \in [Byte -> Nat]
    BY <1>2, <1>5 DEF Blocks
  <2>2. /\ \A c \in Byte : pass.next_offset[c] <= n
        /\ \A c, d \in Byte : c <= d => pass.next_offset[c] <= pass.next_offset[d]
    BY <1>1, <1>2 DEF Blocks
  <2>3. Byte' = Byte /\ pass'.next_offset = pass.next_offset /\ Count' = n
    BY <1>16 DEF Byte
  <2>4. \A c \in Byte : Cardinality({i \in 0 .. n - 1 : Bytes'[i] = c})
                          = pass.next_offset[c] - Start(c)
    BY <1>19
  <2>5. \A c \in Byte : Start(c) < pass.next_offset[c] =>
          /\ Start(c) <= pass'.offset[c] /\ pass'.offset[c] <= pass.next_offset[c]
          /\ \A i \in Start(c) .. pass'.offset[c] - 1 : Bytes'[i] = c
    BY <1>20
  <2> QED BY <1>16, <2>1, <2>2, <2>3, <2>4, <2>5 DEF Blocks
<1>22. Partitions'
  BY <1>2, <1>16 DEF Partitions, Byte
<1>23. PassOK'
  <2>1. shape' = shape
    BY SameConf
  <2> QED BY <1>1, <1>2, <1>16, <1>21, <1>22, <2>1 DEF PassOK, PassFields
<1> QED
  BY <1>1, <1>5, <1>7, <1>8, <1>15, <1>16, <1>18, <1>23

\* A step of a pass that moves no element and no offset.
LEMMA PassStays ==
  ASSUME InPlaceInv, PassOK, UNCHANGED <<config, data, which, frames>>,
         DOMAIN pass' = PassFields, pass'.offset = pass.offset,
         pass'.next_offset = pass.next_offset, Partitions'
  PROVE  /\ InPlaceInv' /\ PassOK'
         /\ Bytes' = Bytes /\ Count' = Count /\ Cur' = Cur
         /\ \A b : Start(b)' = Start(b) /\ Block(b)' = Block(b)
         /\ \A b : Complete(b)' <=> Complete(b)
<1>1. /\ UNCHANGED config /\ data' = data /\ which' = which /\ frames' = frames
      /\ shape' = shape /\ Byte' = Byte
  BY SameConf DEF Byte
<1>2. InPlaceInv'
  BY <1>1, SameConf DEF InPlaceInv, FramesOK, Ordered, Perm, FrameOK, Together, Window, Apart
<1>3. Cur' = Cur /\ Count' = Count
  BY <1>1 DEF Cur, Count
<1>4. Bytes' = Bytes
  BY <1>1, <1>3, SameByte DEF Bytes, ByteAt
<1>5. \A b : Start(b)' = Start(b) /\ Block(b)' = Block(b)
  BY DEF Start, Block
<1>6. \A b : Complete(b)' <=> Complete(b)
  BY <1>4, <1>5 DEF Complete
<1>7. Blocks'
  BY <1>1, <1>3, <1>4, <1>5 DEF PassOK, Blocks
<1>8. PassOK'
  BY <1>1, <1>3, <1>7 DEF PassOK, PassFields
<1> QED BY <1>2, <1>3, <1>4, <1>5, <1>6, <1>8

\* A partition, its block and its offset.
LEMMA PartitionIs ==
  ASSUME InPlaceInv, PassOK, NEW c \in DOMAIN pass.partitions,
         NEW b, b = pass.partitions[c]
  PROVE  /\ b \in Byte /\ Start(b) \in Nat /\ pass.next_offset[b] \in Nat
         /\ pass.offset[b] \in Nat /\ Count \in Nat
         /\ Start(b) < pass.next_offset[b] /\ pass.next_offset[b] <= Count
         /\ Start(b) <= pass.offset[b] /\ pass.offset[b] <= pass.next_offset[b]
         /\ \A i \in Start(b) .. pass.offset[b] - 1 : Bytes[i] = b
         /\ Block(b) \subseteq 0 .. Count - 1
         /\ pass.offset[b] = pass.next_offset[b] => Complete(b)
<1>1. /\ frames # << >> /\ Cur.offset < shape[Cur.sub].bytes /\ Partitions /\ Blocks
  BY DEF PassOK
<1>2. b \in Byte /\ Start(b) < pass.next_offset[b]
  BY <1>1 DEF Partitions
<1>3. /\ Start(b) \in Nat /\ pass.next_offset[b] \in Nat /\ pass.next_offset[b] <= Count
      /\ Count \in Nat
  BY <1>1, <1>2, BlocksAre, BytesAre
<1>4. /\ pass.offset[b] \in Nat
      /\ Start(b) <= pass.offset[b] /\ pass.offset[b] <= pass.next_offset[b]
      /\ \A i \in Start(b) .. pass.offset[b] - 1 : Bytes[i] = b
  BY <1>1, <1>2 DEF Blocks
<1>5. Block(b) \subseteq 0 .. Count - 1
  BY <1>3 DEF Block
<1>6. pass.offset[b] = pass.next_offset[b] => Complete(b)
  BY <1>4 DEF Complete, Block
<1> QED BY <1>2, <1>3, <1>4, <1>5, <1>6

\* The blocks of two partitions have nothing in common.
LEMMA PartitionsApart ==
  ASSUME InPlaceInv, PassOK, NEW b \in Byte, NEW c \in Byte, NEW i, i \in Block(b), i \in Block(c)
  PROVE  b = c
<1>1. /\ frames # << >> /\ Cur.offset < shape[Cur.sub].bytes /\ Blocks
  BY DEF PassOK
<1> QED BY <1>1, BlocksAre

\* Partitions before the current one are complete, and so is the current one
\* up to the element that is looked at.
AmericanOK ==
  /\ \A c, d \in DOMAIN pass.partitions : c < d => pass.partitions[c] < pass.partitions[d]
  /\ pass.block \in 1 .. Len(pass.partitions) - 1
  /\ pass.it \in Block(pass.partitions[pass.block])
  /\ \A i \in Start(pass.partitions[pass.block]) .. pass.it - 1 :
       Bytes[i] = pass.partitions[pass.block]
  /\ \A d \in 1 .. pass.block - 1 : Complete(pass.partitions[d])

\* Partitions behind those of this round, and those of this round that are
\* visited and not kept, are full.
SkaOK ==
  /\ pass.last \in 1 .. Len(pass.partitions)
  /\ pass.block \in 1 .. pass.last
  /\ pass.keep \in 1 .. pass.block
  /\ \A d \in pass.keep .. pass.block - 1 :
       pass.offset[pass.partitions[d]] = pass.next_offset[pass.partitions[d]]
  /\ \A d \in pass.last + 1 .. Len(pass.partitions) :
       pass.offset[pass.partitions[d]] = pass.next_offset[pass.partitions[d]]

\* The elements of the partition that is swept lie behind its offset.
SweepOK ==
  pass.it \in pass.offset[pass.partitions[pass.block]]
                .. pass.next_offset[pass.partitions[pass.block]]

PassInv ==
  /\ InPlaceInv /\ PassOK
  /\ \/ pass.kind = "american" /\ AmericanOK
     \/ pass.kind = "ska" /\ SkaOK
     \/ pass.kind = "sweep" /\ SkaOK /\ SweepOK
     \/ pass.kind = "recurse" /\ \A b \in Byte : Complete(b)

\* american_flag_sort() swaps an element.
LEMMA SwapToBlockKeeps ==
  ASSUME PassInv, SwapToBlock
  PROVE  PassInv'
<1>0. /\ InPlaceInv /\ PassOK /\ AmericanOK /\ pass.kind = "american"
  BY DEF PassInv, SwapToBlock
<1>1. PICK P, a, it, b, o : /\ P = pass.partitions /\ a = P[pass.block] /\ it = pass.it
                            /\ b = ByteAt(Cur, it) /\ o = pass.offset[b]
  OBVIOUS
<1>2. DOMAIN P = 1 .. Len(P) /\ Len(P) \in Nat /\ DOMAIN pass = PassFields
  BY <1>0, <1>1 DEF PassOK, Partitions
<1>3. /\ pass.block \in 1 .. Len(P) - 1 /\ pass.block \in DOMAIN P
      /\ it \in Block(a)
      /\ \A i \in Start(a) .. it - 1 : Bytes[i] = a
      /\ \A d \in 1 .. pass.block - 1 : Complete(P[d])
      /\ \A c, d \in DOMAIN P : c < d => P[c] < P[d]
  BY <1>0, <1>1, <1>2 DEF AmericanOK
<1>4. /\ a \in Byte /\ Block(a) \subseteq 0 .. Count - 1 /\ Start(a) \in Nat
      /\ pass.next_offset[a] \in Nat
  BY <1>0, <1>1, <1>3, PartitionIs
<1>5. it \in 0 .. Count - 1 /\ b = Bytes[it] /\ b # a
  BY <1>0, <1>1, <1>3, <1>4 DEF Bytes, SwapToBlock, Cur
<1>6. /\ Blocks /\ frames # << >> /\ Cur.offset < shape[Cur.sub].bytes
  BY <1>0 DEF PassOK
<1>7. /\ b \in Byte /\ Start(b) < pass.next_offset[b]
      /\ Complete(b) => it \in Block(b)
  BY <1>0, <1>5, <1>6, InBlock
<1>8. /\ Start(b) <= o /\ o <= pass.next_offset[b] /\ o \in Nat
      /\ Start(b) \in Nat /\ pass.next_offset[b] \in Nat
  <2>1. Start(b) \in Nat /\ pass.next_offset[b] \in Nat
    BY <1>0, <1>6, <1>7, BlocksAre
  <2> QED BY <1>1, <1>6, <1>7, <2>1 DEF Blocks
<1>9. it \notin Block(b)
  BY <1>0, <1>3, <1>4, <1>5, <1>7, PartitionsApart
<1>10. it \notin Start(b) .. pass.offset[b] - 1
  BY <1>1, <1>8, <1>9 DEF Block
<1>11. /\ UNCHANGED config /\ frames' = frames /\ which' = which
       /\ data' = iter_swap(data, Cur.begin + it, Cur.begin + pass.offset[b])
       /\ pass' = [pass EXCEPT !.offset[b] = @ + 1]
  BY <1>1 DEF SwapToBlock, Cur
<1>12. /\ DOMAIN pass' = PassFields /\ pass'.partitions = pass.partitions
       /\ pass'.next_offset = pass.next_offset /\ pass'.block = pass.block
       /\ pass'.it = pass.it /\ pass'.kind = pass.kind
       /\ pass'.offset = [pass.offset EXCEPT ![b] = @ + 1]
  BY <1>2, <1>11 DEF PassFields
<1>13. /\ InPlaceInv' /\ PassOK' /\ o < pass.next_offset[b]
       /\ Count' = Count /\ \A c : Start(c)' = Start(c)
       /\ \A i \in 0 .. Count - 1 : i # it /\ i # o => Bytes'[i] = Bytes[i]
  BY <1>0, <1>1, <1>5, <1>10, <1>11, <1>12, Swapped
<1>14. \A c : Block(c)' = Block(c)
  BY <1>12, <1>13 DEF Block
<1>15. o \in Block(b)
  BY <1>8, <1>13 DEF Block
<1>16. \A i \in Start(a) .. it - 1 : Bytes'[i] = a
  <2> TAKE i \in Start(a) .. it - 1
  <2>1. i \in Block(a) /\ i # it
    BY <1>3, <1>4 DEF Block
  <2>2. i # o
    BY <1>0, <1>4, <1>5, <1>7, <1>15, <2>1, PartitionsApart
  <2> QED BY <1>3, <1>4, <1>13, <2>1, <2>2
<1>17. ASSUME NEW d \in 1 .. pass.block - 1 PROVE Complete(P[d])'
  <2>1. d \in DOMAIN P /\ P[d] # a /\ Complete(P[d])
    <3>1. d \in DOMAIN P /\ d < pass.block /\ d # pass.block
      BY <1>2, <1>3
    <3>2. Partitions
      BY <1>0 DEF PassOK
    <3> QED BY <1>1, <1>3, <3>1, <3>2 DEF Partitions
  <2>2. PICK c : c = P[d]
    OBVIOUS
  <2>3. c \in Byte /\ Block(c) \subseteq 0 .. Count - 1
    BY <1>0, <1>1, <2>1, <2>2, PartitionIs
  <2>4. ASSUME NEW i \in Block(c) PROVE Bytes'[i] = c
    <3>1. i # it
      BY <1>0, <1>3, <1>4, <2>1, <2>2, <2>3, PartitionsApart
    <3>2. i # o
      BY <1>0, <1>7, <1>9, <1>15, <2>1, <2>2, <2>3, PartitionsApart
    <3> QED BY <1>13, <2>1, <2>2, <2>3, <3>1, <3>2 DEF Complete
  <2> QED BY <1>14, <2>2, <2>4 DEF Complete
<1>18. AmericanOK'
  BY <1>1, <1>3, <1>12, <1>13, <1>14, <1>16, <1>17 DEF AmericanOK
<1> QED
  BY <1>0, <1>12, <1>13, <1>18 DEF PassInv

\* american_flag_sort() leaves an element where it is.
LEMMA InPlaceKeeps ==
  ASSUME PassInv, InPlace
  PROVE  PassInv'
<1>0. /\ InPlaceInv /\ PassOK /\ AmericanOK /\ pass.kind = "american"
      /\ UNCHANGED <<config, data, which, frames>>
  BY DEF PassInv, InPlace
<1>1. PICK P, B, a, it, n : /\ P = pass.partitions /\ B = pass.block /\ a = P[B]
                            /\ it = pass.it /\ n = Count
  OBVIOUS
<1>2. /\ DOMAIN P = 1 .. Len(P) /\ Len(P) \in Nat /\ DOMAIN pass = PassFields /\ Partitions
  BY <1>0, <1>1 DEF PassOK, Partitions
<1>3. /\ B \in 1 .. Len(P) - 1 /\ B \in DOMAIN P /\ it \in Block(a)
      /\ \A i \in Start(a) .. it - 1 : Bytes[i] = a
      /\ \A d \in 1 .. B - 1 : Complete(P[d])
      /\ \A c, d \in DOMAIN P : c < d => P[c] < P[d]
  BY <1>0, <1>1, <1>2 DEF AmericanOK
<1>4. /\ a \in Byte /\ Block(a) \subseteq 0 .. n - 1 /\ Start(a) \in Nat
      /\ pass.next_offset[a] \in Nat /\ n \in Nat
  BY <1>0, <1>1, <1>3, PartitionIs
<1>5. /\ it \in Nat /\ Start(a) <= it /\ it < pass.next_offset[a] /\ it \in 0 .. n - 1
  BY <1>3, <1>4 DEF Block
<1>6. Bytes[it] = a
  BY <1>0, <1>1, <1>5 DEF InPlace, Bytes, Cur
<1>7. \A i \in Start(a) .. it : Bytes[i] = a
  <2> TAKE i \in Start(a) .. it
  <2>1. i = it \/ i \in Start(a) .. it - 1
    BY <1>4, <1>5
  <2> QED BY <1>3, <1>6, <2>1
<1> DEFINE Q == pass.partitions
           Stop(c) == c = Len(Q) \/ pass.offset[Q[c]] # pass.next_offset[Q[c]]
           First(c) == Stop(c) /\ \A d \in pass.block + 1 .. c - 1 : ~Stop(d)
<1>8. PICK next : next = NextBlock
  OBVIOUS
<1>18. B \in Nat /\ 1 <= B /\ B < Len(P)
  BY <1>2, <1>3
<1>9. /\ next \in B + 1 .. Len(P)
      /\ next = Len(P) \/ pass.offset[P[next]] # pass.next_offset[P[next]]
      /\ \A d \in B + 1 .. next - 1 : pass.offset[P[d]] = pass.next_offset[P[d]]
  <2>1. \E c \in pass.block + 1 .. Len(Q) : First(c)
    <3> DEFINE S == {c \in B + 1 .. Len(P) : Stop(c)}
    <3>1. Len(P) \in S /\ S \subseteq Nat
      BY <1>1, <1>2, <1>18
    <3>2. PICK c \in S : \A d \in S : c <= d
      <4> HIDE DEF S
      <4> QED BY <3>1, LeastNat
    <3>3. ASSUME NEW d \in B + 1 .. c - 1 PROVE ~Stop(d)
      <4>1. c \in B + 1 .. Len(P)
        BY <3>2
      <4>2. d \in B + 1 .. Len(P) /\ ~(c <= d)
        BY <1>2, <1>18, <4>1
      <4>3. d \notin S
        BY <3>2, <4>2
      <4> HIDE DEF Stop
      <4> QED BY <4>2, <4>3
    <3> QED BY <1>1, <3>2, <3>3
  <2>2. next \in pass.block + 1 .. Len(Q) /\ First(next)
    <3>1. NextBlock = CHOOSE c \in pass.block + 1 .. Len(Q) : First(c)
      BY DEF NextBlock
    <3> HIDE DEF First
    <3> QED BY <1>8, <2>1, <3>1
  <2> QED BY <1>1, <2>2
<1>19. next \in Nat /\ B < next /\ next <= Len(P)
  <2>1. next \in B + 1 .. Len(P)
    BY <1>9
  <2> QED BY <1>2, <1>18, <2>1
<1>10. pass' = IF it + 1 = n - 1 THEN [pass EXCEPT !.kind = "recurse"]
               ELSE IF it + 1 # pass.next_offset[a] THEN [pass EXCEPT !.it = it + 1]
               ELSE IF next = Len(P) THEN [pass EXCEPT !.kind = "recurse"]
               ELSE [pass EXCEPT !.block = next, !.it = pass.offset[P[next]]]
  <2>1. pass' = IF pass.it + 1 = Count - 1 THEN [pass EXCEPT !.kind = "recurse"]
                ELSE IF pass.it + 1 # pass.next_offset[Q[pass.block]]
                  THEN [pass EXCEPT !.it = pass.it + 1]
                ELSE IF next = Len(Q) THEN [pass EXCEPT !.kind = "recurse"]
                ELSE [pass EXCEPT !.block = next, !.it = pass.offset[Q[next]]]
    BY <1>8 DEF InPlace, Count, Cur
  <2> QED BY <1>1, <2>1
<1> HIDE DEF Q
<1>11. /\ DOMAIN pass' = PassFields /\ pass'.partitions = pass.partitions
       /\ pass'.next_offset = pass.next_offset /\ pass'.offset = pass.offset
  BY <1>2, <1>10 DEF PassFields
<1>12. Partitions'
  BY <1>2, <1>11 DEF Partitions, Start, Byte
<1>13. /\ InPlaceInv' /\ PassOK' /\ Bytes' = Bytes
       /\ \A b : Start(b)' = Start(b) /\ Block(b)' = Block(b)
       /\ \A b : Complete(b)' <=> Complete(b)
  BY <1>0, <1>11, <1>12, PassStays
<1>14. ASSUME it + 1 = pass.next_offset[a] PROVE Complete(a)
  BY <1>4, <1>5, <1>7, <1>14 DEF Complete, Block
<1>15. CASE it + 1 = n - 1
  <2>1. ASSUME NEW c \in DOMAIN P, n - 1 \notin Block(P[c]) PROVE Complete(P[c])
    <3>1. c \in Int /\ B \in Int
      BY <1>2, <1>3
    <3>2. CASE c < B
      BY <1>2, <1>3, <3>2
    <3>3. CASE c = B
      <4>1. ~(n - 1 < pass.next_offset[a])
        BY <1>1, <1>4, <1>5, <1>15, <2>1, <3>3 DEF Block
      <4> QED BY <1>1, <1>4, <1>5, <1>14, <1>15, <3>3, <4>1
    <3>4. CASE B < c
      <4>1. PICK b : b = P[c]
        OBVIOUS
      <4>2. a < b /\ b \in Byte /\ Start(b) \in Nat /\ pass.next_offset[b] \in Nat
            /\ Start(b) < pass.next_offset[b] /\ pass.next_offset[b] <= n
        BY <1>0, <1>1, <1>3, <3>4, <4>1, PartitionIs
      <4>3. pass.next_offset[a] <= Start(b)
        <5>1. Blocks /\ frames # << >> /\ Cur.offset < shape[Cur.sub].bytes
          BY <1>0 DEF PassOK
        <5> QED BY <1>0, <1>4, <4>2, <5>1, BlocksAre
      <4>4. n - 1 \in Block(b)
        BY <1>4, <1>5, <1>15, <4>2, <4>3 DEF Block
      <4> QED BY <2>1, <4>1, <4>4
    <3> QED BY <3>1, <3>2, <3>3, <3>4
  <2>2. \A b \in Byte : Complete(b)
    <3>1. PICK d \in Byte : \A c \in DOMAIN P : n - 1 \in Block(P[c]) => P[c] = d
      <4>1. CASE \E c \in DOMAIN P : n - 1 \in Block(P[c])
        <5>1. PICK c \in DOMAIN P : n - 1 \in Block(P[c])
          BY <4>1
        <5>2. \A e \in DOMAIN P : P[e] \in Byte
          BY <1>1, <1>2 DEF Partitions
        <5> QED BY <1>0, <5>1, <5>2, PartitionsApart
      <4>2. CASE ~\E c \in DOMAIN P : n - 1 \in Block(P[c])
        BY <1>4, <4>2
      <4> QED BY <4>1, <4>2
    <3>2. \A c \in DOMAIN pass.partitions :
            pass.partitions[c] # d => Complete(pass.partitions[c])
      BY <1>1, <2>1, <3>1
    <3> QED BY <1>0, <3>2, LastComplete
  <2>3. pass'.kind = "recurse"
    BY <1>2, <1>10, <1>15 DEF PassFields
  <2>4. \A b \in Byte' : Complete(b)'
    BY <1>13, <2>2 DEF Byte
  <2> QED BY <1>13, <2>3, <2>4 DEF PassInv
<1>16. CASE it + 1 # n - 1 /\ it + 1 # pass.next_offset[a]
  <2>1. pass'.kind = "american" /\ pass'.it = it + 1 /\ pass'.block = pass.block
    BY <1>0, <1>2, <1>10, <1>16 DEF PassFields
  <2>2. it + 1 \in Block(a) /\ (it + 1) - 1 = it
    BY <1>4, <1>5, <1>16 DEF Block
  <2>3. AmericanOK'
    BY <1>1, <1>3, <1>7, <1>11, <1>13, <2>1, <2>2 DEF AmericanOK
  <2> QED BY <1>13, <2>1, <2>3 DEF PassInv
<1>17. CASE it + 1 # n - 1 /\ it + 1 = pass.next_offset[a]
  <2>1. ASSUME NEW d \in 1 .. next - 1 PROVE Complete(P[d])
    <3>1. d \in DOMAIN P /\ (d \in 1 .. B - 1 \/ d = B \/ d \in B + 1 .. next - 1)
      BY <1>2, <1>18, <1>19
    <3>2. CASE d \in 1 .. B - 1
      BY <1>3, <3>2
    <3>3. CASE d = B
      BY <1>1, <1>14, <1>17, <3>3
    <3>4. CASE d \in B + 1 .. next - 1
      <4>1. pass.offset[P[d]] = pass.next_offset[P[d]]
        BY <1>9, <3>4
      <4> QED BY <1>0, <1>1, <3>1, <4>1, PartitionIs
    <3> QED BY <3>1, <3>2, <3>3, <3>4
  <2>2. CASE next = Len(P)
    <3>1. pass'.kind = "recurse"
      BY <1>2, <1>10, <1>17, <2>2 DEF PassFields
    <3>2. PICK d : d = P[Len(P)]
      OBVIOUS
    <3>3. d \in Byte
      BY <1>1, <1>2, <1>3, <3>2 DEF Partitions
    <3>4. ASSUME NEW c \in DOMAIN pass.partitions, pass.partitions[c] # d
          PROVE  Complete(pass.partitions[c])
      <4>1. c \in 1 .. next - 1
        BY <1>1, <1>2, <2>2, <3>2, <3>4
      <4> QED BY <1>1, <2>1, <4>1
    <3>5. \A b \in Byte : Complete(b)
      BY <1>0, <3>3, <3>4, LastComplete
    <3>6. \A b \in Byte' : Complete(b)'
      BY <1>13, <3>5 DEF Byte
    <3> QED BY <1>13, <3>1, <3>6 DEF PassInv
  <2>3. CASE next # Len(P)
    <3>1. PICK b, o : b = P[next] /\ o = pass.offset[b]
      OBVIOUS
    <3>2. pass'.kind = "american" /\ pass'.it = o /\ pass'.block = next
      BY <1>0, <1>2, <1>10, <1>17, <2>3, <3>1 DEF PassFields
    <3>3. next \in 1 .. Len(P) - 1 /\ next \in DOMAIN P
      <4>0. PICK m : m = Len(P)
        OBVIOUS
      <4>3. m \in Nat /\ next \in Nat /\ B \in Nat /\ 1 <= B /\ B < next /\ next <= m /\ next # m
        BY <1>2, <1>18, <1>19, <2>3, <4>0
      <4>4. next \in 1 .. m - 1
        BY <4>3
      <4>1. next \in 1 .. Len(P) - 1
        BY <4>0, <4>4
      <4>2. next \in 1 .. Len(P)
        BY <1>18, <1>19
      <4> QED BY <1>2, <4>1, <4>2
    <3>4. /\ b \in Byte /\ Start(b) \in Nat /\ pass.next_offset[b] \in Nat /\ o \in Nat
          /\ Start(b) <= o /\ o <= pass.next_offset[b]
          /\ \A i \in Start(b) .. o - 1 : Bytes[i] = b
      BY <1>0, <1>1, <3>1, <3>3, PartitionIs
    <3>5. o # pass.next_offset[b]
      BY <1>9, <2>3, <3>1
    <3>6. o \in Block(b)
      BY <3>4, <3>5 DEF Block
    <3>7. \A d \in 1 .. next - 1 : Complete(P[d])'
      BY <1>13, <2>1
    <3>8. AmericanOK'
      BY <1>1, <1>3, <1>11, <1>13, <3>1, <3>2, <3>3, <3>4, <3>6, <3>7 DEF AmericanOK
    <3> QED BY <1>13, <3>2, <3>8 DEF PassInv
  <2> QED BY <2>2, <2>3
<1> QED BY <1>15, <1>16, <1>17

\* ska_byte_sort() visits a partition.
LEMMA VisitKeeps ==
  ASSUME PassInv, Visit
  PROVE  PassInv'
<1>0. /\ InPlaceInv /\ PassOK /\ SkaOK /\ UNCHANGED <<config, data, which, frames>>
  BY DEF PassInv, Visit
<1>1. PICK P, a : P = pass.partitions /\ a = P[pass.block]
  OBVIOUS
<1>2. /\ DOMAIN P = 1 .. Len(P) /\ Len(P) \in Nat /\ DOMAIN pass = PassFields /\ Partitions
  BY <1>0, <1>1 DEF PassOK, Partitions
<1>3. pass' = [pass EXCEPT !.kind = "sweep", !.it = pass.offset[a]]
  BY <1>1 DEF Visit
<1>4. /\ DOMAIN pass' = PassFields /\ pass'.partitions = pass.partitions
      /\ pass'.next_offset = pass.next_offset /\ pass'.offset = pass.offset
      /\ pass'.block = pass.block /\ pass'.last = pass.last /\ pass'.keep = pass.keep
      /\ pass'.it = pass.offset[a] /\ pass'.kind = "sweep"
  BY <1>2, <1>3 DEF PassFields
<1>5. Partitions'
  BY <1>2, <1>4 DEF Partitions, Start, Byte
<1>6. InPlaceInv' /\ PassOK'
  BY <1>0, <1>4, <1>5, PassStays
<1>7. SkaOK'
  BY <1>0, <1>4 DEF SkaOK
<1>8. pass.block \in DOMAIN P
  BY <1>0, <1>1, <1>2 DEF SkaOK
<1>9. /\ pass.offset[a] \in Nat /\ pass.next_offset[a] \in Nat
      /\ pass.offset[a] <= pass.next_offset[a]
  BY <1>0, <1>1, <1>8, PartitionIs
<1>10. SweepOK'
  BY <1>1, <1>4, <1>9 DEF SweepOK
<1> QED BY <1>4, <1>6, <1>7, <1>10 DEF PassInv

\* ska_byte_sort() moves an element of the partition.
LEMMA SweepKeeps ==
  ASSUME PassInv, Sweep
  PROVE  PassInv'
<1>0. /\ InPlaceInv /\ PassOK /\ SkaOK /\ SweepOK /\ pass.kind = "sweep"
  BY DEF PassInv, Sweep
<1>1. PICK P, a, it, b, o : /\ P = pass.partitions /\ a = P[pass.block] /\ it = pass.it
                            /\ b = ByteAt(Cur, it) /\ o = pass.offset[b]
  OBVIOUS
<1>2. /\ DOMAIN P = 1 .. Len(P) /\ Len(P) \in Nat /\ DOMAIN pass = PassFields /\ Partitions
  BY <1>0, <1>1 DEF PassOK, Partitions
<1>3. pass.block \in DOMAIN P
  BY <1>0, <1>1, <1>2 DEF SkaOK
<1>4. /\ a \in Byte /\ Start(a) \in Nat /\ pass.next_offset[a] \in Nat
      /\ pass.offset[a] \in Nat /\ Start(a) <= pass.offset[a]
      /\ Block(a) \subseteq 0 .. Count - 1
  BY <1>0, <1>1, <1>3, PartitionIs
<1>5. /\ it \in Nat /\ pass.offset[a] <= it /\ it < pass.next_offset[a]
  <2>1. it \in pass.offset[a] .. pass.next_offset[a]
    BY <1>0, <1>1 DEF SweepOK
  <2>2. it < pass.next_offset[a]
    BY <1>1 DEF Sweep
  <2> QED BY <1>4, <2>1, <2>2
<1>6. it \in Block(a)
  BY <1>4, <1>5 DEF Block
<1>7. it \in 0 .. Count - 1 /\ b = Bytes[it]
  BY <1>1, <1>4, <1>6 DEF Bytes
<1>8. /\ Blocks /\ frames # << >> /\ Cur.offset < shape[Cur.sub].bytes
  BY <1>0 DEF PassOK
<1>9. b \in Byte /\ Start(b) < pass.next_offset[b]
  BY <1>0, <1>7, <1>8, InBlock
<1>10. /\ Start(b) \in Nat /\ pass.next_offset[b] \in Nat
       /\ Start(b) <= o /\ o <= pass.next_offset[b] /\ o \in Nat
  <2>1. Start(b) \in Nat /\ pass.next_offset[b] \in Nat
    BY <1>0, <1>8, <1>9, BlocksAre
  <2> QED BY <1>1, <1>8, <1>9, <2>1 DEF Blocks
<1>11. it \notin Start(b) .. pass.offset[b] - 1
  <2>1. CASE b = a
    BY <1>4, <1>5, <2>1
  <2>2. CASE b # a
    <3>1. it \notin Block(b)
      BY <1>0, <1>4, <1>6, <1>9, <2>2, PartitionsApart
    <3> QED BY <1>1, <1>10, <3>1 DEF Block
  <2> QED BY <2>1, <2>2
<1>12. /\ UNCHANGED config /\ frames' = frames /\ which' = which
       /\ data' = iter_swap(data, Cur.begin + it, Cur.begin + pass.offset[b])
       /\ pass' = [pass EXCEPT !.it = @ + 1, !.offset[b] = @ + 1]
  BY <1>1 DEF Sweep, Cur
<1>13. /\ DOMAIN pass' = PassFields /\ pass'.partitions = pass.partitions
       /\ pass'.next_offset = pass.next_offset /\ pass'.block = pass.block
       /\ pass'.last = pass.last /\ pass'.keep = pass.keep
       /\ pass'.it = it + 1 /\ pass'.kind = "sweep"
       /\ pass'.offset = [pass.offset EXCEPT ![b] = @ + 1]
  BY <1>0, <1>1, <1>2, <1>12 DEF PassFields
<1>14. InPlaceInv' /\ PassOK' /\ o < pass.next_offset[b]
  BY <1>0, <1>1, <1>7, <1>11, <1>12, <1>13, Swapped
<1>15. pass.offset \in [Byte -> Nat]
  BY <1>8 DEF Blocks
<1>16. ASSUME NEW c \in DOMAIN P, pass.offset[P[c]] = pass.next_offset[P[c]]
       PROVE  pass'.offset[P[c]] = pass'.next_offset[P[c]]
  <2>1. P[c] # b
    BY <1>1, <1>10, <1>14, <1>16
  <2>2. P[c] \in Byte
    BY <1>1, <1>2 DEF Partitions
  <2> QED BY <1>9, <1>13, <1>15, <1>16, <2>1, <2>2
<1>17. SkaOK'
  <2>1. /\ pass.last \in 1 .. Len(P) /\ pass.block \in 1 .. pass.last
        /\ pass.keep \in 1 .. pass.block
        /\ \A d \in pass.keep .. pass.block - 1 :
             d \in DOMAIN P /\ pass.offset[P[d]] = pass.next_offset[P[d]]
        /\ \A d \in pass.last + 1 .. Len(P) :
             d \in DOMAIN P /\ pass.offset[P[d]] = pass.next_offset[P[d]]
    BY <1>0, <1>1, <1>2 DEF SkaOK
  <2> QED BY <1>1, <1>13, <1>16, <2>1 DEF SkaOK
<1>18. SweepOK'
  <2>1. pass'.offset[a] \in Nat /\ pass'.offset[a] <= it + 1 /\ it + 1 <= pass.next_offset[a]
    BY <1>4, <1>5, <1>9, <1>13, <1>15
  <2> QED BY <1>1, <1>4, <1>5, <1>13, <2>1 DEF SweepOK
<1> QED BY <1>13, <1>14, <1>17, <1>18 DEF PassInv

\* ska_byte_sort() has visited a partition.
LEMMA VisitedKeeps ==
  ASSUME PassInv, Visited
  PROVE  PassInv'
<1>0. /\ InPlaceInv /\ PassOK /\ SkaOK /\ UNCHANGED <<config, data, which, frames>>
  BY DEF PassInv, Visited
<1>1. PICK P, i, k, m : P = pass.partitions /\ i = pass.block /\ k = pass.keep /\ m = Len(P)
  OBVIOUS
<1>2. /\ P \in Seq(Byte) /\ DOMAIN P = 1 .. m /\ m \in Nat /\ DOMAIN pass = PassFields
      /\ \A c, d \in 1 .. m : P[c] = P[d] => c = d
      /\ \A b \in Byte : Start(b) < pass.next_offset[b] <=> \E c \in 1 .. m : P[c] = b
      /\ \A c \in 1 .. m : P[c] \in Byte
  BY <1>0, <1>1 DEF PassOK, Partitions
<1>3. /\ pass.last \in 1 .. m /\ i \in 1 .. pass.last /\ k \in 1 .. i
      /\ \A d \in k .. i - 1 : pass.offset[P[d]] = pass.next_offset[P[d]]
      /\ \A d \in pass.last + 1 .. m : pass.offset[P[d]] = pass.next_offset[P[d]]
  BY <1>0, <1>1 DEF SkaOK
<1>4. /\ pass.last \in Nat /\ i \in Nat /\ k \in Nat
      /\ 1 <= k /\ k <= i /\ i <= pass.last /\ pass.last <= m
      /\ i \in 1 .. m /\ k \in 1 .. m
  BY <1>2, <1>3
<1> DEFINE more == pass.offset[P[i]] # pass.next_offset[P[i]]
<1>5. PICK Q, kk : /\ Q = IF more THEN [P EXCEPT ![k] = P[i], ![i] = P[k]] ELSE P
                   /\ kk = IF more THEN k + 1 ELSE k
  OBVIOUS
<1>6. /\ DOMAIN Q = 1 .. m /\ Q \in Seq(Byte) /\ Len(Q) = m
      /\ \A d \in 1 .. m : Q[d] = IF more /\ d = i THEN P[k]
                                  ELSE IF more /\ d = k THEN P[i] ELSE P[d]
  <2>1. \A d \in 1 .. m : Q[d] = IF more /\ d = i THEN P[k]
                                 ELSE IF more /\ d = k THEN P[i] ELSE P[d]
    BY <1>2, <1>4, <1>5
  <2>2. Q \in Seq(Byte) /\ Len(Q) = m
    BY <1>1, <1>2, <1>4, <1>5
  <2> QED BY <2>1, <2>2
<1>7. pass' = IF i < pass.last
              THEN [pass EXCEPT !.kind = "ska", !.partitions = Q,
                                !.block = i + 1, !.keep = kk]
              ELSE [pass EXCEPT !.kind = IF kk - 1 > 1 THEN "ska" ELSE "recurse",
                                !.partitions = Q, !.last = kk - 1, !.block = 1, !.keep = 1]
  <2>1. DOMAIN pass = PassFields
    BY <1>2
  <2> QED BY <1>1, <1>5, <2>1 DEF Visited, PassFields
<1>8. /\ DOMAIN pass' = PassFields /\ pass'.partitions = Q
      /\ pass'.next_offset = pass.next_offset /\ pass'.offset = pass.offset
  BY <1>2, <1>7 DEF PassFields
<1>9. Partitions'
  <2>1. \A c, d \in 1 .. m : Q[c] = Q[d] => c = d
    BY <1>2, <1>4, <1>6
  <2>2. ASSUME NEW b \in Byte
        PROVE  (\E c \in 1 .. m : P[c] = b) <=> \E c \in 1 .. m : Q[c] = b
    <3>1. CASE more
      <4>1. ASSUME NEW c \in 1 .. m PROVE \E d \in 1 .. m : Q[d] = P[c]
        BY <1>4, <1>6, <3>1
      <4>2. ASSUME NEW c \in 1 .. m PROVE \E d \in 1 .. m : P[d] = Q[c]
        BY <1>4, <1>6, <3>1
      <4> QED BY <4>1, <4>2
    <3>2. CASE ~more
      BY <1>6, <3>2
    <3> QED BY <3>1, <3>2
  <2>3. \A b : Start(b)' = Start(b)
    BY <1>8 DEF Start
  <2>4. Byte' = Byte
    BY DEF Byte
  <2> QED BY <1>2, <1>6, <1>8, <2>1, <2>2, <2>3, <2>4 DEF Partitions
<1>10. /\ InPlaceInv' /\ PassOK'
       /\ \A b : Complete(b)' <=> Complete(b)
  BY <1>0, <1>8, <1>9, PassStays
<1>11. /\ kk \in Nat /\ 1 <= kk /\ kk <= i + 1
  BY <1>4, <1>5
<1>12. \A d \in kk .. i : pass.offset[Q[d]] = pass.next_offset[Q[d]]
  <2> TAKE d \in kk .. i
  <2>1. d \in 1 .. m
    BY <1>2, <1>4, <1>11
  <2>2. CASE more
    <3>1. d # k /\ d \in k + 1 .. i
      BY <1>4, <1>5, <2>2
    <3>2. CASE d = i
      <4>1. k \in k .. i - 1 /\ Q[d] = P[k]
        BY <1>4, <1>6, <2>1, <2>2, <3>1, <3>2
      <4> QED BY <1>3, <4>1
    <3>3. CASE d # i
      <4>1. d \in k .. i - 1 /\ Q[d] = P[d]
        BY <1>4, <1>6, <2>1, <2>2, <3>1, <3>3
      <4> QED BY <1>3, <4>1
    <3> QED BY <3>2, <3>3
  <2>3. CASE ~more
    <3>1. Q[d] = P[d] /\ (d = i \/ d \in k .. i - 1)
      BY <1>4, <1>5, <1>6, <2>1, <2>3
    <3> QED BY <1>3, <2>3, <3>1
  <2> QED BY <2>2, <2>3
<1>13. \A d \in pass.last + 1 .. m : pass.offset[Q[d]] = pass.next_offset[Q[d]]
  <2> TAKE d \in pass.last + 1 .. m
  <2>1. d \in 1 .. m /\ d # i /\ d # k
    BY <1>2, <1>4
  <2> QED BY <1>3, <1>6, <2>1
<1> HIDE DEF more
<1>14. CASE i < pass.last
  <2>1. pass'.kind = "ska" /\ pass'.block = i + 1 /\ pass'.keep = kk /\ pass'.last = pass.last
    BY <1>2, <1>7, <1>14 DEF PassFields
  <2>2. i + 1 \in 1 .. pass.last /\ kk \in 1 .. i + 1 /\ (i + 1) - 1 = i
    BY <1>4, <1>11, <1>14
  <2>3. SkaOK'
    BY <1>3, <1>6, <1>8, <1>12, <1>13, <2>1, <2>2 DEF SkaOK
  <2> QED BY <1>10, <2>1, <2>3 DEF PassInv
<1>15. CASE ~(i < pass.last)
  <2>0. i = pass.last
    BY <1>4, <1>15
  <2>1. \A d \in kk .. m : pass.offset[Q[d]] = pass.next_offset[Q[d]]
    <3> TAKE d \in kk .. m
    <3>1. d \in kk .. i \/ d \in pass.last + 1 .. m
      BY <1>2, <1>4, <1>11, <2>0
    <3> QED BY <1>12, <1>13, <3>1
  <2>2. CASE kk - 1 > 1
    <3>1. pass'.kind = "ska" /\ pass'.block = 1 /\ pass'.keep = 1 /\ pass'.last = kk - 1
      BY <1>2, <1>7, <1>15, <2>2 DEF PassFields
    <3>2. kk - 1 \in 1 .. m /\ 1 \in 1 .. kk - 1 /\ 1 \in 1 .. 1 /\ (kk - 1) + 1 = kk
      BY <1>2, <1>4, <1>11, <2>2
    <3>3. \A d \in 1 .. 1 - 1 : FALSE
      OBVIOUS
    <3>4. SkaOK'
      BY <1>6, <1>8, <2>1, <3>1, <3>2, <3>3 DEF SkaOK
    <3> QED BY <1>10, <3>1, <3>4 DEF PassInv
  <2>3. CASE ~(kk - 1 > 1)
    <3>1. pass'.kind = "recurse"
      BY <1>2, <1>7, <1>15, <2>3 DEF PassFields
    <3>2. PICK b : b = Q[1]
      OBVIOUS
    <3>3. 1 \in 1 .. m /\ b \in Byte
      BY <1>2, <1>4, <1>6, <3>2
    <3>4. ASSUME NEW c \in DOMAIN pass.partitions, pass.partitions[c] # b
          PROVE  Complete(pass.partitions[c])
      <4>1. c \in 1 .. m /\ P[c] # b
        BY <1>1, <1>2, <3>4
      <4>2. PICK d \in 1 .. m : Q[d] = P[c]
        BY <1>4, <1>6, <4>1
      <4>3. d \in kk .. m
        BY <1>2, <1>11, <2>3, <3>2, <4>1, <4>2
      <4>4. pass.offset[P[c]] = pass.next_offset[P[c]]
        BY <2>1, <4>2, <4>3
      <4> QED BY <1>0, <1>1, <4>4, PartitionIs
    <3>5. \A d \in Byte : Complete(d)
      BY <1>0, <3>3, <3>4, LastComplete
    <3>6. \A d \in Byte' : Complete(d)'
      BY <1>10, <3>5 DEF Byte
    <3> QED BY <1>10, <3>1, <3>6 DEF PassInv
  <2> QED BY <2>2, <2>3
<1> QED BY <1>14, <1>15

\* The calls for the partitions, in the order of the pass or against it.
LEMMA InOrderIs ==
  ASSUME Partitions
  PROVE  /\ Len(InOrder) \in Nat /\ DOMAIN InOrder = 1 .. Len(InOrder)
         /\ \A c \in DOMAIN InOrder : \E d \in DOMAIN pass.partitions :
              InOrder[c] = pass.partitions[d]
         /\ \A d \in DOMAIN pass.partitions : \E c \in DOMAIN InOrder :
              InOrder[c] = pass.partitions[d]
         /\ \A c, d \in DOMAIN InOrder : InOrder[c] = InOrder[d] => c = d
<1>1. PICK P, Q, m : P = pass.partitions /\ Q = InOrder /\ m = Len(P)
  OBVIOUS
<1>2. /\ P \in Seq(Byte) /\ m \in Nat /\ DOMAIN P = 1 .. m
      /\ \A c, d \in 1 .. m : P[c] = P[d] => c = d
  BY <1>1 DEF Partitions
<1>3. CASE pass.ascending
  BY <1>1, <1>2, <1>3 DEF InOrder
<1>4. CASE ~pass.ascending
  <2>1. Q = [c \in 1 .. m |-> P[m - c + 1]]
    BY <1>1, <1>4 DEF InOrder, Reverse
  <2>2. Len(Q) = m /\ DOMAIN Q = 1 .. m /\ \A c \in 1 .. m : Q[c] = P[m - c + 1]
    BY <1>2, <2>1
  <2>3. \A c \in 1 .. m : m - c + 1 \in 1 .. m /\ m - (m - c + 1) + 1 = c
    BY <1>2
  <2>4. \A c, d \in 1 .. m : m - c + 1 = m - d + 1 => c = d
    BY <1>2
  <2>5. \A c, d \in 1 .. m : Q[c] = Q[d] => c = d
    BY <1>2, <2>2, <2>3, <2>4
  <2>6. \A d \in 1 .. m : Q[m - d + 1] = P[d]
    BY <2>2, <2>3
  <2> QED BY <1>1, <1>2, <2>2, <2>3, <2>5, <2>6
<1> QED BY <1>3, <1>4

\* The partitions of a complete pass are sorted by calls for the next byte.
LEMMA RecurseKeeps ==
  ASSUME PassInv, Recurse
  PROVE  InPlaceInv'
<1>0. /\ InPlaceInv /\ PassOK /\ \A b \in Byte : Complete(b)
      /\ frames # << >> /\ Cur.offset < shape[Cur.sub].bytes /\ Blocks /\ Partitions
  BY DEF PassInv, Recurse, PassOK
<1>1. PICK f, n, Q : f = Cur /\ n = Count /\ Q = InOrder
  OBVIOUS
<1>2. /\ f.begin \in Nat /\ f.end \in Nat /\ f.sub \in Nat /\ f.offset \in Nat /\ FrameOK(f)
      /\ Window(f) \subseteq Pos
      /\ \A i \in Window(f) : Valid(data[i])
      /\ DOMAIN shape = 1 .. Len(shape) /\ Len(shape) \in Nat
      /\ f.sub \in DOMAIN shape /\ shape[f.sub].bytes \in {1, 2, 4, 8}
      /\ f.end <= Len(input) /\ f.begin <= f.end
      /\ f.offset \in 0 .. shape[f.sub].bytes - 1
  <2>1. /\ f.begin \in Nat /\ f.end \in Nat /\ f.sub \in Nat /\ f.offset \in Nat /\ FrameOK(f)
        /\ Window(f) \subseteq Pos
        /\ \A i \in Window(f) : Valid(data[i])
        /\ DOMAIN shape = 1 .. Len(shape) /\ Len(shape) \in Nat
        /\ f.sub \in DOMAIN shape /\ shape[f.sub].bytes \in {1, 2, 4, 8}
    BY <1>0, <1>1, FirstFrame DEF Cur
  <2>2. f.end <= Len(input) /\ f.begin <= f.end
    BY <2>1 DEF FrameOK
  <2>3. f.offset \in 0 .. shape[f.sub].bytes - 1
    BY <1>0, <1>1, <2>1
  <2> QED BY <2>1, <2>2, <2>3
<1>3. /\ n \in Nat /\ n = f.end - f.begin
      /\ \A i \in 0 .. n - 1 :
           /\ f.begin + i + 1 \in Window(f)
           /\ Bytes[i] = current_byte(data[f.begin + i + 1], f.sub, f.offset)
           /\ Bytes[i] \in Byte
  BY <1>0, <1>1, BytesAre DEF Count
<1>4. /\ \A b \in Byte :
           /\ Start(b) \in Nat /\ pass.next_offset[b] \in Nat
           /\ Start(b) <= pass.next_offset[b] /\ pass.next_offset[b] <= n
      /\ \A b, c \in Byte : b < c => pass.next_offset[b] <= Start(c)
  BY <1>0, <1>1, BlocksAre
<1>5. /\ ConfOK /\ FramesOK /\ Ordered(data) /\ Perm(data) /\ ShapeOK /\ Len(input) \in Nat
  BY <1>0 DEF InPlaceInv, ConfOK
<1> DEFINE W == Window(f)
           byte(i) == current_byte(data[i], f.sub, f.offset)
           K(b) == f.begin + Start(b) + 1 .. f.begin + pass.next_offset[b]
\* An element lies in the block of its byte, and a block has only its byte.
<1>6. ASSUME NEW i \in W
      PROVE  byte(i) \in Byte /\ i \in K(byte(i))
  <2>1. PICK j : j = i - f.begin - 1
    OBVIOUS
  <2>2. j \in 0 .. n - 1 /\ f.begin + j + 1 = i /\ i \in Int
    <3>1. PICK x, y : x = f.begin /\ y = f.end
      OBVIOUS
    <3>2. x \in Nat /\ y \in Nat /\ n = y - x /\ i \in x + 1 .. y /\ j = i - x - 1
      BY <1>2, <1>3, <2>1, <3>1 DEF Window
    <3>3. j \in 0 .. n - 1 /\ x + j + 1 = i /\ i \in Int
      BY <3>2
    <3> QED BY <3>1, <3>3
  <2>3. PICK b : b = byte(i)
    OBVIOUS
  <2>4. b = Bytes[j] /\ b \in Byte
    BY <1>3, <2>2, <2>3
  <2>5. j \in Block(b)
    BY <1>0, <1>1, <2>2, <2>4, InBlock
  <2>6. i \in K(b)
    BY <1>2, <1>4, <2>2, <2>4, <2>5, SMTT(30) DEF Block
  <2> QED BY <2>3, <2>4, <2>6
<1>7. ASSUME NEW b \in Byte, NEW i \in K(b)
      PROVE  i \in W /\ byte(i) = b
  <2>1. PICK j : j = i - f.begin - 1
    OBVIOUS
  <2>2. /\ Start(b) \in Nat /\ pass.next_offset[b] \in Nat /\ pass.next_offset[b] <= n
    BY <1>4
  <2>3. /\ j \in Start(b) .. pass.next_offset[b] - 1 /\ j \in 0 .. n - 1
        /\ f.begin + j + 1 = i
    <3>1. PICK x, y, z : x = f.begin /\ y = Start(b) /\ z = pass.next_offset[b]
      OBVIOUS
    <3>2. /\ x \in Nat /\ y \in Nat /\ z \in Nat /\ z <= n /\ n \in Nat
          /\ i \in x + y + 1 .. x + z /\ j = i - x - 1
      BY <1>2, <1>3, <2>1, <2>2, <3>1
    <3>3. j \in y .. z - 1 /\ j \in 0 .. n - 1 /\ x + j + 1 = i
      BY <3>2
    <3> QED BY <3>1, <3>3
  <2>4. Bytes[j] = b
    BY <1>0, <2>3 DEF Complete, Block
  <2> QED BY <1>3, <2>3, <2>4
<1>8. ASSUME NEW i \in W, NEW j \in W
      PROVE  /\ byte(i) = byte(j) => Agree(data[i], data[j], f.sub, f.offset + 1)
             /\ byte(i) < byte(j) => ~Below(data[j], data[i])
  <2>1. Agree(data[i], data[j], f.sub, f.offset) /\ Valid(data[i]) /\ Valid(data[j])
    BY <1>2 DEF FrameOK
  <2>2. /\ byte(i) = byte(j) => Agree(data[i], data[j], f.sub, f.offset + 1)
        /\ byte(i) < byte(j) => RadixLess(data[i], data[j])
    BY <1>2, <1>5, <2>1, NextByte
  <2>3. RadixLess(data[i], data[j]) => ~Below(data[j], data[i])
    BY <1>5, <2>1, RadixLessOneWay
  <2> QED BY <2>2, <2>3
<1> HIDE DEF byte
<1>9. ASSUME NEW i \in W, NEW j \in W, i < j
      PROVE  byte(i) = byte(j) \/ byte(i) < byte(j)
  <2>1. PICK b, c : b = byte(i) /\ c = byte(j)
    OBVIOUS
  <2>2. b \in Byte /\ c \in Byte /\ i \in K(b) /\ j \in K(c)
    BY <1>6, <2>1
  <2>3. /\ Start(b) \in Nat /\ pass.next_offset[b] \in Nat
        /\ Start(c) \in Nat /\ pass.next_offset[c] \in Nat
        /\ (c < b => pass.next_offset[c] <= Start(b))
    BY <1>4, <2>2
  <2>4. i \in Int /\ j \in Int
    BY <1>2 DEF Window
  <2>5. ~(c < b)
    BY <1>2, <1>9, <2>2, <2>3, <2>4, SMTT(30)
  <2>6. b \in Int /\ c \in Int
    BY <2>2, SkaSortAssumption DEF Byte
  <2> QED BY <2>1, <2>5, <2>6
<1> DEFINE last == f.offset + 1 = shape[f.sub].bytes /\ f.sub = Len(shape)
<1>10. PICK new : new = IF last THEN << >>
                        ELSE [i \in DOMAIN Q |-> PartitionFrame(f, Q[i])]
  OBVIOUS
<1>11. /\ frames' = new \o Tail(frames) /\ UNCHANGED config /\ which' = which /\ data' = data
  BY <1>1, <1>10 DEF Recurse, Leave, Cur
<1>12. PICK q : q = [i \in f.begin + 1 .. f.end |-> i]
  OBVIOUS
<1>13. q \in Bijection(W, W) /\ data' = Rearranged(f.begin, f.end, q)
  BY <1>2, <1>5, <1>11, <1>12, NothingMoves DEF Window
<1>14. CASE last
  <2>1. new \in Seq(Frames) /\ DOMAIN new = {}
    BY <1>10, <1>14
  <2>2. /\ \A k \in DOMAIN new :
             f.begin <= new[k].begin /\ new[k].end <= f.end /\ FrameOK(new[k])'
        /\ \A k, m \in DOMAIN new : k # m => Apart(new[k], new[m])
    BY <2>1
  <2>3. ASSUME NEW i \in W, NEW j \in W, i < j
        PROVE  ~Below(data'[j], data'[i])
    <3>1. CASE byte(i) < byte(j)
      BY <1>8, <1>11, <3>1
    <3>2. CASE byte(i) = byte(j)
      <4>1. Agree(data[j], data[i], f.sub, shape[f.sub].bytes)
        BY <1>8, <1>14, <3>2
      <4>2. Valid(data[i]) /\ Valid(data[j])
        BY <1>2
      <4>3. \A s \in DOMAIN shape : Val(data[j], s) = Val(data[i], s)
        BY <1>2, <1>5, <1>14, <4>1, <4>2, AgreeAll
      <4> QED BY <1>5, <1>11, <4>2, <4>3, SameNotBelow
    <3> QED BY <1>9, <2>3, <3>1, <3>2
  <2>4. \A i, j \in W : i < j =>
          \/ \E k \in DOMAIN new : i \in Window(new[k]) /\ j \in Window(new[k])
          \/ ~Below(data'[j], data'[i])
    BY <2>3
  <2>5. FramesOK' /\ Ordered(data)' /\ Perm(data)'
    BY <1>0, <1>1, <1>5, <1>11, <1>13, <2>1, <2>2, <2>4, Leaving DEF Cur
  <2> QED
    BY <1>0, <1>5, <1>11, <2>5, SameConf DEF InPlaceInv
<1>15. CASE ~last
  <2>1. /\ Len(Q) \in Nat /\ DOMAIN Q = 1 .. Len(Q)
        /\ \A c \in DOMAIN Q : \E d \in DOMAIN pass.partitions : Q[c] = pass.partitions[d]
        /\ \A d \in DOMAIN pass.partitions : \E c \in DOMAIN Q : Q[c] = pass.partitions[d]
        /\ \A c, d \in DOMAIN Q : Q[c] = Q[d] => c = d
    BY <1>0, <1>1, InOrderIs
  <2>2. /\ \A c \in DOMAIN Q : Q[c] \in Byte
        /\ \A b \in Byte : Start(b) < pass.next_offset[b] => \E c \in DOMAIN Q : Q[c] = b
    BY <1>0, <2>1 DEF Partitions
  <2>3. ASSUME NEW k \in DOMAIN Q, NEW b, b = Q[k], NEW g, g = PartitionFrame(f, Q[k])
        PROVE  /\ b \in Byte /\ Start(b) \in Nat /\ pass.next_offset[b] \in Nat
               /\ g.begin = f.begin + Start(b) /\ g.end = f.begin + pass.next_offset[b]
               /\ g.sub = f.sub /\ g.offset = f.offset + 1 /\ g \in Frames
               /\ g.begin <= g.end /\ f.begin <= g.begin /\ g.end <= f.end
               /\ Window(g) = K(b)
    <3>1. b \in Byte /\ Start(b) \in Nat /\ pass.next_offset[b] \in Nat
          /\ Start(b) <= pass.next_offset[b] /\ pass.next_offset[b] <= n
      BY <1>4, <2>2, <2>3
    <3>2. /\ g.begin = f.begin + Start(b) /\ g.end = f.begin + pass.next_offset[b]
          /\ g.sub = f.sub /\ g.offset = f.offset + 1
          /\ g = Frame(f.begin + Start(b), f.begin + pass.next_offset[b], f.sub, f.offset + 1)
      BY <2>3 DEF PartitionFrame, Frame, Start
    <3>3. g \in Frames
      BY <1>2, <3>1, <3>2, SMTT(30) DEF Frame, Frames
    <3>4. g.begin <= g.end /\ f.begin <= g.begin /\ g.end <= f.end
      BY <1>2, <1>3, <3>1, <3>2
    <3> QED BY <3>1, <3>2, <3>3, <3>4 DEF Window
  <2>4. /\ DOMAIN new = DOMAIN Q /\ \A k \in DOMAIN Q : new[k] = PartitionFrame(f, Q[k])
        /\ new = [k \in 1 .. Len(Q) |-> PartitionFrame(f, Q[k])]
    BY <1>10, <1>15, <2>1
  <2>5. new \in Seq(Frames)
    <3>1. \A k \in 1 .. Len(Q) : PartitionFrame(f, Q[k]) \in Frames
      BY <2>1, <2>3
    <3> QED BY <2>1, <2>4, <3>1
  <2>6. ASSUME NEW k \in DOMAIN new
        PROVE  f.begin <= new[k].begin /\ new[k].end <= f.end /\ FrameOK(new[k])'
    <3>1. PICK g, b : g = new[k] /\ b = Q[k]
      OBVIOUS
    <3>2. /\ b \in Byte /\ g.sub = f.sub /\ g.offset = f.offset + 1 /\ g \in Frames
          /\ g.begin <= g.end /\ f.begin <= g.begin /\ g.end <= f.end
          /\ Window(g) = K(b)
      BY <2>3, <2>4, <3>1
    <3>3. g.end \in Nat /\ g.end <= Len(input)
      BY <1>2, <1>5, <3>2 DEF Frames
    <3>4. ASSUME NEW i \in Window(g), NEW j \in Window(g)
          PROVE  Agree(data[i], data[j], g.sub, g.offset)
      <4>1. i \in W /\ j \in W /\ byte(i) = byte(j)
        BY <1>7, <3>2, <3>4 DEF byte
      <4> QED BY <1>8, <3>2, <4>1
    <3>5. /\ f.offset + 1 <= shape[f.sub].bytes
          /\ f.offset + 1 = shape[f.sub].bytes => f.sub < Len(shape)
      BY <1>2, <1>15
    <3>6. FrameOK(g)
      BY <1>2, <3>2, <3>3, <3>4, <3>5 DEF FrameOK
    <3>7. FrameOK(g)'
      BY <1>11, <3>6, SameConf DEF FrameOK, Window
    <3> QED BY <3>1, <3>2, <3>7
  <2>7. ASSUME NEW k \in DOMAIN new, NEW m \in DOMAIN new, k # m
        PROVE  Apart(new[k], new[m])
    <3>1. PICK g, h, b, c : g = new[k] /\ h = new[m] /\ b = Q[k] /\ c = Q[m]
      OBVIOUS
    <3>2. /\ b \in Byte /\ Start(b) \in Nat /\ pass.next_offset[b] \in Nat
          /\ g.begin = f.begin + Start(b) /\ g.end = f.begin + pass.next_offset[b]
      BY <2>3, <2>4, <3>1
    <3>3. /\ c \in Byte /\ Start(c) \in Nat /\ pass.next_offset[c] \in Nat
          /\ h.begin = f.begin + Start(c) /\ h.end = f.begin + pass.next_offset[c]
      BY <2>3, <2>4, <3>1
    <3>4. b # c
      BY <2>1, <2>4, <2>7, <3>1
    <3>5. b < c \/ c < b
      BY <3>2, <3>3, <3>4, SkaSortAssumption DEF Byte
    <3>6. /\ b < c => pass.next_offset[b] <= Start(c)
          /\ c < b => pass.next_offset[c] <= Start(b)
      BY <1>4, <3>2, <3>3
    <3>7. g.end <= h.begin \/ h.end <= g.begin
      BY <1>2, <3>2, <3>3, <3>5, <3>6
    <3> QED BY <3>1, <3>7 DEF Apart
  <2>8. ASSUME NEW i \in W, NEW j \in W, i < j
        PROVE  \/ \E k \in DOMAIN new : i \in Window(new[k]) /\ j \in Window(new[k])
               \/ ~Below(data'[j], data'[i])
    <3>1. CASE byte(i) < byte(j)
      BY <1>8, <1>11, <3>1
    <3>2. CASE byte(i) = byte(j)
      <4>1. PICK b : b = byte(i)
        OBVIOUS
      <4>2. b \in Byte /\ i \in K(b) /\ j \in K(b)
        BY <1>6, <3>2, <4>1 DEF byte
      <4>3. Start(b) < pass.next_offset[b]
        <5>1. Start(b) \in Nat /\ pass.next_offset[b] \in Nat
          BY <1>4, <4>2
        <5> QED BY <1>2, <4>2, <5>1
      <4>4. PICK k \in DOMAIN Q : Q[k] = b
        BY <2>2, <4>2, <4>3
      <4>5. k \in DOMAIN new /\ Window(new[k]) = K(b)
        BY <2>3, <2>4, <4>4
      <4> QED BY <4>2, <4>5
    <3> QED BY <1>9, <2>8, <3>1, <3>2
  <2>9. FramesOK' /\ Ordered(data)' /\ Perm(data)'
    BY <1>0, <1>1, <1>5, <1>11, <1>13, <2>5, <2>6, <2>7, <2>8, Leaving DEF Cur
  <2> QED
    BY <1>0, <1>5, <1>11, <2>9, SameConf DEF InPlaceInv
<1> QED BY <1>14, <1>15

\* A are offsets of n positions behind x, B is the positions themselves.
Shift(A, B, n, x) ==
  /\ A \subseteq 0 .. n - 1 /\ B \subseteq x + 1 .. x + n
  /\ \A i \in 0 .. n - 1 : i \in A <=> x + i + 1 \in B

\* There are as many positions as offsets.
LEMMA Shifted ==
  ASSUME NEW n \in Nat, NEW x \in Nat, NEW A, NEW B, Shift(A, B, n, x)
  PROVE  Cardinality(A) = Cardinality(B)
<1>6. /\ A \subseteq 0 .. n - 1 /\ B \subseteq x + 1 .. x + n
      /\ \A i \in 0 .. n - 1 : i \in A <=> x + i + 1 \in B
  BY DEF Shift
<1> DEFINE r == [i \in A |-> x + i + 1]
<1>0. 0 \in Int /\ n - 1 \in Int
  OBVIOUS
<1>1. IsFiniteSet(A)
  BY <1>0, <1>6, FS_Interval, FS_Subset
<1>2. r \in [A -> B] /\ \A i, j \in A : r[i] = r[j] => i = j
  BY <1>6
<1>3. ASSUME NEW j \in B PROVE \E i \in A : r[i] = j
  <2>1. PICK i : i = j - x - 1
    OBVIOUS
  <2>2. i \in 0 .. n - 1 /\ x + i + 1 = j
    BY <1>6, <2>1
  <2> QED BY <1>6, <2>2
<1> HIDE DEF r
<1>4. r \in Bijection(A, B)
  BY <1>2, <1>3 DEF Bijection, Injection, Surjection, IsInjective
<1>5. ExistsBijection(A, B)
  BY <1>4 DEF ExistsBijection
<1> QED BY <1>1, <1>5, FS_Bijection

\* The positions of W where g is b, or at most b.
Holds(g, W, b) == {i \in W : g[i] = b}
UpTo(g, W, b) == {i \in W : g[i] <= b}

\* What the counts of the bytes are to each other.
LEMMA Counted ==
  ASSUME NEW W, IsFiniteSet(W), NEW g, \A i \in W : g[i] \in Byte
  PROVE  /\ \A b \in Byte :
              /\ Cardinality(Holds(g, W, b)) \in Nat
              /\ Cardinality(UpTo(g, W, b)) \in Nat
              /\ Cardinality(UpTo(g, W, b)) <= Cardinality(W)
              /\ Cardinality(Holds(g, W, b)) > 0 <=> \E i \in W : g[i] = b
              /\ Cardinality(UpTo(g, W, b)) - Cardinality(Holds(g, W, b))
                   = IF b = 0 THEN 0 ELSE Cardinality(UpTo(g, W, b - 1))
              /\ (\A i \in W : ~(g[i] <= b)) => Cardinality(UpTo(g, W, b)) = 0
         /\ \A b, c \in Byte : b <= c =>
              Cardinality(UpTo(g, W, b)) <= Cardinality(UpTo(g, W, c))
<1>0. Radix \in Nat
  BY SkaSortAssumption
<1>1. \A b : /\ Holds(g, W, b) \in SUBSET W /\ UpTo(g, W, b) \in SUBSET W
             /\ IsFiniteSet(Holds(g, W, b)) /\ IsFiniteSet(UpTo(g, W, b))
  <2>1. \A b : Holds(g, W, b) \in SUBSET W /\ UpTo(g, W, b) \in SUBSET W
    BY DEF Holds, UpTo
  <2> QED BY <2>1, FS_Subset
<1>2. \A b : /\ Cardinality(Holds(g, W, b)) \in Nat /\ Cardinality(UpTo(g, W, b)) \in Nat
             /\ Cardinality(UpTo(g, W, b)) <= Cardinality(W)
  BY <1>1, FS_CardinalityType, FS_Subset
<1>3. ASSUME NEW b \in Byte
      PROVE  Cardinality(Holds(g, W, b)) > 0 <=> \E i \in W : g[i] = b
  <2>1. Cardinality(Holds(g, W, b)) = 0 <=> Holds(g, W, b) = {}
    BY <1>1, FS_EmptySet
  <2>2. Holds(g, W, b) = {} <=> ~\E i \in W : g[i] = b
    BY DEF Holds
  <2>3. \A k \in Nat : k > 0 <=> k # 0
    OBVIOUS
  <2> QED BY <1>2, <2>1, <2>2, <2>3
<1>4. ASSUME NEW b \in Byte, NEW c \in Byte, b <= c
      PROVE  Cardinality(UpTo(g, W, b)) <= Cardinality(UpTo(g, W, c))
  <2>1. UpTo(g, W, b) \in SUBSET UpTo(g, W, c)
    <3>1. \A i \in W : g[i] \in Int
      BY <1>0 DEF Byte
    <3>2. b \in Int /\ c \in Int
      BY <1>0 DEF Byte
    <3> QED BY <1>4, <3>1, <3>2 DEF UpTo
  <2> QED BY <1>1, <2>1, FS_Subset
<1>5. ASSUME NEW b \in Byte, \A i \in W : ~(g[i] <= b)
      PROVE  Cardinality(UpTo(g, W, b)) = 0
  <2>1. UpTo(g, W, b) = {}
    BY <1>5 DEF UpTo
  <2> QED BY <2>1, FS_EmptySet
<1>6. ASSUME NEW b \in Byte
      PROVE  Cardinality(UpTo(g, W, b)) - Cardinality(Holds(g, W, b))
               = IF b = 0 THEN 0 ELSE Cardinality(UpTo(g, W, b - 1))
  <2>0. b \in Int /\ \A i \in W : g[i] \in Int /\ 0 <= g[i]
    BY <1>0 DEF Byte
  <2>1. CASE b = 0
    <3>1. UpTo(g, W, b) = Holds(g, W, b)
      BY <2>0, <2>1 DEF UpTo, Holds
    <3> QED BY <1>2, <2>1, <3>1
  <2>2. CASE b # 0
    <3>1. PICK S, T : S = UpTo(g, W, b - 1) /\ T = Holds(g, W, b)
      OBVIOUS
    <3>2. UpTo(g, W, b) = S \cup T
      BY <2>0, <3>1 DEF UpTo, Holds
    <3>3. S \cap T = {}
      BY <2>0, <3>1 DEF UpTo, Holds
    <3>4. IsFiniteSet(S) /\ IsFiniteSet(T) /\ Cardinality(S) \in Nat /\ Cardinality(T) \in Nat
      BY <1>1, <1>2, <3>1
    <3>5. Cardinality(S \cup T) = Cardinality(S) + Cardinality(T) - 0
      <4>1. Cardinality(S \cap T) = 0
        BY <3>3, FS_EmptySet
      <4>2. Cardinality(S \cup T) = Cardinality(S) + Cardinality(T) - Cardinality(S \cap T)
        BY <3>4, FS_Union
      <4> QED BY <4>1, <4>2
    <3>6. Cardinality(UpTo(g, W, b)) - Cardinality(T) = Cardinality(S)
      BY <3>2, <3>4, <3>5
    <3> QED BY <2>2, <3>1, <3>6
  <2> QED BY <2>1, <2>2
<1> QED BY <1>2, <1>3, <1>4, <1>5, <1>6

\* An ascending enumeration of a finite set of bytes has each once.
LEMMA Enumerated ==
  ASSUME NEW S \in SUBSET Byte, NEW P \in [1 .. Cardinality(S) -> S],
         \A c, d \in DOMAIN P : c < d => P[c] < P[d]
  PROVE  /\ Cardinality(S) \in Nat /\ Len(P) = Cardinality(S) /\ P \in Seq(Byte)
         /\ \A c, d \in 1 .. Cardinality(S) : P[c] = P[d] => c = d
         /\ \A b \in S : \E c \in 1 .. Cardinality(S) : P[c] = b
<1>0. Radix \in Nat /\ 0 \in Int /\ Radix - 1 \in Int
  BY SkaSortAssumption
<1>1. IsFiniteSet(S)
  BY <1>0, FS_Interval, FS_Subset DEF Byte
<1>2. PICK n : n = Cardinality(S)
  OBVIOUS
<1>3. n \in Nat
  BY <1>1, <1>2, FS_CardinalityType
<1>4. P \in [1 .. n -> S] /\ DOMAIN P = 1 .. n /\ \A c \in 1 .. n : P[c] \in S /\ P[c] \in Int
  <2>1. P \in [1 .. n -> S] /\ DOMAIN P = 1 .. n
    BY <1>2
  <2>2. \A b \in S : b \in Int
    BY <1>0 DEF Byte
  <2> QED BY <2>1, <2>2
<1>5. \A c, d \in 1 .. n : P[c] = P[d] => c = d
  <2> TAKE c, d \in 1 .. n
  <2>1. c < d => P[c] < P[d]
    BY <1>4
  <2>2. d < c => P[d] < P[c]
    BY <1>4
  <2> QED BY <1>3, <1>4, <2>1, <2>2
<1>6. P \in Injection(1 .. n, S)
  BY <1>4, <1>5 DEF Injection, IsInjective
<1>7. Cardinality(1 .. n) = n
  <2>1. 1 \in Int /\ n \in Int
    BY <1>3
  <2> QED BY <1>3, <2>1, FS_Interval
<1>8. P \in Surjection(1 .. n, S)
  <2>1. PICK T : T = 1 .. n
    OBVIOUS
  <2> QED BY <1>1, <1>2, <1>6, <1>7, <2>1, FS_Injection
<1>9. \A b \in S : \E c \in 1 .. n : P[c] = b
  BY <1>8 DEF Surjection
<1>10. Len(P) = n /\ P \in Seq(Byte)
  BY <1>3, <1>4
<1> QED BY <1>2, <1>3, <1>5, <1>9, <1>10

\* A pass begins with counting.
LEMMA BeginPassKeeps ==
  ASSUME InPlaceInv, BeginPass
  PROVE  PassInv'
<1> DEFINE ff == Head(frames)
           byte(e) == current_byte(e, ff.sub, ff.offset)
           count(b) == Cardinality({i \in ff.begin + 1 .. ff.end : byte(data[i]) = b})
           upto(b) == Cardinality({i \in ff.begin + 1 .. ff.end : byte(data[i]) <= b})
           occurring == {b \in Byte : count(b) > 0}
           begins == [b \in Byte |-> IF count(b) = 0 THEN 0 ELSE upto(b) - count(b)]
           american == ff.end - ff.begin < AmericanFlagSortThreshold
<1>1. PICK P \in [1 .. Cardinality(occurring) -> occurring] :
        /\ \A i, j \in DOMAIN P : i < j => P[i] < P[j]
        /\ pass' = [kind |-> IF Len(P) <= 1 THEN "recurse"
                             ELSE IF american THEN "american" ELSE "ska",
                    ascending |-> american,
                    partitions |-> P,
                    offset |-> begins,
                    next_offset |-> [b \in Byte |-> upto(b)],
                    block |-> 1, it |-> 0, last |-> Len(P), keep |-> 1]
  BY DEF BeginPass
<1>2. /\ frames # << >> /\ Cur.offset < shape[Cur.sub].bytes
      /\ UNCHANGED <<config, data, which, frames>>
      /\ Count >= StdSortThreshold
  BY DEF BeginPass, Large, Cur, Count
<1>3. PICK f, n, W, g : /\ f = Cur /\ n = Count /\ W = Window(f)
                        /\ g = [i \in W |-> current_byte(data[i], f.sub, f.offset)]
  OBVIOUS
<1>4. /\ n \in Nat /\ n = f.end - f.begin /\ f.begin \in Nat /\ f.end \in Nat
      /\ W = f.begin + 1 .. f.begin + n /\ W = f.begin + 1 .. f.end
      /\ \A i \in 0 .. n - 1 : f.begin + i + 1 \in W /\ Bytes[i] = g[f.begin + i + 1]
  <2>1. f.begin \in Nat /\ f.end \in Nat /\ n = f.end - f.begin
    BY <1>2, <1>3, FirstFrame DEF Cur, Count
  <2>2. /\ n \in Nat
        /\ \A i \in 0 .. n - 1 : f.begin + i + 1 \in W /\ Bytes[i] = g[f.begin + i + 1]
    BY <1>2, <1>3, BytesAre
  <2>3. f.end = f.begin + n
    BY <2>1
  <2> QED BY <1>3, <2>1, <2>2, <2>3 DEF Window
<1>5. \A i \in W : g[i] \in Byte
  <2> TAKE i \in W
  <2>1. PICK j : j = i - f.begin - 1
    OBVIOUS
  <2>2. j \in 0 .. n - 1 /\ f.begin + j + 1 = i
    <3>1. PICK x : x = f.begin
      OBVIOUS
    <3>2. x \in Nat /\ n \in Nat /\ i \in x + 1 .. x + n /\ j = i - x - 1
      BY <1>4, <2>1, <3>1
    <3>3. j \in 0 .. n - 1 /\ x + j + 1 = i
      BY <3>2
    <3> QED BY <3>1, <3>3
  <2>3. Bytes[j] \in Byte
    BY <1>2, <1>3, <2>2, BytesAre
  <2> QED BY <1>4, <2>2, <2>3
<1>6. IsFiniteSet(W) /\ Cardinality(W) = n
  <2>1. f.begin + 1 \in Int /\ f.begin + n \in Int
    BY <1>4
  <2>2. IsFiniteSet(W) /\ Cardinality(W) = IF f.begin + 1 > f.begin + n THEN 0
                                            ELSE (f.begin + n) - (f.begin + 1) + 1
    <3>1. PICK x, y : x = f.begin + 1 /\ y = f.begin + n
      OBVIOUS
    <3>2. IsFiniteSet(x .. y) /\ Cardinality(x .. y) = IF x > y THEN 0 ELSE y - x + 1
      BY <2>1, <3>1, FS_Interval
    <3> QED BY <1>4, <3>1, <3>2
  <2> QED BY <1>4, <2>2
<1>7. \A b : count(b) = Cardinality(Holds(g, W, b)) /\ upto(b) = Cardinality(UpTo(g, W, b))
  <2> TAKE b
  <2>1. {i \in ff.begin + 1 .. ff.end : byte(data[i]) = b} = Holds(g, W, b)
    BY <1>3, <1>4 DEF Holds, Cur
  <2>2. {i \in ff.begin + 1 .. ff.end : byte(data[i]) <= b} = UpTo(g, W, b)
    BY <1>3, <1>4 DEF UpTo, Cur
  <2> QED BY <2>1, <2>2
<1>8. occurring \in SUBSET Byte
  OBVIOUS
<1>9. \A b : b \in occurring <=> b \in Byte /\ count(b) > 0
  OBVIOUS
<1>10. /\ DOMAIN pass' = PassFields
       /\ pass'.kind = (IF Len(P) <= 1 THEN "recurse" ELSE IF american THEN "american" ELSE "ska")
       /\ pass'.partitions = P
       /\ pass'.offset = [b \in Byte |-> IF count(b) = 0 THEN 0 ELSE upto(b) - count(b)]
       /\ pass'.next_offset = [b \in Byte |-> upto(b)]
       /\ pass'.block = 1 /\ pass'.it = 0 /\ pass'.last = Len(P) /\ pass'.keep = 1
  BY <1>1 DEF PassFields
<1> HIDE DEF ff, byte, count, upto, occurring, begins, american
<1>11. /\ \A b \in Byte :
            /\ count(b) \in Nat /\ upto(b) \in Nat /\ upto(b) <= n
            /\ count(b) > 0 <=> \E i \in W : g[i] = b
            /\ upto(b) - count(b) = IF b = 0 THEN 0 ELSE upto(b - 1)
            /\ (\A i \in W : ~(g[i] <= b)) => upto(b) = 0
       /\ \A b, c \in Byte : b <= c => upto(b) <= upto(c)
  BY <1>5, <1>6, <1>7, Counted
<1>12. /\ \A b \in Byte : pass'.next_offset[b] = upto(b)
       /\ \A b \in Byte : pass'.offset[b] = IF count(b) = 0 THEN 0 ELSE upto(b) - count(b)
  BY <1>10
<1>13. \A b \in Byte : Start(b)' = upto(b) - count(b)
  <2> TAKE b \in Byte
  <2>1. CASE b = 0
    BY <1>11, <2>1 DEF Start
  <2>2. CASE b # 0
    <3>1. b - 1 \in Byte
      BY <2>2, SkaSortAssumption DEF Byte
    <3> QED BY <1>11, <1>12, <2>2, <3>1 DEF Start
  <2> QED BY <2>1, <2>2
<1>14. /\ Cur' = f /\ Count' = n /\ Bytes' = Bytes /\ Byte' = Byte
       /\ UNCHANGED config /\ shape' = shape /\ data' = data
  <2>1. /\ data' = data /\ frames' = frames /\ UNCHANGED config
    BY <1>2
  <2>2. Cur' = Cur /\ Count' = Count
    BY <2>1 DEF Cur, Count
  <2>3. Bytes' = Bytes
    BY <2>1, <2>2, SameByte DEF Bytes, ByteAt
  <2> QED BY <1>3, <2>1, <2>2, <2>3, SameConf DEF Byte
<1>15. InPlaceInv'
  <2>1. UNCHANGED config /\ data' = data /\ which' = which /\ frames' = frames
    BY <1>2
  <2>2. Ordered(data)'
    BY <2>1, SameConf DEF InPlaceInv, Ordered, Together, Window
  <2>3. FramesOK'
    BY <2>1, SameConf DEF InPlaceInv, FramesOK, FrameOK, Window, Apart
  <2> QED BY <2>1, <2>2, <2>3, SameConf DEF InPlaceInv, Perm
<1>16. ASSUME NEW b \in Byte
       PROVE  Cardinality({i \in 0 .. n - 1 : Bytes[i] = b}) = count(b)
  <2>1. PICK A, B, x : A = {i \in 0 .. n - 1 : Bytes[i] = b} /\ B = Holds(g, W, b) /\ x = f.begin
    OBVIOUS
  <2>2. A \in SUBSET (0 .. n - 1) /\ x \in Nat
    BY <1>4, <2>1
  <2>3. B \in SUBSET (x + 1 .. x + n)
    BY <1>4, <2>1 DEF Holds
  <2>4. \A i \in 0 .. n - 1 : i \in A <=> x + i + 1 \in B
    BY <1>4, <2>1 DEF Holds
  <2>6. n \in Nat
    BY <1>4
  <2>5. Cardinality(A) = Cardinality(B)
    <3>1. Shift(A, B, n, x)
      BY <2>2, <2>3, <2>4 DEF Shift
    <3> QED BY <2>2, <2>6, <3>1, Shifted
  <2> QED BY <1>7, <2>1, <2>5
<1>17. Blocks'
  <2>1. pass'.next_offset \in [Byte -> Nat] /\ pass'.offset \in [Byte -> Nat]
    <3>1. \A b \in Byte : upto(b) \in Nat /\ upto(b) - count(b) \in Nat
      <4> TAKE b \in Byte
      <4>1. b # 0 => b - 1 \in Byte
        BY SkaSortAssumption DEF Byte
      <4>2. (IF b = 0 THEN 0 ELSE upto(b - 1)) \in Nat
        BY <1>11, <4>1
      <4> QED BY <1>11, <4>2
    <3> QED BY <1>10, <3>1
  <2>2. /\ \A b \in Byte : pass'.next_offset[b] <= n
        /\ \A b, c \in Byte : b <= c => pass'.next_offset[b] <= pass'.next_offset[c]
    BY <1>11, <1>12
  <2>3. \A b \in Byte : Cardinality({i \in 0 .. n - 1 : Bytes[i] = b})
                          = pass'.next_offset[b] - Start(b)'
    BY <1>11, <1>12, <1>13, <1>16
  <2>4. ASSUME NEW b \in Byte, Start(b)' < pass'.next_offset[b]
        PROVE  /\ Start(b)' <= pass'.offset[b] /\ pass'.offset[b] <= pass'.next_offset[b]
               /\ \A i \in Start(b)' .. pass'.offset[b] - 1 : Bytes[i] = b
    <3>1. count(b) # 0 /\ upto(b) \in Nat /\ count(b) \in Nat
      BY <1>11, <1>12, <1>13, <2>4
    <3>2. pass'.offset[b] = upto(b) - count(b) /\ Start(b)' = upto(b) - count(b)
      BY <1>12, <1>13, <3>1
    <3>3. \A k \in Int : k .. k - 1 = {} /\ k <= k
      OBVIOUS
    <3>4. pass'.offset[b] <= pass'.next_offset[b] /\ upto(b) - count(b) \in Int
      BY <1>12, <3>1, <3>2
    <3> QED BY <3>2, <3>3, <3>4
  <2> QED BY <1>14, <2>1, <2>2, <2>3, <2>4 DEF Blocks
<1>18. /\ Len(P) \in Nat /\ P \in Seq(Byte) /\ DOMAIN P = 1 .. Len(P)
       /\ \A c, d \in DOMAIN P : P[c] = P[d] => c = d
       /\ \A c, d \in DOMAIN P : c < d => P[c] < P[d]
       /\ \A b : b \in Byte /\ count(b) > 0 <=> \E c \in DOMAIN P : P[c] = b
  <2>1. /\ Cardinality(occurring) \in Nat /\ Len(P) = Cardinality(occurring)
        /\ P \in Seq(Byte)
        /\ \A c, d \in 1 .. Cardinality(occurring) : P[c] = P[d] => c = d
        /\ \A b \in occurring : \E c \in 1 .. Cardinality(occurring) : P[c] = b
    BY <1>1, <1>8, Enumerated
  <2>2. DOMAIN P = 1 .. Len(P) /\ \A c \in DOMAIN P : P[c] \in occurring
    BY <1>1, <2>1
  <2> QED BY <1>1, <1>9, <2>1, <2>2
<1>19. Partitions'
  <2>1. \A b \in Byte : Start(b)' < pass'.next_offset[b] <=> count(b) > 0
    <3> TAKE b \in Byte
    <3>1. count(b) \in Nat /\ upto(b) \in Nat
      BY <1>11
    <3> QED BY <1>12, <1>13, <3>1
  <2> QED BY <1>10, <1>14, <1>18, <2>1 DEF Partitions
<1>20. PassOK'
  BY <1>2, <1>3, <1>10, <1>14, <1>17, <1>19 DEF PassOK, PassFields
<1>21. CASE Len(P) <= 1
  <2>1. PICK d \in Byte : \A c \in DOMAIN P : P[c] = d
    <3>1. CASE Len(P) = 0
      <4>1. 0 \in Byte /\ DOMAIN P = {}
        BY <1>18, <3>1, SkaSortAssumption DEF Byte
      <4> QED BY <4>1
    <3>2. CASE Len(P) = 1
      <4>1. 1 \in DOMAIN P /\ P[1] \in Byte /\ \A c \in DOMAIN P : c = 1
        BY <1>18, <3>2
      <4> QED BY <4>1
    <3> QED BY <1>18, <1>21, <3>1, <3>2
  <2>2. \A b \in Byte : count(b) > 0 => b = d
    BY <1>18, <2>1
  <2>3. ASSUME NEW b \in Byte, NEW i \in Block(b)' PROVE Bytes'[i] = b
    <3>1. /\ upto(b) \in Nat /\ count(b) \in Nat /\ upto(b) <= n
          /\ upto(b) - count(b) \in Nat
          /\ Start(b)' = upto(b) - count(b) /\ pass'.next_offset[b] = upto(b)
      <4>1. b # 0 => b - 1 \in Byte
        BY SkaSortAssumption DEF Byte
      <4>2. (IF b = 0 THEN 0 ELSE upto(b - 1)) \in Nat
        BY <1>11, <4>1
      <4> QED BY <1>11, <1>12, <1>13, <4>2
    <3>2. i \in upto(b) - count(b) .. upto(b) - 1
      BY <3>1 DEF Block
    <3>3. count(b) > 0 /\ i \in 0 .. n - 1
      BY <1>4, <3>1, <3>2, SMTT(30)
    <3>4. f.begin + i + 1 \in W /\ Bytes[i] = g[f.begin + i + 1]
      BY <1>4, <3>3
    <3>5. count(Bytes[i]) > 0 /\ Bytes[i] \in Byte
      BY <1>5, <1>11, <3>4
    <3> QED BY <1>14, <2>2, <3>3, <3>5
  <2>4. (\A b \in Byte : Complete(b))'
    BY <1>14, <2>3 DEF Complete
  <2>5. pass'.kind = "recurse"
    BY <1>10, <1>21
  <2> QED BY <1>15, <1>20, <2>4, <2>5 DEF PassInv
<1>22. CASE ~(Len(P) <= 1) /\ american
  <2>1. pass'.kind = "american"
    BY <1>10, <1>22
  <2>2. PICK a : a = P[1]
    OBVIOUS
  <2>3. 1 \in DOMAIN P /\ a \in Byte /\ count(a) > 0 /\ 1 \in 1 .. Len(P) - 1
    BY <1>18, <1>22, <2>2
  <2>4. Start(a)' = 0
    <3>1. CASE a = 0
      BY <3>1 DEF Start
    <3>2. CASE a # 0
      <4>1. a - 1 \in Byte /\ a \in Int
        BY <2>3, <3>2, SkaSortAssumption DEF Byte
      <4>2. ASSUME NEW i \in W, g[i] <= a - 1 PROVE FALSE
        <5>1. g[i] \in Byte /\ count(g[i]) > 0
          BY <1>5, <1>11
        <5>2. PICK c \in DOMAIN P : P[c] = g[i]
          BY <1>18, <5>1
        <5>3. c = 1 \/ 1 < c
          BY <1>18
        <5>4. ~(g[i] < a) /\ g[i] \in Int
          BY <1>18, <2>2, <2>3, <4>1, <5>1, <5>2, <5>3, SkaSortAssumption, SMTT(30) DEF Byte
        <5> QED BY <4>1, <4>2, <5>4
      <4>3. upto(a - 1) = 0
        BY <1>11, <4>1, <4>2
      <4> QED BY <1>12, <3>2, <4>1, <4>3 DEF Start
    <3> QED BY <3>1, <3>2
  <2>5. 0 \in Block(a)'
    <3>1. pass'.next_offset[a] \in Nat /\ pass'.next_offset[a] > 0
      BY <1>11, <1>12, <1>13, <2>3, <2>4
    <3> QED BY <2>4, <3>1 DEF Block
  <2>6. AmericanOK'
    <3>1. /\ \A i \in 0 .. 0 - 1 : FALSE
          /\ \A i \in 1 .. 1 - 1 : FALSE
      OBVIOUS
    <3> QED BY <1>10, <1>18, <2>2, <2>3, <2>4, <2>5, <3>1 DEF AmericanOK
  <2> QED BY <1>15, <1>20, <2>1, <2>6 DEF PassInv
<1>23. CASE ~(Len(P) <= 1) /\ ~american
  <2>1. pass'.kind = "ska"
    BY <1>10, <1>23
  <2>2. Len(P) \in 1 .. Len(P) /\ 1 \in 1 .. Len(P) /\ 1 \in 1 .. 1
    BY <1>18, <1>23
  <2>3. /\ \A i \in 1 .. 1 - 1 : FALSE
        /\ \A i \in Len(P) + 1 .. Len(P) : FALSE
    BY <1>18
  <2>4. SkaOK'
    BY <1>10, <2>2, <2>3 DEF SkaOK
  <2> QED BY <1>15, <1>20, <2>1, <2>4 DEF PassInv
<1> QED BY <1>21, <1>22, <1>23

----------------------------------------------------------------------------
(* Sorting by copying.                                                     *)

\* The positions before i in the order of the keys, i included.
Upper(key, n, i) == {j \in 1 .. n : key[j] < key[i] \/ (key[j] = key[i] /\ j <= i)}

\* t is s in the order of its keys, equal ones in the order in which they were.
Stably(t, s, key, n) ==
  \E r \in Bijection(1 .. n, 1 .. n) :
    /\ t = [p \in 1 .. n |-> s[r[p]]]
    /\ \A p, q \in 1 .. n : p < q =>
         \/ key[r[p]] < key[r[q]]
         \/ key[r[p]] = key[r[q]] /\ r[p] < r[q]

\* counting_sort_impl() brings the elements into the order of their keys, equal
\* ones in the order in which they were.
LEMMA CountingSort ==
  ASSUME NEW n \in Nat, NEW s, DOMAIN s = 1 .. n, NEW key, \A i \in 1 .. n : key[i] \in Int
  PROVE  Stably(counting_sort_impl(s, key), s, key, n)
<1> DEFINE place(i) == Cardinality({j \in DOMAIN s : key[j] < key[i]})
                         + Cardinality({j \in 1 .. i : key[j] = key[i]})
           r == [p \in DOMAIN s |-> CHOOSE i \in DOMAIN s : place(i) = p]
<1>1. counting_sort_impl(s, key) = [p \in DOMAIN s |-> s[CHOOSE i \in DOMAIN s : place(i) = p]]
  BY DEF counting_sort_impl
<1>2. \A p \in DOMAIN s : r[p] = CHOOSE i \in DOMAIN s : place(i) = p
  OBVIOUS
<1>3. counting_sort_impl(s, key) = [p \in 1 .. n |-> s[r[p]]]
  BY <1>1, <1>2
<1>4. PICK D : D = 1 .. n
  OBVIOUS
<1>5. IsFiniteSet(D) /\ Cardinality(D) = n /\ \A i \in D : i \in Nat /\ i <= n
  <2>1. 1 \in Int /\ n \in Int
    OBVIOUS
  <2> QED BY <1>4, <2>1, FS_Interval
<1>6. \A i \in D : /\ Upper(key, n, i) \in SUBSET D /\ IsFiniteSet(Upper(key, n, i))
                   /\ i \in Upper(key, n, i)
                   /\ Cardinality(Upper(key, n, i)) \in Nat
                   /\ Cardinality(Upper(key, n, i)) <= n
  <2> TAKE i \in D
  <2>1. Upper(key, n, i) \in SUBSET D /\ i \in Upper(key, n, i)
    BY <1>4, <1>5 DEF Upper
  <2>2. IsFiniteSet(Upper(key, n, i)) /\ Cardinality(Upper(key, n, i)) <= n
    BY <1>5, <2>1, FS_Subset
  <2> QED BY <2>1, <2>2, FS_CardinalityType
<1>7. ASSUME NEW i \in D PROVE place(i) = Cardinality(Upper(key, n, i))
  <2>1. PICK S, T : /\ S = {j \in DOMAIN s : key[j] < key[i]}
                    /\ T = {j \in 1 .. i : key[j] = key[i]}
    OBVIOUS
  <2>2. S \in SUBSET D /\ T \in SUBSET D
    <3>1. 1 .. i \subseteq D
      BY <1>4, <1>5
    <3> QED BY <1>4, <2>1, <3>1
  <2>3. S \cup T = Upper(key, n, i)
    <3>1. \A j \in D : j \in S <=> key[j] < key[i]
      BY <1>4, <2>1
    <3>2. \A j \in D : j \in T <=> j <= i /\ key[j] = key[i]
      BY <1>4, <1>5, <2>1
    <3>3. \A j : j \in Upper(key, n, i) <=>
            j \in D /\ (key[j] < key[i] \/ (key[j] = key[i] /\ j <= i))
      BY <1>4 DEF Upper
    <3> QED BY <2>2, <3>1, <3>2, <3>3
  <2>4. S \cap T = {}
    BY <1>4, <2>1, <2>2
  <2>5. IsFiniteSet(S) /\ IsFiniteSet(T)
    BY <1>5, <2>2, FS_Subset
  <2>6. Cardinality(S) \in Nat /\ Cardinality(T) \in Nat /\ Cardinality(S \cap T) = 0
    BY <2>4, <2>5, FS_CardinalityType, FS_EmptySet
  <2>7. Cardinality(S \cup T) = Cardinality(S) + Cardinality(T) - Cardinality(S \cap T)
    BY <2>5, FS_Union
  <2>8. Cardinality(S) + Cardinality(T) = Cardinality(Upper(key, n, i))
    <3>1. Cardinality(S \cup T) = Cardinality(Upper(key, n, i))
      BY <2>3, Zenon
    <3> QED BY <2>6, <2>7, <3>1
  <2>9. place(i) = Cardinality(S) + Cardinality(T)
    BY <2>1, Zenon
  <2> QED BY <2>8, <2>9
<1>8. ASSUME NEW i \in D, NEW j \in D, key[i] < key[j] \/ (key[i] = key[j] /\ i < j)
      PROVE  place(i) < place(j)
  <2>0. key[i] \in Int /\ key[j] \in Int /\ i \in Nat /\ j \in Nat
    BY <1>4, <1>5
  <2>1. Upper(key, n, i) \in SUBSET Upper(key, n, j)
    <3> SUFFICES ASSUME NEW k \in Upper(key, n, i) PROVE k \in Upper(key, n, j)
      OBVIOUS
    <3>1. k \in D /\ (key[k] < key[i] \/ (key[k] = key[i] /\ k <= i))
      BY <1>4 DEF Upper
    <3>2. key[k] \in Int /\ k \in Nat
      BY <1>4, <1>5, <3>1
    <3>3. key[k] < key[j] \/ (key[k] = key[j] /\ k <= j)
      BY <1>8, <2>0, <3>1, <3>2
    <3> QED BY <1>4, <3>1, <3>3 DEF Upper
  <2>2. j \notin Upper(key, n, i)
    BY <1>8, <2>0 DEF Upper
  <2>3. Upper(key, n, i) # Upper(key, n, j)
    BY <1>6, <2>2
  <2>4. /\ Cardinality(Upper(key, n, i)) <= Cardinality(Upper(key, n, j))
        /\ Cardinality(Upper(key, n, i)) # Cardinality(Upper(key, n, j))
    BY <1>6, <2>1, <2>3, FS_Subset
  <2> QED BY <1>6, <1>7, <2>4
<1> DEFINE pl == [i \in D |-> place(i)]
<1>9. \A i \in D : place(i) \in D
  <2> TAKE i \in D
  <2>1. Cardinality(Upper(key, n, i)) # 0
    BY <1>6, FS_EmptySet
  <2> QED BY <1>4, <1>6, <1>7, <2>1, SMTT(30)
<1>10. \A i, j \in D : place(i) = place(j) => i = j
  <2> SUFFICES ASSUME NEW i \in D, NEW j \in D, place(i) = place(j), i # j PROVE FALSE
    OBVIOUS
  <2>1. key[i] \in Int /\ key[j] \in Int /\ i \in Nat /\ j \in Nat
    BY <1>4, <1>5
  <2>2. place(i) \in Nat
    BY <1>6, <1>7
  <2>3. ~(place(i) < place(j)) /\ ~(place(j) < place(i))
    BY <2>2
  <2>4. \/ key[i] < key[j] \/ (key[i] = key[j] /\ i < j)
        \/ key[j] < key[i] \/ (key[j] = key[i] /\ j < i)
    BY <2>1
  <2> HIDE DEF place
  <2> QED BY <1>8, <2>3, <2>4
<1> HIDE DEF place
<1>11. pl \in Injection(D, D)
  BY <1>9, <1>10 DEF Injection, IsInjective
<1>12. pl \in Surjection(D, D)
  <2> HIDE DEF pl
  <2> QED BY <1>5, <1>11, FS_Injection
<1>13. \A p \in D : \E i \in D : place(i) = p
  BY <1>12 DEF Surjection
<1>14. \A p \in D : r[p] \in D /\ place(r[p]) = p
  BY <1>2, <1>4, <1>13
<1>15. r \in [D -> D]
  BY <1>4, <1>14
<1> HIDE DEF r
<1>16. r \in Bijection(D, D)
  <2>1. \A p, q \in D : r[p] = r[q] => p = q
    BY <1>14
  <2>2. ASSUME NEW i \in D PROVE \E p \in D : r[p] = i
    <3>1. place(i) \in D /\ place(r[place(i)]) = place(i) /\ r[place(i)] \in D
      BY <1>9, <1>14
    <3> QED BY <1>10, <3>1
  <2> QED BY <1>15, <2>1, <2>2, BijectionIs
<1>17. ASSUME NEW p \in D, NEW q \in D, p < q
       PROVE  \/ key[r[p]] < key[r[q]]
              \/ key[r[p]] = key[r[q]] /\ r[p] < r[q]
  <2>1. PICK i, j : i = r[p] /\ j = r[q]
    OBVIOUS
  <2>2. i \in D /\ j \in D /\ place(i) = p /\ place(j) = q
    BY <1>14, <2>1
  <2>3. p \in Nat /\ q \in Nat
    BY <1>5
  <2>4. ~(place(j) < place(i)) /\ place(i) # place(j)
    BY <1>17, <2>2, <2>3
  <2>5. ~(key[j] < key[i] \/ (key[j] = key[i] /\ j < i)) /\ i # j
    BY <1>8, <2>2, <2>4
  <2>6. key[i] \in Int /\ key[j] \in Int /\ i \in Nat /\ j \in Nat
    BY <1>4, <1>5, <2>2
  <2>7. key[i] < key[j] \/ (key[i] = key[j] /\ i < j)
    BY <2>5, <2>6
  <2> QED BY <2>1, <2>7
<1> QED BY <1>3, <1>4, <1>16, <1>17 DEF Stably

\* l < r by the numbers behind sub; by the last w bytes of sub and those.
After(l, r, sub) ==
  \E s \in sub + 1 .. Len(shape) :
    /\ \A t \in sub + 1 .. s - 1 : U(l, t) = U(r, t)
    /\ U(l, s) < U(r, s)
LowLess(l, r, sub, w) ==
  \/ U(l, sub) % Power[w] < U(r, sub) % Power[w]
  \/ U(l, sub) % Power[w] = U(r, sub) % Power[w] /\ After(l, r, sub)

\* The order by the sub keys behind the last one, and behind none.
LEMMA AfterEnds ==
  ASSUME ShapeOK, NEW l, NEW r
  PROVE  ~After(l, r, Len(shape)) /\ (After(l, r, 0) <=> RadixLess(l, r))
<1>1. Len(shape) \in Nat /\ DOMAIN shape = 1 .. Len(shape)
  BY ShapeSubKeys
<1>2. Len(shape) + 1 .. Len(shape) = {} /\ 0 + 1 = 1
  BY <1>1
<1> QED BY <1>1, <1>2 DEF After, RadixLess

\* The order by no byte of a sub key, and by all of them.
LEMMA LowEnds ==
  ASSUME ShapeOK, NEW l, NEW r, Valid(l), Valid(r), NEW sub \in DOMAIN shape
  PROVE  /\ LowLess(l, r, sub, 0) <=> After(l, r, sub)
         /\ LowLess(l, r, sub, shape[sub].bytes) <=> After(l, r, sub - 1)
<1> DEFINE x == U(l, sub)
           y == U(r, sub)
           P == Power[shape[sub].bytes]
<1>1. Len(shape) \in Nat /\ DOMAIN shape = 1 .. Len(shape) /\ sub \in Nat /\ sub <= Len(shape)
  BY ShapeSubKeys
<1>2. /\ x \in Nat /\ y \in Nat /\ P \in Nat \ {0} /\ x < P /\ y < P
  BY UVal
<1> HIDE DEF x, y, P
<1>3. x % 1 = 0 /\ y % 1 = 0 /\ Power[0] = 1
  BY <1>2, Powers
<1>4. LowLess(l, r, sub, 0) <=> After(l, r, sub)
  BY <1>3 DEF LowLess, x, y
<1>5. x % P = x /\ y % P = y
  BY <1>2
<1>6. LowLess(l, r, sub, shape[sub].bytes) <=>
        U(l, sub) < U(r, sub) \/ (U(l, sub) = U(r, sub) /\ After(l, r, sub))
  BY <1>2, <1>5 DEF LowLess, x, y, P
<1>7. ASSUME U(l, sub) < U(r, sub) PROVE After(l, r, sub - 1)
  <2>1. (sub - 1) + 1 = sub /\ sub \in sub .. Len(shape) /\ sub .. sub - 1 = {}
    BY <1>1
  <2> QED BY <1>7, <2>1 DEF After
<1>8. ASSUME U(l, sub) = U(r, sub), After(l, r, sub) PROVE After(l, r, sub - 1)
  <2>1. PICK s \in sub + 1 .. Len(shape) :
          /\ \A t \in sub + 1 .. s - 1 : U(l, t) = U(r, t)
          /\ U(l, s) < U(r, s)
    BY <1>8 DEF After
  <2>2. (sub - 1) + 1 = sub /\ s \in sub .. Len(shape)
    BY <1>1
  <2>3. \A t \in sub .. s - 1 : t = sub \/ t \in sub + 1 .. s - 1
    BY <1>1
  <2> QED BY <1>8, <2>1, <2>2, <2>3 DEF After
<1>9. ASSUME After(l, r, sub - 1), ~(U(l, sub) < U(r, sub))
      PROVE  U(l, sub) = U(r, sub) /\ After(l, r, sub)
  <2>0. (sub - 1) + 1 = sub
    BY <1>1
  <2>1. PICK s \in sub .. Len(shape) :
          /\ \A t \in sub .. s - 1 : U(l, t) = U(r, t)
          /\ U(l, s) < U(r, s)
    BY <1>9, <2>0 DEF After
  <2>2. s # sub
    BY <1>9, <2>1
  <2>3. s \in sub + 1 .. Len(shape) /\ sub \in sub .. s - 1
    BY <1>1, <2>2
  <2>4. \A t \in sub + 1 .. s - 1 : t \in sub .. s - 1
    BY <1>1
  <2> QED BY <2>1, <2>3, <2>4 DEF After
<1> QED BY <1>4, <1>6, <1>7, <1>8, <1>9

\* One byte more.
LEMMA LowStep ==
  ASSUME ShapeOK, NEW l, NEW r, Valid(l), Valid(r), NEW sub \in DOMAIN shape,
         NEW w \in Nat, NEW offset, offset = shape[sub].bytes - 1 - w
  PROVE  /\ current_byte(l, sub, offset) \in Byte /\ current_byte(r, sub, offset) \in Byte
         /\ current_byte(l, sub, offset) < current_byte(r, sub, offset) =>
              ~LowLess(r, l, sub, w + 1)
         /\ current_byte(l, sub, offset) = current_byte(r, sub, offset) =>
              (LowLess(r, l, sub, w + 1) <=> LowLess(r, l, sub, w))
<1> DEFINE x == U(l, sub)
           y == U(r, sub)
<1>1. shape[sub].bytes - 1 - offset = w
  BY ShapeSubKeys
<1>2. x \in Nat /\ y \in Nat
  BY UVal
<1>3. current_byte(l, sub, offset) = Digit(x, w) /\ current_byte(r, sub, offset) = Digit(y, w)
  BY <1>1 DEF current_byte, Digit, U
<1>4. PICK P, d, e, a, b : /\ P = Power[w] /\ d = Digit(x, w) /\ e = Digit(y, w)
                           /\ a = x % Power[w] /\ b = y % Power[w]
  OBVIOUS
<1> HIDE DEF x, y
<1>5. /\ d \in Byte /\ e \in Byte /\ a \in 0 .. P - 1 /\ b \in 0 .. P - 1
      /\ x % Power[w + 1] = P * d + a /\ y % Power[w + 1] = P * e + b
  BY <1>2, <1>4, DigitSplits
<1>6. P \in Nat \ {0} /\ d \in Nat /\ e \in Nat
  BY <1>4, <1>5, Powers, SkaSortAssumption DEF Byte
<1>7. ASSUME d < e PROVE P * d + a < P * e + b
  <2>1. PICK k \in Nat : e = d + 1 + k
    <3>1. e - d - 1 \in Nat /\ e = d + 1 + (e - d - 1)
      BY <1>6, <1>7
    <3> QED BY <3>1
  <2>2. P * e = P * d + P + P * k /\ P * k \in Nat /\ P * d \in Nat
    BY <1>6, <2>1
  <2> QED BY <1>5, <1>6, <2>2
<1>8. P * d \in Nat /\ P * e \in Nat
  BY <1>6
<1>9. ASSUME d < e PROVE ~LowLess(r, l, sub, w + 1)
  <2>1. x % Power[w + 1] < y % Power[w + 1] /\ x % Power[w + 1] \in Nat /\ y % Power[w + 1] \in Nat
    BY <1>5, <1>6, <1>7, <1>8, <1>9
  <2>2. ~(y % Power[w + 1] < x % Power[w + 1]) /\ ~(y % Power[w + 1] = x % Power[w + 1])
    BY <2>1
  <2> QED BY <2>2 DEF LowLess, x, y
<1>10. ASSUME d = e PROVE LowLess(r, l, sub, w + 1) <=> LowLess(r, l, sub, w)
  <2>1. /\ y % Power[w + 1] < x % Power[w + 1] <=> b < a
        /\ y % Power[w + 1] = x % Power[w + 1] <=> b = a
    BY <1>5, <1>6, <1>8, <1>10
  <2> QED BY <1>4, <2>1 DEF LowLess, x, y
<1> QED BY <1>3, <1>4, <1>5, <1>9, <1>10

\* Where the elements are, how many bytes of the sub key are sorted, and the
\* order that they have: result and buffer agree after each sub key.
CopyCur == IF pass.at = 1 THEN data ELSE buffer
LowBytes == shape[pass.sub].bytes - 1 - pass.offset

CopyOK ==
  /\ ConfOK /\ frames = << >>
  /\ DOMAIN pass = {"kind", "sub", "offset", "at"}
  /\ pass.sub \in DOMAIN shape
  /\ pass.offset \in 0 .. shape[pass.sub].bytes - 1
  /\ pass.at \in {1, 2} /\ which \in BOOLEAN
  /\ pass.at = 1 <=> (which = (LowBytes % 2 = 1))
  /\ Perm(CopyCur)
  /\ \A i, j \in Pos : i < j => ~LowLess(CopyCur[j], CopyCur[i], pass.sub, LowBytes)

\* What ska_sort_copy() leaves.
Result == IF which THEN buffer ELSE data
Finished ==
  /\ ConfOK /\ frames = << >> /\ Perm(Result)
  /\ \A i, j \in Pos : i < j => ~Below(Result[j], Result[i])

\* A permutation of a permutation of the input.
LEMMA PermOfPerm ==
  ASSUME ConfOK, NEW s, Perm(s), NEW r \in Bijection(Pos, Pos)
  PROVE  Perm([p \in Pos |-> s[r[p]]])
<1>1. PICK p \in Bijection(Pos, Pos) : s = [i \in Pos |-> input[p[i]]]
  BY DEF Perm
<1>2. PICK q : q = [i \in Pos |-> p[r[i]]]
  OBVIOUS
<1>3. q \in Bijection(Pos, Pos) /\ r \in [Pos -> Pos]
  BY <1>2, BijectionsCompose, BijectionIs
<1>4. [i \in Pos |-> s[r[i]]] = [i \in Pos |-> input[q[i]]]
  BY <1>1, <1>2, <1>3
<1> QED BY <1>3, <1>4 DEF Perm

\* Sorting by one byte more.
LEMMA ByteSortedKeeps ==
  ASSUME CopyOK, NEW t, t = ByteSorted(CopyCur, pass.sub, pass.offset)
  PROVE  /\ Perm(t)
         /\ \A i, j \in Pos : i < j => ~LowLess(t[j], t[i], pass.sub, LowBytes + 1)
<1>1. PICK s, n, sub, offset, w : /\ s = CopyCur /\ n = Len(input) /\ sub = pass.sub
                                  /\ offset = pass.offset /\ w = LowBytes
  OBVIOUS
<1>2. ConfOK /\ ShapeOK /\ Perm(s) /\ n \in Nat /\ Pos = 1 .. n
  BY <1>1 DEF CopyOK, ConfOK, Pos
<1>3. DOMAIN s = 1 .. n /\ \A i \in 1 .. n : Valid(s[i])
  BY <1>2, PermIs
<1>4. /\ sub \in DOMAIN shape /\ shape[sub].bytes \in {1, 2, 4, 8}
      /\ offset \in 0 .. shape[sub].bytes - 1
      /\ w = shape[sub].bytes - 1 - offset
  BY <1>1, <1>2, ShapeSubKeys DEF CopyOK, LowBytes
<1>5. w \in Nat /\ offset = shape[sub].bytes - 1 - w
  BY <1>4
<1>6. PICK key : key = [i \in 1 .. n |-> current_byte(s[i], sub, offset)]
  OBVIOUS
<1>7. ASSUME NEW i \in 1 .. n, NEW j \in 1 .. n
      PROVE  /\ key[i] \in Int /\ key[j] \in Int
             /\ key[i] < key[j] => ~LowLess(s[j], s[i], sub, w + 1)
             /\ key[i] = key[j] =>
                  (LowLess(s[j], s[i], sub, w + 1) <=> LowLess(s[j], s[i], sub, w))
  <2>1. /\ key[i] = current_byte(s[i], sub, offset) /\ key[j] = current_byte(s[j], sub, offset)
        /\ Valid(s[i]) /\ Valid(s[j])
    BY <1>3, <1>6
  <2>2. /\ key[i] \in Byte /\ key[j] \in Byte
        /\ key[i] < key[j] => ~LowLess(s[j], s[i], sub, w + 1)
        /\ key[i] = key[j] =>
             (LowLess(s[j], s[i], sub, w + 1) <=> LowLess(s[j], s[i], sub, w))
    BY <1>2, <1>4, <1>5, <2>1, LowStep
  <2> QED BY <2>2, SkaSortAssumption DEF Byte
<1>8. t = counting_sort_impl(s, key)
  BY <1>1, <1>3, <1>6 DEF ByteSorted
<1>9. \A i \in 1 .. n : key[i] \in Int
  BY <1>7
<1>10. PICK r \in Bijection(1 .. n, 1 .. n) :
         /\ t = [p \in 1 .. n |-> s[r[p]]]
         /\ \A p, q \in 1 .. n : p < q =>
              \/ key[r[p]] < key[r[q]]
              \/ key[r[p]] = key[r[q]] /\ r[p] < r[q]
  <2>1. n \in Nat /\ DOMAIN s = 1 .. n
    BY <1>2, <1>3
  <2>2. Stably(counting_sort_impl(s, key), s, key, n)
    BY <1>9, <2>1, CountingSort
  <2> QED BY <1>8, <2>2 DEF Stably
<1>11. t = [p \in Pos |-> s[r[p]]] /\ r \in Bijection(Pos, Pos)
  <2>1. Pos = 1 .. n
    BY <1>2
  <2>2. r \in Bijection(Pos, Pos)
    BY <2>1
  <2>3. [p \in Pos |-> s[r[p]]] = [p \in 1 .. n |-> s[r[p]]]
    BY <2>1
  <2> QED BY <1>10, <2>2, <2>3
<1>12. Perm(t)
  BY <1>2, <1>11, PermOfPerm
<1>13. ASSUME NEW i \in Pos, NEW j \in Pos, i < j
       PROVE  ~LowLess(t[j], t[i], sub, w + 1)
  <2>1. PICK a, b : a = r[i] /\ b = r[j]
    OBVIOUS
  <2>2. a \in Pos /\ b \in Pos /\ t[i] = s[a] /\ t[j] = s[b]
    BY <1>11, <2>1, BijectionIs
  <2>3. key[a] < key[b] \/ (key[a] = key[b] /\ a < b)
    BY <1>2, <1>10, <1>13, <2>1
  <2>4. a < b => ~LowLess(s[b], s[a], sub, w)
    BY <1>1, <2>2 DEF CopyOK
  <2> QED BY <1>2, <1>7, <2>2, <2>3, <2>4
<1> QED BY <1>1, <1>12, <1>13

\* A step that keeps the configuration keeps the order by low bytes.
LEMMA SameLow ==
  ASSUME UNCHANGED config
  PROVE  \A l, r, sub, w : LowLess(l, r, sub, w)' <=> LowLess(l, r, sub, w)
<1>1. shape' = shape
  BY SameConf
<1> QED BY <1>1 DEF LowLess, After, U, Half, Full, to_unsigned_or_bool

\* A pass over one byte from one buffer to the other.
LEMMA CopyPassKeeps ==
  ASSUME CopyOK, CopyPass
  PROVE  \/ pass'.kind = "copy" /\ CopyOK'
         \/ pass'.kind = "none" /\ Finished'
<1>1. PICK t, sub, offset, w, B : /\ t = ByteSorted(CopyCur, pass.sub, pass.offset)
                                  /\ sub = pass.sub /\ offset = pass.offset /\ w = LowBytes
                                  /\ B = shape[sub].bytes
  OBVIOUS
<1>2. /\ ConfOK /\ ShapeOK /\ frames = << >> /\ pass.at \in {1, 2} /\ which \in BOOLEAN
      /\ sub \in DOMAIN shape /\ offset \in 0 .. B - 1
      /\ w = B - 1 - offset
      /\ pass.at = 1 <=> (which = (w % 2 = 1))
      /\ DOMAIN pass = {"kind", "sub", "offset", "at"}
  BY <1>1 DEF CopyOK, ConfOK, LowBytes
<1>3. /\ Len(shape) \in Nat /\ DOMAIN shape = 1 .. Len(shape)
      /\ \A s \in DOMAIN shape : shape[s].bytes \in {1, 2, 4, 8}
  BY <1>2, ShapeSubKeys
<1>4. B \in {1, 2, 4, 8} /\ offset \in Nat /\ w \in Nat
  BY <1>1, <1>2, <1>3
<1>5. /\ Perm(t)
      /\ \A i, j \in Pos : i < j => ~LowLess(t[j], t[i], sub, w + 1)
  BY <1>1, ByteSortedKeeps
<1>6. /\ pass.at = 1 => buffer' = t /\ data' = data
      /\ pass.at # 1 => data' = t /\ buffer' = buffer
      /\ which' = (IF offset = 0 THEN FlippedResult(which, B) ELSE which)
      /\ pass' = PassAfter(pass)
      /\ UNCHANGED config /\ frames' = frames /\ pass.kind = "copy"
  BY <1>1 DEF CopyPass, CopyCur
<1>7. /\ ConfOK' /\ frames' = << >> /\ shape' = shape /\ Pos' = Pos
      /\ Perm(t)'
      /\ \A l, r : Below(l, r)' <=> Below(l, r)
  <2>1. /\ ConfOK' /\ shape' = shape /\ Pos' = Pos /\ input' = input
        /\ \A l, r : Below(l, r)' <=> Below(l, r)
    BY <1>2, <1>6, SameConf
  <2>2. Perm(t)'
    BY <1>5, <2>1 DEF Perm
  <2> QED BY <1>2, <1>6, <2>1, <2>2
<1>8. CASE offset > 0
  <2>1. pass' = [pass EXCEPT !.offset = offset - 1, !.at = 3 - pass.at]
    BY <1>1, <1>2, <1>6, <1>8 DEF PassAfter
  <2>2. /\ DOMAIN pass' = {"kind", "sub", "offset", "at"} /\ pass'.kind = "copy"
        /\ pass'.sub = sub /\ pass'.offset = offset - 1 /\ pass'.at = 3 - pass.at
    BY <1>1, <1>2, <1>6, <2>1
  <2>3. CopyCur' = t
    BY <1>2, <1>6, <2>2 DEF CopyCur
  <2>4. LowBytes' = w + 1
    BY <1>1, <1>2, <1>4, <1>7, <2>2 DEF LowBytes
  <2>5. which' = which
    BY <1>4, <1>6, <1>8
  <2>6. pass'.at \in {1, 2} /\ (pass'.at = 1 <=> pass.at # 1)
    BY <1>2, <2>2
  <2>7. (w + 1) % 2 = 1 <=> w % 2 # 1
    BY <1>4
  <2>8. pass'.at = 1 <=> (which = ((w + 1) % 2 = 1))
    BY <1>2, <2>6, <2>7
  <2>9. offset - 1 \in 0 .. B - 1
    BY <1>2, <1>4, <1>8
  <2>10. \A i, j \in Pos : i < j => ~LowLess(t[j], t[i], sub, w + 1)'
    BY <1>5, <1>6, SameLow
  <2> QED
    BY <1>1, <1>2, <1>7, <2>2, <2>3, <2>4, <2>5, <2>6, <2>8, <2>9, <2>10 DEF CopyOK
<1>9. CASE offset = 0
  <2>1. w = B - 1 /\ w + 1 = B
    BY <1>2, <1>4, <1>9
  <2>2. \A i, j \in Pos : i < j => ~After(t[j], t[i], sub - 1)
    <3> TAKE i, j \in Pos
    <3>1. Valid(t[i]) /\ Valid(t[j])
      BY <1>2, <1>5, PermIs
    <3> QED BY <1>1, <1>2, <1>5, <2>1, <3>1, LowEnds
  <2>3. which' \in BOOLEAN /\ (pass.at = 1 <=> which' = TRUE)
    <3>1. CASE B = 1
      <4>1. which' = ~which /\ w = 0
        BY <1>6, <1>9, <2>1, <3>1 DEF FlippedResult
      <4>2. pass.at = 1 <=> which = FALSE
        BY <1>2, <4>1
      <4> QED BY <1>2, <4>1, <4>2
    <3>2. CASE B # 1
      <4>1. which' = which
        BY <1>6, <1>9, <3>2 DEF FlippedResult
      <4>2. w % 2 = 1
        BY <1>4, <2>1, <3>2
      <4> QED BY <1>2, <4>1, <4>2
    <3> QED BY <3>1, <3>2
  <2>4. CASE sub > 1
    <3>1. pass' = [pass EXCEPT !.sub = sub - 1, !.at = 3 - pass.at,
                               !.offset = shape[sub - 1].bytes - 1]
      BY <1>1, <1>4, <1>6, <1>9, <2>4 DEF PassAfter
    <3>2. /\ DOMAIN pass' = {"kind", "sub", "offset", "at"} /\ pass'.kind = "copy"
          /\ pass'.sub = sub - 1 /\ pass'.offset = shape[sub - 1].bytes - 1
          /\ pass'.at = 3 - pass.at
      BY <1>1, <1>2, <1>6, <3>1
    <3>3. CopyCur' = t
      BY <1>2, <1>6, <3>2 DEF CopyCur
    <3>4. sub - 1 \in DOMAIN shape /\ shape[sub - 1].bytes \in {1, 2, 4, 8}
      BY <1>2, <1>3, <2>4
    <3>5. LowBytes' = 0
      BY <1>7, <3>2, <3>4 DEF LowBytes
    <3>6. pass'.at \in {1, 2} /\ (pass'.at = 1 <=> which' = FALSE)
      BY <1>2, <2>3, <3>2
    <3>7. pass'.at = 1 <=> (which' = (0 % 2 = 1))
      BY <2>3, <3>6
    <3>8. ASSUME NEW i \in Pos, NEW j \in Pos, i < j
          PROVE  ~LowLess(t[j], t[i], sub - 1, 0)'
      <4>1. Valid(t[i]) /\ Valid(t[j])
        BY <1>2, <1>5, PermIs
      <4>2. ~LowLess(t[j], t[i], sub - 1, 0)
        BY <1>2, <2>2, <3>4, <3>8, <4>1, LowEnds
      <4> QED BY <1>6, <4>2, SameLow
    <3>9. pass'.offset \in 0 .. shape[sub - 1].bytes - 1
      BY <3>2, <3>4
    <3> QED
      BY <1>7, <2>3, <3>2, <3>3, <3>4, <3>5, <3>6, <3>7, <3>8, <3>9 DEF CopyOK
  <2>5. CASE ~(sub > 1)
    <3>1. sub = 1
      BY <1>2, <1>3, <2>5
    <3>2. pass' = [kind |-> "none"]
      BY <1>1, <1>4, <1>6, <1>9, <3>1 DEF PassAfter
    <3>3. Result' = t
      BY <1>2, <1>6, <2>3 DEF Result
    <3>4. ASSUME NEW i \in Pos, NEW j \in Pos, i < j
          PROVE  ~Below(t[j], t[i])'
      <4>1. ~After(t[j], t[i], 0)
        BY <2>2, <3>1, <3>4
      <4>2. Valid(t[j]) /\ Valid(t[i])
        BY <1>2, <1>5, <3>4, PermIs
      <4>3. ~Below(t[j], t[i])
        BY <1>2, <4>1, <4>2, AfterEnds, BelowIsRadixLess
      <4> QED BY <1>7, <4>3
    <3>5. pass'.kind = "none"
      BY <3>2
    <3> QED BY <1>7, <3>3, <3>4, <3>5 DEF Finished
  <2> QED BY <2>4, <2>5
<1> QED BY <1>4, <1>8, <1>9

----------------------------------------------------------------------------
(* The whole call.                                                         *)

\* The inductive invariant: before the call, sorting by copying, its result, in
\* place between two passes, in place during a pass.
Inv ==
  \/ pass.kind = "call" /\ ConfOK /\ frames = << >> /\ which = FALSE /\ Perm(data)
  \/ pass.kind = "copy" /\ CopyOK
  \/ pass.kind = "none" /\ Finished
  \/ pass.kind = "none" /\ InPlaceInv
  \/ PassInv

\* A call begins with the elements in their first order.
LEMMA InitInv ==
  ASSUME Init
  PROVE  Inv
<1>1. PICK c \in Cases, n \in 0 .. MaxLen : shape = c.shape /\ input \in [1 .. n -> c.elements]
  BY DEF Init
<1>2. /\ c.shape \in Seq(SubKeyType) /\ c.shape # << >> /\ n \in Nat
      /\ \A e \in c.elements :
           /\ DOMAIN e = DOMAIN c.shape
           /\ \A s \in DOMAIN c.shape : e[s] \in Bits(c.shape[s])
  BY SkaSortAssumption
<1>3. ShapeOK
  BY <1>1, <1>2 DEF ShapeOK
<1>4. Len(input) = n /\ DOMAIN input = 1 .. n /\ Pos = 1 .. n
  <2>1. Len(input) = n /\ DOMAIN input = 1 .. n
    BY <1>1, <1>2
  <2> QED BY <2>1 DEF Pos
<1>5. \A i \in Pos : Valid(input[i])
  <2> TAKE i \in Pos
  <2>1. input[i] \in c.elements
    BY <1>1, <1>4
  <2> QED BY <1>1, <1>2, <2>1 DEF Valid
<1>6. StdSortThreshold \in Nat /\ StdSortThreshold >= 2
  <2>1. threshold \in Thresholds
    BY DEF Init
  <2>2. threshold \in Nat \X Nat /\ threshold[1] >= 2
    BY <2>1, SkaSortAssumption
  <2> QED BY <2>2 DEF StdSortThreshold
<1>7. ConfOK
  BY <1>2, <1>3, <1>4, <1>5, <1>6 DEF ConfOK
<1>8. PICK q : q = [i \in Pos |-> i]
  OBVIOUS
<1>9. q \in Bijection(Pos, Pos)
  <2>1. /\ q \in [Pos -> Pos] /\ \A i, j \in Pos : q[i] = q[j] => i = j
        /\ \A j \in Pos : \E i \in Pos : q[i] = j
    BY <1>8
  <2> QED BY <2>1, BijectionIs
<1>10. input = [i \in Pos |-> input[q[i]]]
  <2>1. input = [i \in Pos |-> input[i]]
    BY <1>1, <1>4
  <2>2. \A i \in Pos : q[i] = i
    BY <1>8
  <2> QED BY <2>1, <2>2
<1>11. Perm(input)
  BY <1>9, <1>10 DEF Perm
<1>12. /\ data = input /\ frames = << >> /\ which = FALSE /\ pass.kind = "call"
  BY DEF Init
<1> QED BY <1>7, <1>11, <1>12 DEF Inv

\* ska_sort_copy() begins with the last byte.
LEMMA CallCopyKeeps ==
  ASSUME pass.kind = "call", ConfOK, frames = << >>, which = FALSE, Perm(data), CallCopy
  PROVE  pass'.kind = "copy" /\ CopyOK'
<1>1. /\ pass' = [kind |-> "copy", sub |-> Len(shape), offset |-> Last(shape).bytes - 1, at |-> 1]
      /\ UNCHANGED config /\ data' = data /\ which' = which /\ frames' = frames
  BY DEF CallCopy
<1>2. /\ pass'.kind = "copy" /\ pass'.sub = Len(shape) /\ pass'.at = 1
      /\ pass'.offset = shape[Len(shape)].bytes - 1
      /\ DOMAIN pass' = {"kind", "sub", "offset", "at"}
  BY <1>1 DEF Last
<1>3. ShapeOK
  BY DEF ConfOK
<1>4. Len(shape) \in DOMAIN shape /\ shape[Len(shape)].bytes \in {1, 2, 4, 8}
  BY <1>3, ShapeSubKeys
<1>5. ConfOK' /\ shape' = shape /\ Pos' = Pos /\ input' = input
  BY <1>1, SameConf
<1>6. CopyCur' = data /\ LowBytes' = 0
  BY <1>1, <1>2, <1>4, <1>5 DEF CopyCur, LowBytes
<1>7. Perm(data)'
  BY <1>1, <1>5 DEF Perm
<1>8. PICK t, m : t = data /\ m = Len(shape)
  OBVIOUS
<1>9. CopyCur' = t /\ pass'.sub = m
  BY <1>2, <1>6, <1>8
<1>10. ASSUME NEW i \in Pos, NEW j \in Pos PROVE ~LowLess(t[j], t[i], m, 0)'
  <2>1. Valid(t[i]) /\ Valid(t[j])
    BY <1>8, PermIs
  <2>2. ~LowLess(t[j], t[i], m, 0)
    BY <1>3, <1>4, <1>8, <2>1, LowEnds, AfterEnds
  <2> QED BY <1>1, <2>2, SameLow
<1>11. Perm(t)'
  BY <1>1, <1>7, <1>8
<1>12. /\ pass'.sub \in DOMAIN shape' /\ pass'.offset \in 0 .. shape'[pass'.sub].bytes - 1
  <2>1. pass'.offset \in 0 .. shape[Len(shape)].bytes - 1
    BY <1>2, <1>4
  <2> QED BY <1>2, <1>4, <1>5, <2>1
<1>13. pass'.at = 1 <=> (which' = (LowBytes' % 2 = 1))
  <2>1. (0 % 2 = 1) = FALSE
    OBVIOUS
  <2>2. pass'.at = 1 /\ which' = FALSE
    BY <1>1, <1>2
  <2> QED BY <1>6, <2>1, <2>2
<1>14. which' \in BOOLEAN /\ frames' = << >>
  BY <1>1
<1>15. \A i, j \in Pos' : i < j => ~LowLess(t[j], t[i], m, 0)'
  BY <1>5, <1>10
<1> QED
  BY <1>2, <1>5, <1>6, <1>9, <1>11, <1>12, <1>13, <1>14, <1>15 DEF CopyOK

\* ska_sort() begins with one call for all elements.
LEMMA CallInPlaceKeeps ==
  ASSUME pass.kind = "call", ConfOK, frames = << >>, which = FALSE, Perm(data), CallInPlace
  PROVE  pass'.kind = "none" /\ InPlaceInv'
<1>1. PICK f : f = Frame(0, Len(data), 1, 0)
  OBVIOUS
<1>2. /\ frames' = <<f>> /\ pass'.kind = "none"
      /\ UNCHANGED config /\ data' = data /\ which' = which
  BY <1>1 DEF CallInPlace
<1>3. /\ Len(data) = Len(input) /\ Len(input) \in Nat /\ ShapeOK
      /\ \A i \in Pos : Valid(data[i])
  BY PermIs DEF ConfOK
<1>4. /\ f.begin = 0 /\ f.end = Len(input) /\ f.sub = 1 /\ f.offset = 0 /\ f \in Frames
  BY <1>1, <1>3 DEF Frame, Frames
<1>5. Window(f) = Pos
  BY <1>3, <1>4 DEF Window, Pos
<1>6. 1 \in DOMAIN shape /\ shape[1].bytes \in {1, 2, 4, 8}
  BY <1>3, ShapeSubKeys
<1>7. ASSUME NEW i \in Pos, NEW j \in Pos PROVE Agree(data[i], data[j], 1, 0)
  <2>1. \A s \in 1 .. 1 - 1 : Val(data[i], s) = Val(data[j], s)
    OBVIOUS
  <2> QED BY <1>3, <1>6, <2>1, AgreeFirst
<1>8. FrameOK(f)
  BY <1>3, <1>4, <1>5, <1>6, <1>7 DEF FrameOK
<1>9. FrameOK(f)'
  BY <1>2, <1>8, SameConf DEF FrameOK, Window
<1>10. frames' \in Seq(Frames) /\ DOMAIN frames' = {1} /\ frames'[1] = f
  BY <1>2, <1>4
<1>11. FramesOK'
  BY <1>9, <1>10 DEF FramesOK
<1>12. Ordered(data)'
  <2>1. \A i, j \in Pos' : Together(i, j)'
    BY <1>2, <1>5, <1>10, SameConf DEF Together, Window
  <2> QED BY <2>1 DEF Ordered
<1>13. Perm(data)' /\ ConfOK'
  BY <1>2, SameConf DEF Perm
<1> QED BY <1>2, <1>11, <1>12, <1>13 DEF InPlaceInv

\* In place, nothing changes when no variable of the sort does.
LEMMA InPlaceStays ==
  ASSUME InPlaceInv, UNCHANGED <<config, data, which, frames>>
  PROVE  InPlaceInv'
<1>1. UNCHANGED config /\ data' = data /\ which' = which /\ frames' = frames
  OBVIOUS
<1>2. ConfOK' /\ Pos' = Pos /\ input' = input /\ shape' = shape
  BY <1>1, SameConf DEF InPlaceInv
<1> QED
  BY <1>1, <1>2, SameConf
  DEF InPlaceInv, FramesOK, Ordered, Perm, FrameOK, Together, Window, Apart

\* Nor is a pass disturbed.
LEMMA PassRests ==
  ASSUME PassInv, UNCHANGED vars
  PROVE  PassInv'
<1>1. /\ UNCHANGED <<config, data, which, frames>> /\ pass' = pass
      /\ shape' = shape /\ Byte' = Byte
  BY DEF vars, config, Byte
<1>2. InPlaceInv /\ PassOK
  BY DEF PassInv
<1>3. Partitions'
  <2>1. Partitions
    BY <1>2 DEF PassOK
  <2> QED BY <1>1, <2>1 DEF Partitions, Start
<1>4. DOMAIN pass' = PassFields
  BY <1>1, <1>2 DEF PassOK
<1>5. /\ InPlaceInv' /\ PassOK' /\ Bytes' = Bytes
      /\ \A b : Start(b)' = Start(b) /\ Block(b)' = Block(b)
      /\ \A b : Complete(b)' <=> Complete(b)
  <2>1. pass'.offset = pass.offset /\ pass'.next_offset = pass.next_offset
    BY <1>1
  <2> QED BY <1>1, <1>2, <1>3, <1>4, <2>1, PassStays
<1>6. CASE pass.kind = "american" /\ AmericanOK
  <2>1. AmericanOK'
    BY <1>1, <1>5, <1>6 DEF AmericanOK
  <2> QED BY <1>1, <1>5, <1>6, <2>1 DEF PassInv
<1>7. CASE SkaOK /\ (pass.kind = "ska" \/ (pass.kind = "sweep" /\ SweepOK))
  <2>1. SkaOK' /\ (SweepOK' <=> SweepOK)
    BY <1>1, <1>7 DEF SkaOK, SweepOK
  <2> QED BY <1>1, <1>5, <1>7, <2>1 DEF PassInv
<1>8. CASE pass.kind = "recurse" /\ \A b \in Byte : Complete(b)
  <2>1. \A b \in Byte' : Complete(b)'
    BY <1>1, <1>5, <1>8
  <2> QED BY <1>1, <1>5, <1>8, <2>1 DEF PassInv
<1> QED BY <1>6, <1>7, <1>8 DEF PassInv

\* Stuttering: the invariant speaks of the variables only.
LEMMA InvRests ==
  ASSUME Inv, UNCHANGED vars
  PROVE  Inv'
<1>1. /\ UNCHANGED config /\ UNCHANGED <<config, data, which, frames>>
      /\ data' = data /\ buffer' = buffer /\ which' = which
      /\ frames' = frames /\ pass' = pass
  BY DEF vars, config
<1>2. /\ Pos' = Pos /\ ConfOK' = ConfOK /\ input' = input /\ shape' = shape
      /\ \A l, r : Below(l, r)' <=> Below(l, r)
  BY <1>1, SameConf
<1>3. \A s : Perm(s)' <=> Perm(s)
  BY <1>2 DEF Perm
<1>4. CASE pass.kind = "call" /\ ConfOK /\ frames = << >> /\ which = FALSE /\ Perm(data)
  <2>1. Perm(data)'
    BY <1>1, <1>2, <1>4 DEF Perm
  <2> QED BY <1>1, <1>2, <1>4, <2>1 DEF Inv
<1>5. CASE pass.kind = "copy" /\ CopyOK
  <2>1. PICK t, m, w : t = CopyCur /\ m = pass.sub /\ w = LowBytes
    OBVIOUS
  <2>2. CopyCur' = t /\ pass'.sub = m /\ LowBytes' = w
    BY <1>1, <1>2, <2>1 DEF CopyCur, LowBytes
  <2>3. Perm(t)'
    BY <1>3, <1>5, <2>1 DEF CopyOK
  <2>4. \A i, j \in Pos' : i < j => ~LowLess(t[j], t[i], m, w)'
    <3>1. \A i, j \in Pos : i < j => ~LowLess(t[j], t[i], m, w)
      BY <1>5, <2>1 DEF CopyOK
    <3> QED BY <1>1, <1>2, <3>1, SameLow
  <2>5. /\ ConfOK' /\ frames' = << >> /\ DOMAIN pass' = {"kind", "sub", "offset", "at"}
        /\ pass'.sub \in DOMAIN shape' /\ pass'.offset \in 0 .. shape'[pass'.sub].bytes - 1
        /\ pass'.at \in {1, 2} /\ which' \in BOOLEAN
    BY <1>1, <1>2, <1>5 DEF CopyOK
  <2>6. pass'.at = 1 <=> (which' = (LowBytes' % 2 = 1))
    <3>1. pass.at = 1 <=> (which = (LowBytes % 2 = 1))
      BY <1>5 DEF CopyOK
    <3>2. pass'.at = pass.at /\ LowBytes' = LowBytes /\ which' = which
      BY <1>1, <2>1, <2>2
    <3> QED BY <3>1, <3>2
  <2>7. CopyOK'
    BY <2>2, <2>3, <2>4, <2>5, <2>6 DEF CopyOK
  <2> QED BY <1>1, <1>5, <2>7 DEF Inv
<1>6. CASE pass.kind = "none" /\ Finished
  <2>1. PICK t : t = Result
    OBVIOUS
  <2>2. Result' = t
    BY <1>1, <2>1 DEF Result
  <2>3. Perm(t)'
    BY <1>3, <1>6, <2>1 DEF Finished
  <2>4. \A i, j \in Pos' : i < j => ~Below(t[j], t[i])'
    BY <1>2, <1>6, <2>1 DEF Finished
  <2>5. Finished'
    BY <1>1, <1>2, <1>6, <2>2, <2>3, <2>4 DEF Finished
  <2> QED BY <1>1, <1>6, <2>5 DEF Inv
<1>7. CASE pass.kind = "none" /\ InPlaceInv
  <2>1. InPlaceInv'
    BY <1>1, <1>7, InPlaceStays
  <2> QED BY <1>1, <1>7, <2>1 DEF Inv
<1>8. CASE PassInv
  BY <1>8, PassRests DEF Inv
<1> QED BY <1>4, <1>5, <1>6, <1>7, <1>8 DEF Inv

\* Every step keeps the invariant.
LEMMA NextInv ==
  ASSUME Inv, [Next]_vars
  PROVE  Inv'
<1>1. CASE CallCopy
  <2>1. pass.kind = "call"
    BY <1>1 DEF CallCopy
  <2>2. ConfOK /\ frames = << >> /\ which = FALSE /\ Perm(data)
    BY <2>1 DEF Inv, PassInv
  <2> QED BY <1>1, <2>1, <2>2, CallCopyKeeps DEF Inv
<1>2. CASE CallInPlace
  <2>1. pass.kind = "call"
    BY <1>2 DEF CallInPlace
  <2>2. ConfOK /\ frames = << >> /\ which = FALSE /\ Perm(data)
    BY <2>1 DEF Inv, PassInv
  <2> QED BY <1>2, <2>1, <2>2, CallInPlaceKeeps DEF Inv
<1>3. CASE CopyPass
  <2>1. pass.kind = "copy"
    BY <1>3 DEF CopyPass
  <2>2. CopyOK
    BY <2>1 DEF Inv, PassInv
  <2> QED BY <1>3, <2>2, CopyPassKeeps DEF Inv
<1>4. ASSUME pass.kind = "none", frames # << >> PROVE InPlaceInv
  BY <1>4 DEF Inv, PassInv, Finished
<1>5. CASE SortSmall
  <2>1. pass.kind = "none" /\ frames # << >> /\ pass' = pass
    BY <1>5 DEF SortSmall, Small
  <2> QED BY <1>4, <1>5, <2>1, SortSmallKeeps DEF Inv
<1>6. CASE NextSubKey
  <2>1. pass.kind = "none" /\ frames # << >> /\ pass' = pass
    BY <1>6 DEF NextSubKey, Large
  <2> QED BY <1>4, <1>6, <2>1, NextSubKeyKeeps DEF Inv
<1>7. CASE PartitionBool
  <2>1. pass.kind = "none" /\ frames # << >> /\ pass' = pass
    BY <1>7 DEF PartitionBool, Large
  <2> QED BY <1>4, <1>7, <2>1, PartitionBoolKeeps DEF Inv
<1>8. CASE BeginPass
  <2>1. pass.kind = "none" /\ frames # << >>
    BY <1>8 DEF BeginPass, Large
  <2> QED BY <1>4, <1>8, <2>1, BeginPassKeeps DEF Inv
<1>9. ASSUME pass.kind \in {"american", "ska", "sweep", "recurse"} PROVE PassInv
  BY <1>9 DEF Inv
<1>10. CASE InPlace
  <2>1. pass.kind = "american"
    BY <1>10 DEF InPlace
  <2> QED BY <1>9, <1>10, <2>1, InPlaceKeeps DEF Inv
<1>11. CASE SwapToBlock
  <2>1. pass.kind = "american"
    BY <1>11 DEF SwapToBlock
  <2> QED BY <1>9, <1>11, <2>1, SwapToBlockKeeps DEF Inv
<1>12. CASE Visit
  <2>1. pass.kind = "ska"
    BY <1>12 DEF Visit
  <2> QED BY <1>9, <1>12, <2>1, VisitKeeps DEF Inv
<1>13. CASE Sweep
  <2>1. pass.kind = "sweep"
    BY <1>13 DEF Sweep
  <2> QED BY <1>9, <1>13, <2>1, SweepKeeps DEF Inv
<1>14. CASE Visited
  <2>1. pass.kind = "sweep"
    BY <1>14 DEF Visited
  <2> QED BY <1>9, <1>14, <2>1, VisitedKeeps DEF Inv
<1>15. CASE Recurse
  <2>1. pass.kind = "recurse" /\ pass'.kind = "none"
    BY <1>15 DEF Recurse
  <2> QED BY <1>9, <1>15, <2>1, RecurseKeeps DEF Inv
<1>16. CASE UNCHANGED vars
  BY <1>16, InvRests
<1> QED
  BY <1>1, <1>2, <1>3, <1>5, <1>6, <1>7, <1>8, <1>10, <1>11, <1>12, <1>13, <1>14,
     <1>15, <1>16 DEF Next

\* The invariant holds throughout a call of ska_sort() or ska_sort_copy().
LEMMA Invariance == Spec => []Inv
<1>1. Init => Inv
  BY InitInv
<1>2. Inv /\ [Next]_vars => Inv'
  BY NextInv
<1> QED BY <1>1, <1>2, PTL DEF Spec

----------------------------------------------------------------------------
(* The theorems.                                                           *)

\* A permutation of the input has every element as often as the input.
LEMMA PermCounts ==
  ASSUME ConfOK, NEW s, Perm(s)
  PROVE  /\ DOMAIN s = DOMAIN input
         /\ \A e : Cardinality({i \in DOMAIN s : s[i] = e})
                     = Cardinality({i \in DOMAIN input : input[i] = e})
<1>1. PICK p \in Bijection(Pos, Pos) : s = [i \in Pos |-> input[p[i]]]
  BY DEF Perm
<1>2. /\ DOMAIN s = Pos /\ DOMAIN input = Pos /\ Len(input) \in Nat
      /\ p \in [Pos -> Pos]
  BY <1>1, PermIs, BijectionIs DEF ConfOK
<1>3. IsFiniteSet(Pos)
  BY <1>2, FS_Interval DEF Pos
<1>4. ASSUME NEW e
      PROVE  Cardinality({i \in DOMAIN s : s[i] = e})
               = Cardinality({i \in DOMAIN input : input[i] = e})
  <2>1. PICK A, B : A = {i \in Pos : s[i] = e} /\ B = {i \in Pos : input[i] = e}
    OBVIOUS
  <2>2. A \in SUBSET Pos /\ B \in SUBSET Pos
    BY <2>1
  <2>3. \A i \in Pos : i \in A <=> p[i] \in B
    BY <1>1, <1>2, <2>1
  <2>4. Cardinality(A) = Cardinality(B)
    BY <1>3, <2>2, <2>3, Recount
  <2> QED BY <1>2, <2>1, <2>4
<1> QED BY <1>2, <1>4

\* No element is lost or doubled: at every step the buffer that counts holds a
\* permutation of the input.
THEOREM ElementsKept == Spec => []KeepsElements
<1>1. ASSUME Inv PROVE KeepsElements
  <2>1. PICK now : now = IF pass.kind = "copy" THEN IF pass.at = 1 THEN data ELSE buffer
                         ELSE IF which THEN buffer ELSE data
    OBVIOUS
  <2>2. ConfOK /\ Perm(now)
    <3>1. CASE pass.kind = "copy" /\ CopyOK
      BY <2>1, <3>1 DEF CopyOK, CopyCur
    <3>2. CASE pass.kind = "none" /\ Finished
      BY <2>1, <3>2 DEF Finished, Result
    <3>3. CASE /\ pass.kind # "copy" /\ which = FALSE /\ ConfOK /\ Perm(data)
      BY <2>1, <3>3
    <3> QED BY <1>1, <3>1, <3>2, <3>3 DEF Inv, PassInv, InPlaceInv
  <2>3. /\ DOMAIN now = DOMAIN input
        /\ \A e : Cardinality({i \in DOMAIN now : now[i] = e})
                    = Cardinality({i \in DOMAIN input : input[i] = e})
    BY <2>2, PermCounts
  <2> QED BY <2>1, <2>3 DEF KeepsElements
<1> QED BY <1>1, Invariance, PTL

\* Behind the offset of a partition lie elements of that partition only, no
\* offset of american_flag_sort() or ska_byte_sort() passes the end of its
\* partition, and the calls that are left have ranges of their own.
THEOREM PartitionsAreRespected == Spec => []PartitionsRespected
<1>1. ASSUME Inv PROVE PartitionsRespected
  <2>1. ASSUME pass.kind \in {"american", "ska", "sweep"}, NEW b \in Range(pass.partitions)
        PROVE  LET f == Head(frames)
                   start(c) == IF c = 0 THEN 0 ELSE pass.next_offset[c - 1]
               IN /\ start(b) <= pass.offset[b] /\ pass.offset[b] <= pass.next_offset[b]
                  /\ \A i \in start(b) .. pass.offset[b] - 1 : ByteAt(f, i) = b
    <3>1. InPlaceInv /\ PassOK
      BY <1>1, <2>1 DEF Inv, PassInv
    <3>2. PICK c \in DOMAIN pass.partitions : b = pass.partitions[c]
      BY <2>1 DEF Range
    <3>3. /\ Start(b) \in Nat /\ pass.offset[b] \in Nat
          /\ pass.next_offset[b] \in Nat /\ Count \in Nat
          /\ Start(b) <= pass.offset[b] /\ pass.offset[b] <= pass.next_offset[b]
          /\ pass.next_offset[b] <= Count
          /\ \A i \in Start(b) .. pass.offset[b] - 1 : Bytes[i] = b
      BY <3>1, <3>2, PartitionIs
    <3>4. ASSUME NEW i \in Start(b) .. pass.offset[b] - 1 PROVE ByteAt(Cur, i) = b
      <4>1. i \in 0 .. Count - 1
        BY <3>3
      <4> QED BY <3>3, <4>1 DEF Bytes
    <3> QED BY <3>3, <3>4 DEF Start, Cur
  <2>2. ASSUME NEW i \in DOMAIN frames, NEW j \in DOMAIN frames, i # j
        PROVE  frames[i].end <= frames[j].begin \/ frames[j].end <= frames[i].begin
    <3>1. CASE frames = << >>
      BY <3>1
    <3>2. CASE FramesOK
      BY <2>2, <3>2 DEF FramesOK, Apart
    <3> QED BY <1>1, <3>1, <3>2 DEF Inv, PassInv, InPlaceInv, CopyOK, Finished
  <2> QED BY <2>1, <2>2 DEF PartitionsRespected
<1> QED BY <1>1, Invariance, PTL

\* When the call returns, no element has a smaller one behind it in the buffer
\* that the result names, but for negative numbers of type char or wchar_t: for
\* every shape of keys, every number of elements, both thresholds, and sorting
\* in place as well as by copying.
THEOREM ReturnsSorted == Spec => []SortedAtReturn
<1>1. ASSUME Inv PROVE SortedAtReturn
  <2>1. SUFFICES ASSUME pass.kind = "none", frames = << >>, NEW s,
                        s = IF which THEN buffer ELSE data
                 PROVE  \A i, j \in DOMAIN s : i < j => ~Below(s[j], s[i])
    BY DEF SortedAtReturn, Done, Below
  <2>2. /\ ConfOK /\ Perm(s) /\ \A i, j \in Pos : i < j => ~Below(s[j], s[i])
    <3>1. CASE Finished
      BY <2>1, <3>1 DEF Finished, Result
    <3>2. CASE InPlaceInv
      <4>1. s = data /\ ConfOK /\ Perm(data) /\ Ordered(data)
        BY <2>1, <3>2 DEF InPlaceInv
      <4>2. \A i, j \in Pos : ~Together(i, j)
        BY <2>1 DEF Together
      <4> QED BY <4>1, <4>2 DEF Ordered
    <3> QED BY <1>1, <2>1, <3>1, <3>2 DEF Inv, PassInv
  <2>3. DOMAIN s = Pos
    BY <2>2, PermIs
  <2> QED BY <2>2, <2>3
<1> QED BY <1>1, Invariance, PTL
==============================================================================
