------------------------- MODULE LocationSet_proofs -------------------------
(***************************************************************************)
(* The log keeps exactly one location per address, and finds it, for any   *)
(* set of addresses and any sequence of calls.                             *)
(***************************************************************************)
EXTENDS LocationSet, FunctionTheorems, FiniteSetTheorems, TLAPS

\* While calls are collected, map and vector are inverse to each other, and
\* the location of an address tells what was done to it.
Consistent ==
  /\ DOMAIN m_map = Logged
  /\ \A a \in Logged :
       /\ m_map[a] \in DOMAIN m_vec
       /\ m_vec[m_map[a]].addr = a
       /\ m_vec[m_map[a]].read <=> a \in rd
       /\ m_vec[m_map[a]].val = wr[a]
  /\ \A i \in DOMAIN m_vec : \E a \in Logged : i = m_map[a]

\* Once sorted, only the vector counts.
Complete ==
  /\ \A a \in Addr \ Logged : Entries(a) = {}
  /\ \A a \in Logged : \E i \in DOMAIN m_vec :
       /\ Entries(a) = {i}
       /\ m_vec[i].read <=> a \in rd
       /\ m_vec[i].val = wr[a]

IInv ==
  /\ TypeOK
  /\ phase = "undefined" => failed # "none"
  /\ phase = "open" /\ failed = "none" => Consistent
  /\ phase = "sorted" /\ failed = "none" => Complete

\* What is logged are addresses.
LEMMA LoggedType ==
  ASSUME TypeOK
  PROVE  Logged \subseteq Addr
  BY DEF TypeOK, Logged

\* A consistent pair of containers is a complete log.
LEMMA ConsistentComplete ==
  ASSUME TypeOK, Consistent
  PROVE  Complete
  <1>1. ASSUME NEW a \in Addr, NEW i \in DOMAIN m_vec
        PROVE  m_vec[i].addr = a <=> (a \in Logged /\ i = m_map[a])
    <2>1. PICK b \in Logged : i = m_map[b]
      BY DEF Consistent
    <2>2. m_vec[i].addr = b
      BY <2>1 DEF Consistent
    <2>3. a \in Logged => m_vec[m_map[a]].addr = a
      BY DEF Consistent
    <2> QED
      BY <2>1, <2>2, <2>3
  <1>2. ASSUME NEW a \in Addr \ Logged
        PROVE  Entries(a) = {}
    BY <1>1 DEF Entries
  <1>3. ASSUME NEW a \in Logged
        PROVE  \E i \in DOMAIN m_vec :
                 /\ Entries(a) = {i}
                 /\ m_vec[i].read <=> a \in rd
                 /\ m_vec[i].val = wr[a]
    <2>1. a \in Addr
      BY LoggedType
    <2>2. m_map[a] \in DOMAIN m_vec
      BY DEF Consistent
    <2>3. Entries(a) = {m_map[a]}
      BY <1>1, <2>1, <2>2 DEF Entries
    <2>4. (m_vec[m_map[a]].read <=> a \in rd) /\ m_vec[m_map[a]].val = wr[a]
      BY DEF Consistent
    <2> QED
      BY <2>2, <2>3, <2>4
  <1> QED
    BY <1>2, <1>3 DEF Complete

\* What the actions do to the vector, field by field.
LEMMA ReadField ==
  ASSUME NEW s \in Seq(Location), NEW k \in DOMAIN s, NEW r,
         r = [s EXCEPT ![k].read = TRUE]
  PROVE  /\ r \in Seq(Location)
         /\ DOMAIN r = DOMAIN s
         /\ \A i \in DOMAIN s :
              /\ r[i].addr = s[i].addr
              /\ r[i].val = s[i].val
              /\ r[i].read <=> (i = k \/ s[i].read)
  <1>1. \A i \in DOMAIN s : s[i] \in Location
    OBVIOUS
  <1>2. DOMAIN r = DOMAIN s
    OBVIOUS
  <1>3. [s[k] EXCEPT !.read = TRUE] \in Location
    BY <1>1 DEF Location
  <1>4. \A i \in DOMAIN s : r[i] = IF i = k THEN [s[k] EXCEPT !.read = TRUE] ELSE s[i]
    OBVIOUS
  <1>5. r \in Seq(Location)
    BY <1>1, <1>3
  <1>6. [s[k] EXCEPT !.read = TRUE].addr = s[k].addr
    BY <1>1 DEF Location
  <1>7. [s[k] EXCEPT !.read = TRUE].val = s[k].val
    BY <1>1 DEF Location
  <1>8. [s[k] EXCEPT !.read = TRUE].read
    BY <1>1 DEF Location
  <1> QED
    BY <1>2, <1>4, <1>5, <1>6, <1>7, <1>8

\* set() of a staged value changes that field only.
LEMMA ValField ==
  ASSUME NEW s \in Seq(Location), NEW k \in DOMAIN s, NEW v \in Val, NEW r,
         r = [s EXCEPT ![k].val = v]
  PROVE  /\ r \in Seq(Location)
         /\ DOMAIN r = DOMAIN s
         /\ \A i \in DOMAIN s :
              /\ r[i].addr = s[i].addr
              /\ r[i].val = (IF i = k THEN v ELSE s[i].val)
              /\ r[i].read <=> s[i].read
  <1>1. \A i \in DOMAIN s : s[i] \in Location
    OBVIOUS
  <1>2. DOMAIN r = DOMAIN s
    OBVIOUS
  <1>3. [s[k] EXCEPT !.val = v] \in Location
    BY <1>1 DEF Location
  <1>4. \A i \in DOMAIN s : r[i] = IF i = k THEN [s[k] EXCEPT !.val = v] ELSE s[i]
    OBVIOUS
  <1>5. r \in Seq(Location)
    BY <1>1, <1>3
  <1>6. [s[k] EXCEPT !.val = v].addr = s[k].addr
    BY <1>1 DEF Location
  <1>7. [s[k] EXCEPT !.val = v].val = v
    BY <1>1 DEF Location
  <1>8. [s[k] EXCEPT !.val = v].read <=> s[k].read
    BY <1>1 DEF Location
  <1> QED
    BY <1>2, <1>4, <1>5, <1>6, <1>7, <1>8

\* emplace_back() of a location.
LEMMA AppendFields ==
  ASSUME NEW s \in Seq(Location), NEW e \in Location
  PROVE  /\ Append(s, e) \in Seq(Location)
         /\ DOMAIN Append(s, e) = DOMAIN s \cup {Len(s) + 1}
         /\ Len(s) + 1 \notin DOMAIN s
         /\ Append(s, e)[Len(s) + 1] = e
         /\ \A i \in DOMAIN s : Append(s, e)[i] = s[i]
  OBVIOUS

\* Emplace adds one pair to the map.
LEMMA EmplaceLemma ==
  ASSUME NEW a \in Addr, ~Mapped(a)
  PROVE  /\ DOMAIN Emplace(a) = DOMAIN m_map \cup {a}
         /\ Emplace(a)[a] = Len(m_vec) + 1
         /\ \A b \in DOMAIN m_map : Emplace(a)[b] = m_map[b]
  BY DEF Emplace, MapAt, Mapped

\* The map entry of a new location has an index.
LEMMA EmplaceType ==
  ASSUME TypeOK, NEW a \in Addr, ~Mapped(a), m_map' = Emplace(a)
  PROVE  /\ DOMAIN m_map' \subseteq Addr
         /\ \A b \in DOMAIN m_map' : m_map'[b] \in Nat \ {0}
  <1>1. Len(m_vec) + 1 \in Nat \ {0}
    BY DEF TypeOK
  <1>2. DOMAIN m_map \subseteq Addr /\ \A b \in DOMAIN m_map : m_map[b] \in Nat \ {0}
    BY DEF TypeOK
  <1>3. DOMAIN Emplace(a) = DOMAIN m_map \cup {a}
    BY EmplaceLemma
  <1>4. \A b \in DOMAIN m_map' : b = a \/ b \in DOMAIN m_map
    BY <1>3
  <1>5. Emplace(a)[a] = Len(m_vec) + 1
    BY EmplaceLemma
  <1>6. \A b \in DOMAIN m_map : Emplace(a)[b] = m_map[b]
    BY EmplaceLemma
  <1> QED
    BY <1>1, <1>2, <1>4, <1>5, <1>6

\* Every action keeps the types.
LEMMA TypeInvariance ==
  ASSUME TypeOK, [Next]_vars
  PROVE  TypeOK'
  <1> USE LogAssumption
  <1>1. ASSUME NEW a \in Addr, ReadAgain(a)
        PROVE  TypeOK'
    <2>1. m_vec' \in Seq(Location)
      BY <1>1, ReadField DEF TypeOK, ReadAgain, InBounds
    <2> QED
      BY <1>1, <2>1 DEF TypeOK, ReadAgain, Call, Request
  <1>2. ASSUME NEW a \in Addr, ReadFirst(a)
        PROVE  TypeOK'
    <2>1. [addr |-> a, read |-> TRUE, val |-> NoVal] \in Location
      BY DEF Location
    <2>2. m_vec' \in Seq(Location)
      BY <1>2, <2>1 DEF TypeOK, ReadFirst
    <2>3. /\ DOMAIN m_map' \subseteq Addr
          /\ \A b \in DOMAIN m_map' : m_map'[b] \in Nat \ {0}
      BY <1>2, EmplaceType DEF ReadFirst
    <2> QED
      BY <1>2, <2>2, <2>3 DEF TypeOK, ReadFirst, Call, Request
  <1>3. ASSUME NEW a \in Addr, NEW v \in Val, WriteAgain(a, v)
        PROVE  TypeOK'
    <2>1. m_vec' \in Seq(Location)
      BY <1>3, ValField DEF TypeOK, WriteAgain, InBounds
    <2> QED
      BY <1>3, <2>1 DEF TypeOK, WriteAgain, Call, Request, Constructed
  <1>4. ASSUME NEW a \in Addr, NEW v \in Val, WriteFirst(a, v)
        PROVE  TypeOK'
    <2>1. NewEntry(a, v) \in Location
      BY DEF Location, NewEntry
    <2>2. m_vec' \in Seq(Location)
      BY <1>4, <2>1 DEF TypeOK, WriteFirst
    <2>3. /\ DOMAIN m_map' \subseteq Addr
          /\ \A b \in DOMAIN m_map' : m_map'[b] \in Nat \ {0}
      BY <1>4, EmplaceType DEF WriteFirst
    <2> QED
      BY <1>4, <2>2, <2>3 DEF TypeOK, WriteFirst, Call, Request
  <1>5. ASSUME NEW a \in Addr, InsertFails(a)
        PROVE  TypeOK'
    <2>1. /\ DOMAIN m_map' \subseteq Addr
          /\ \A b \in DOMAIN m_map' : m_map'[b] \in Nat \ {0}
      BY <1>5, EmplaceType DEF InsertFails
    <2> QED
      BY <1>5, <2>1 DEF TypeOK, InsertFails, Call, Request
  <1>6. ASSUME NEW a \in Addr, OutOfBounds(a)
        PROVE  TypeOK'
    BY <1>6 DEF TypeOK, OutOfBounds, Call, Request
  <1>10. ASSUME NEW a \in Addr, MapFails(a)
         PROVE  TypeOK'
    <2>1. /\ DOMAIN m_map' \subseteq Addr
          /\ \A b \in DOMAIN m_map' : m_map'[b] \in Nat \ {0}
      BY <1>10, EmplaceType DEF MapFails
    <2> QED
      BY <1>10, <2>1 DEF TypeOK, MapFails, Call, Request
  <1>11. CASE NoBuckets
    BY <1>11 DEF TypeOK, NoBuckets, Request
  <1>7. CASE Sort
    <2>1. PICK p \in [DOMAIN m_vec -> DOMAIN m_vec] :
            m_vec' = [i \in DOMAIN m_vec |-> m_vec[p[i]]]
      BY <1>7 DEF Sort
    <2>2. m_vec' \in Seq(Location)
      BY <2>1 DEF TypeOK
    <2> QED
      BY <1>7, <2>2 DEF TypeOK, Sort
  <1>8. CASE Clear
    <2>1. m_vec' \in Seq(Location) /\ DOMAIN m_map' = {}
      BY <1>8 DEF Clear
    <2>2. /\ objects' = 0
          /\ phase' = "open"
          /\ failed' \in {"none", "map"}
          /\ ops' = 0
          /\ rd' = {}
          /\ wr' = [a \in Addr |-> NoVal]
      BY <1>8 DEF Clear
    <2>3. wr' \in [Addr -> Val \cup {NoVal}]
      BY <2>2
    <2>4. /\ DOMAIN m_map' \subseteq Addr
          /\ \A a \in DOMAIN m_map' : m_map'[a] \in Nat \ {0}
      BY <2>1
    <2>5. objects' \in Nat /\ ops' \in 0 .. MaxOps
      BY <2>2
    <2> QED
      BY <2>1, <2>2, <2>3, <2>4, <2>5 DEF TypeOK
  <1>9. CASE UNCHANGED vars
    BY <1>9 DEF TypeOK, vars
  <1> QED
    BY <1>1, <1>2, <1>3, <1>4, <1>5, <1>6, <1>7, <1>8, <1>9, <1>10, <1>11
       DEF Next, Undefined

\* A further read or write of an address that has a location.
LEMMA AgainConsistent ==
  ASSUME TypeOK, Consistent, NEW a \in Addr,
         ReadAgain(a) \/ \E v \in Val : WriteAgain(a, v)
  PROVE  Consistent'
  <1>1. a \in Logged /\ m_map[a] \in DOMAIN m_vec /\ m_map' = m_map
    BY DEF Consistent, ReadAgain, WriteAgain, Mapped, InBounds
  <1>2. \A b \in Logged : m_map[b] = m_map[a] => b = a
    BY <1>1 DEF Consistent
  <1>3. CASE ReadAgain(a)
    <2>1. /\ DOMAIN m_vec' = DOMAIN m_vec
          /\ \A i \in DOMAIN m_vec :
               /\ m_vec'[i].addr = m_vec[i].addr
               /\ m_vec'[i].val = m_vec[i].val
               /\ m_vec'[i].read <=> (i = m_map[a] \/ m_vec[i].read)
      BY <1>1, <1>3, ReadField DEF TypeOK, ReadAgain
    <2>2. wr' = wr /\ rd' = rd \cup {a}
      BY <1>3 DEF ReadAgain
    <2>3. Logged' = Logged
      BY <1>1, <2>2 DEF Logged
    <2> QED
      BY <1>1, <1>2, <2>1, <2>2, <2>3 DEF Consistent
  <1>4. ASSUME NEW v \in Val, WriteAgain(a, v)
        PROVE  Consistent'
    <2>1. /\ DOMAIN m_vec' = DOMAIN m_vec
          /\ \A i \in DOMAIN m_vec :
               /\ m_vec'[i].addr = m_vec[i].addr
               /\ m_vec'[i].val = (IF i = m_map[a] THEN v ELSE m_vec[i].val)
               /\ m_vec'[i].read <=> m_vec[i].read
      BY <1>1, <1>4, ValField DEF TypeOK, WriteAgain
    <2>2. wr' = [wr EXCEPT ![a] = v] /\ rd' = rd
      BY <1>4 DEF WriteAgain
    <2>3. \A b \in Addr : wr'[b] = IF b = a THEN v ELSE wr[b]
      BY <2>2 DEF TypeOK
    <2>4. Logged' = Logged
      BY <1>1, <2>2, <2>3, LogAssumption DEF Logged
    <2>5. Logged \subseteq Addr
      BY LoggedType
    <2> QED
      BY <1>1, <1>2, <2>1, <2>2, <2>3, <2>4, <2>5 DEF Consistent
  <1> QED
    BY <1>3, <1>4

\* The first read or write of an address.
LEMMA FirstConsistent ==
  ASSUME TypeOK, Consistent, NEW a \in Addr,
         ReadFirst(a) \/ \E v \in Val : WriteFirst(a, v)
  PROVE  Consistent'
  <1>1. a \notin Logged /\ m_map' = Emplace(a) /\ ~Mapped(a)
    BY DEF Consistent, ReadFirst, WriteFirst, Mapped
  <1>2. Logged \subseteq Addr
    BY LoggedType
  <1>3. PICK e \in Location :
          /\ m_vec' = Append(m_vec, e)
          /\ e.addr = a
          /\ e.read <=> a \in rd'
          /\ e.val = wr'[a]
          /\ Logged' = Logged \cup {a}
          /\ \A b \in Logged : (b \in rd' <=> b \in rd) /\ wr'[b] = wr[b]
    <2>1. CASE ReadFirst(a)
      <3> DEFINE e == [addr |-> a, read |-> TRUE, val |-> NoVal]
      <3>1. e \in Location /\ e.addr = a /\ e.read /\ e.val = NoVal
        BY DEF Location
      <3>2. m_vec' = Append(m_vec, e) /\ rd' = rd \cup {a} /\ wr' = wr
        BY <2>1 DEF ReadFirst
      <3>3. wr[a] = NoVal
        BY <1>1 DEF Logged
      <3>4. Logged' = Logged \cup {a}
        BY <3>2 DEF Logged
      <3>5. \A b \in Logged : (b \in rd' <=> b \in rd) /\ wr'[b] = wr[b]
        BY <1>1, <3>2
      <3> HIDE DEF e
      <3> QED
        BY <3>1, <3>2, <3>3, <3>4, <3>5
    <2>2. ASSUME NEW v \in Val, WriteFirst(a, v)
          PROVE  \E e \in Location :
                   /\ m_vec' = Append(m_vec, e)
                   /\ e.addr = a
                   /\ e.read <=> a \in rd'
                   /\ e.val = wr'[a]
                   /\ Logged' = Logged \cup {a}
                   /\ \A b \in Logged : (b \in rd' <=> b \in rd) /\ wr'[b] = wr[b]
      <3> DEFINE e == NewEntry(a, v)
      <3>1. e \in Location /\ e.addr = a /\ ~e.read /\ e.val = v
        BY DEF Location, NewEntry
      <3>2. /\ m_vec' = Append(m_vec, e)
            /\ rd' = rd
            /\ wr' = [wr EXCEPT ![a] = v]
        BY <2>2 DEF WriteFirst
      <3>3. a \notin rd
        BY <1>1 DEF Logged
      <3>4. \A b \in Addr : wr'[b] = IF b = a THEN v ELSE wr[b]
        BY <3>2 DEF TypeOK
      <3>5. Logged' = Logged \cup {a}
        BY <3>2, <3>4, LogAssumption DEF Logged
      <3>6. \A b \in Logged : (b \in rd' <=> b \in rd) /\ wr'[b] = wr[b]
        BY <1>1, <1>2, <3>2, <3>4
      <3> HIDE DEF e
      <3> QED
        BY <3>1, <3>2, <3>3, <3>4, <3>5, <3>6
    <2> QED
      BY <2>1, <2>2
  <1>4. /\ DOMAIN m_vec' = DOMAIN m_vec \cup {Len(m_vec) + 1}
        /\ Len(m_vec) + 1 \notin DOMAIN m_vec
        /\ m_vec'[Len(m_vec) + 1] = e
        /\ \A i \in DOMAIN m_vec : m_vec'[i] = m_vec[i]
    BY <1>3, AppendFields DEF TypeOK
  <1>5. DOMAIN m_map' = DOMAIN m_map \cup {a}
    BY <1>1, EmplaceLemma
  <1>6. m_map'[a] = Len(m_vec) + 1
    BY <1>1, EmplaceLemma
  <1>7. \A b \in DOMAIN m_map : m_map'[b] = m_map[b]
    BY <1>1, EmplaceLemma
  <1>8. DOMAIN m_map' = Logged'
    BY <1>3, <1>5 DEF Consistent
  <1>9. ASSUME NEW b \in Logged'
        PROVE  /\ m_map'[b] \in DOMAIN m_vec'
               /\ m_vec'[m_map'[b]].addr = b
               /\ m_vec'[m_map'[b]].read <=> b \in rd'
               /\ m_vec'[m_map'[b]].val = wr'[b]
    <2>1. CASE b = a
      BY <1>3, <1>4, <1>6, <2>1
    <2>2. CASE b \in Logged
      <3>1. m_map'[b] = m_map[b] /\ m_map[b] \in DOMAIN m_vec
        BY <1>7, <2>2 DEF Consistent
      <3>2. m_vec'[m_map'[b]] = m_vec[m_map[b]]
        BY <1>4, <3>1
      <3> QED
        BY <1>3, <1>4, <2>2, <3>1, <3>2 DEF Consistent
    <2> QED
      BY <1>3, <2>1, <2>2
  <1>10. ASSUME NEW i \in DOMAIN m_vec'
         PROVE  \E b \in Logged' : i = m_map'[b]
    <2>1. CASE i = Len(m_vec) + 1
      BY <1>3, <1>6, <2>1
    <2>2. CASE i \in DOMAIN m_vec
      <3>1. PICK b \in Logged : i = m_map[b]
        BY <2>2 DEF Consistent
      <3>2. b \in DOMAIN m_map
        BY DEF Consistent
      <3> QED
        BY <1>3, <1>7, <3>1, <3>2
    <2> QED
      BY <1>4, <2>1, <2>2
  <1> QED
    BY <1>8, <1>9, <1>10 DEF Consistent

\* Permuting a complete log leaves it complete.
LEMMA SortComplete ==
  ASSUME TypeOK, Complete, Sort
  PROVE  Complete'
  <1>1. PICK p \in [DOMAIN m_vec -> DOMAIN m_vec] :
          /\ \A i, j \in DOMAIN m_vec : p[i] = p[j] => i = j
          /\ \A k \in DOMAIN m_vec : \E i \in DOMAIN m_vec : p[i] = k
          /\ m_vec' = [i \in DOMAIN m_vec |-> m_vec[p[i]]]
    BY DEF Sort
  <1>2. DOMAIN m_vec' = DOMAIN m_vec /\ \A i \in DOMAIN m_vec : m_vec'[i] = m_vec[p[i]]
    BY <1>1
  <1>3. wr' = wr /\ rd' = rd /\ Logged' = Logged
    BY DEF Sort, Logged
  <1>4. ASSUME NEW a \in Addr \ Logged
        PROVE  Entries(a)' = {}
    <2>1. \A k \in DOMAIN m_vec : m_vec[k].addr # a
      BY DEF Complete, Entries
    <2> QED
      BY <1>1, <1>2, <2>1 DEF Entries
  <1>5. ASSUME NEW a \in Logged
        PROVE  \E i \in DOMAIN m_vec' :
                 /\ Entries(a)' = {i}
                 /\ m_vec'[i].read <=> a \in rd
                 /\ m_vec'[i].val = wr[a]
    <2>1. PICK k \in DOMAIN m_vec :
            /\ Entries(a) = {k}
            /\ m_vec[k].read <=> a \in rd
            /\ m_vec[k].val = wr[a]
      BY DEF Complete
    <2>2. PICK i \in DOMAIN m_vec : p[i] = k
      BY <1>1
    <2>3. \A j \in DOMAIN m_vec : m_vec[j].addr = a <=> j = k
      BY <2>1 DEF Entries
    <2>4. \A j \in DOMAIN m_vec : m_vec'[j].addr = a <=> j = i
      BY <1>1, <1>2, <2>2, <2>3
    <2>5. Entries(a)' = {i}
      BY <1>2, <2>4 DEF Entries
    <2> QED
      BY <1>2, <2>1, <2>2, <2>5
  <1> QED
    BY <1>3, <1>4, <1>5 DEF Complete

\* op.h, log.h, memory.h: as long as no allocation failure is swallowed by
\* the body, every address that was read or written has exactly one location,
\* which the map finds, however many addresses and calls there are.
THEOREM LogFaithful == Spec => [](TypeOK /\ LogComplete /\ ReadOwnWrites)
  <1>1. Init => IInv
    <2> SUFFICES ASSUME Init PROVE IInv
      OBVIOUS
    <2>1. DOMAIN m_vec = {} /\ DOMAIN m_map = {} /\ Logged = {}
      BY DEF Init, Logged
    <2>2. Consistent
      BY <2>1 DEF Consistent
    <2>3. m_vec \in Seq(Location)
      BY DEF Init
    <2>4. wr \in [Addr -> Val \cup {NoVal}]
      BY DEF Init
    <2>5. objects \in Nat /\ ops \in 0 .. MaxOps /\ phase = "open" /\ failed = "none"
          /\ rd \subseteq Addr
      BY LogAssumption DEF Init
    <2>6. TypeOK
      BY <2>1, <2>3, <2>4, <2>5 DEF TypeOK
    <2> QED
      BY <2>2, <2>5, <2>6 DEF IInv
  <1>2. IInv /\ [Next]_vars => IInv'
    <2> SUFFICES ASSUME IInv, [Next]_vars
                 PROVE  IInv'
      OBVIOUS
    <2>1. TypeOK /\ TypeOK'
      BY TypeInvariance DEF IInv
    <2>2. ASSUME NEW a \in Addr, ReadAgain(a) \/ \E v \in Val : WriteAgain(a, v)
          PROVE  IInv'
      <3>1. phase = "open" /\ phase' = phase /\ failed' = failed
        BY <2>2 DEF ReadAgain, WriteAgain, Call, Request
      <3>2. failed = "none" => Consistent'
        BY <2>1, <2>2, <3>1, AgainConsistent DEF IInv
      <3> QED
        BY <2>1, <3>1, <3>2 DEF IInv
    <2>3. ASSUME NEW a \in Addr, ReadFirst(a) \/ \E v \in Val : WriteFirst(a, v)
          PROVE  IInv'
      <3>1. phase = "open" /\ phase' = phase /\ failed' = failed
        BY <2>3 DEF ReadFirst, WriteFirst, Call, Request
      <3>2. failed = "none" => Consistent'
        BY <2>1, <2>3, <3>1, FirstConsistent DEF IInv
      <3> QED
        BY <2>1, <3>1, <3>2 DEF IInv
    <2>4. ASSUME NEW a \in Addr, InsertFails(a)
          PROVE  IInv'
      BY <2>1, <2>4 DEF IInv, InsertFails, Call, Request
    <2>5. ASSUME NEW a \in Addr, OutOfBounds(a)
          PROVE  IInv'
      <3>1. failed # "none"
        BY <2>5 DEF IInv, OutOfBounds, Call, Request, Consistent, Mapped, InBounds
      <3> QED
        BY <2>1, <2>5, <3>1 DEF IInv, OutOfBounds
    <2>9. ASSUME NEW a \in Addr, MapFails(a)
          PROVE  IInv'
      BY <2>1, <2>9 DEF IInv, MapFails, Call, Request
    <2>10. CASE NoBuckets
      BY <2>1, <2>10 DEF IInv, NoBuckets
    <2>6. CASE Sort
      <3>1. failed = "none" => Complete'
        BY <2>1, <2>6, ConsistentComplete, SortComplete DEF IInv, Sort
      <3> QED
        BY <2>1, <2>6, <3>1 DEF IInv, Sort
    <2>7. CASE Clear
      <3>1. DOMAIN m_vec' = {} /\ DOMAIN m_map' = {} /\ Logged' = {}
        BY <2>7 DEF Clear, Logged
      <3>2. Consistent'
        BY <3>1 DEF Consistent
      <3> QED
        BY <2>1, <2>7, <3>2 DEF IInv, Clear
    <2>8. CASE UNCHANGED vars
      <3>1. Consistent' <=> Consistent
        BY <2>8 DEF vars, Consistent, Logged
      <3>2. Complete' <=> Complete
        BY <2>8 DEF vars, Complete, Logged, Entries
      <3> QED
        BY <2>1, <2>8, <3>1, <3>2 DEF vars, IInv
    <2> QED
      BY <2>2, <2>3, <2>4, <2>5, <2>6, <2>7, <2>8, <2>9, <2>10
         DEF Next, Undefined
  <1>3. IInv => TypeOK /\ LogComplete /\ ReadOwnWrites
    <2> SUFFICES ASSUME IInv
                 PROVE  TypeOK /\ LogComplete /\ ReadOwnWrites
      OBVIOUS
    <2>1. TypeOK
      BY DEF IInv
    <2>2. failed = "none" => phase # "undefined" /\ Complete
      BY <2>1, ConsistentComplete DEF IInv, TypeOK
    <2>3. LogComplete
      BY <2>2 DEF LogComplete, Complete
    <2>4. ReadOwnWrites
      BY DEF IInv, ReadOwnWrites, Consistent, Mapped, InBounds, FindWrite
    <2> QED
      BY <2>1, <2>3, <2>4
  <1> QED
    BY <1>1, <1>2, <1>3, PTL DEF Spec

\* The types of containers and counters, whatever fails.
THEOREM TypeCorrect == Spec => []TypeOK
  <1>1. TypeOK /\ LogComplete /\ ReadOwnWrites => TypeOK
    OBVIOUS
  <1> QED
    BY <1>1, LogFaithful, PTL

\* Log::find_write answers every read of a location that the transaction has
\* written with the value it wrote last, after any calls in any order.
THEOREM OwnWritesRead == Spec => []ReadOwnWrites
  <1>1. TypeOK /\ LogComplete /\ ReadOwnWrites => ReadOwnWrites
    OBVIOUS
  <1> QED
    BY <1>1, LogFaithful, PTL

----------------------------------------------------------------------------
(* The staged objects.                                                     *)

\* The locations are finitely many.
LEMMA DestroyedFinite ==
  ASSUME TypeOK
  PROVE  IsFiniteSet(Destroyed)
  <1>1. DOMAIN m_vec = 1 .. Len(m_vec) /\ Len(m_vec) \in Nat
    BY DEF TypeOK
  <1>2. IsFiniteSet(1 .. Len(m_vec))
    BY <1>1, FS_Interval
  <1>3. Destroyed \in SUBSET (1 .. Len(m_vec))
    BY <1>1 DEF Destroyed
  <1> QED
    BY <1>2, <1>3, FS_Subset

\* A sort moves the staged objects and neither makes nor loses one.
LEMMA SortKeepsObjects ==
  ASSUME TypeOK, Sort
  PROVE  Cardinality(Destroyed') = Cardinality(Destroyed)
  <1>1. PICK p \in [DOMAIN m_vec -> DOMAIN m_vec] :
          /\ \A i, j \in DOMAIN m_vec : p[i] = p[j] => i = j
          /\ \A k \in DOMAIN m_vec : \E i \in DOMAIN m_vec : p[i] = k
          /\ m_vec' = [i \in DOMAIN m_vec |-> m_vec[p[i]]]
    BY DEF Sort
  <1>2. Destroyed' = {i \in DOMAIN m_vec : p[i] \in Destroyed}
    BY <1>1 DEF Destroyed
  <1> DEFINE f == [k \in Destroyed' |-> p[k]]
  <1>3. Destroyed \subseteq DOMAIN m_vec /\ Destroyed' \subseteq DOMAIN m_vec
    BY <1>2 DEF Destroyed
  <1>4. f \in [Destroyed' -> Destroyed]
    BY <1>2
  <1>5. \A i, j \in Destroyed' : f[i] = f[j] => i = j
    BY <1>1, <1>3
  <1>6. \A k \in Destroyed : \E i \in Destroyed' : f[i] = k
    <2> TAKE k \in Destroyed
    <2>1. PICK i \in DOMAIN m_vec : p[i] = k
      BY <1>1, <1>3
    <2> QED
      BY <1>2, <2>1
  <1> HIDE DEF f
  <1>7. f \in Bijection(Destroyed', Destroyed)
    BY <1>4, <1>5, <1>6, Fun_IsBij, Zenon
  <1>8. ExistsBijection(Destroyed, Destroyed')
    BY <1>7, Fun_ExistsBijSymmetric DEF ExistsBijection
  <1> QED
    BY <1>8, DestroyedFinite, FS_Bijection

\* PerThreadPolicy::clear destroys every staged object exactly once: each
\* action keeps the number of live objects equal to that of the locations
\* with a staged value, also when a location is written again.
THEOREM StagedObjectsOwned == Spec => []ObjectsOwned
  <1>1. Init => ObjectsOwned
    <2> SUFFICES ASSUME Init PROVE ObjectsOwned
      OBVIOUS
    <2>1. Destroyed = {} /\ objects = 0
      BY DEF Init, Destroyed
    <2> QED
      BY <2>1, FS_EmptySet DEF ObjectsOwned
  <1>2. TypeOK /\ TypeOK' /\ ObjectsOwned /\ [Next]_vars => ObjectsOwned'
    <2> SUFFICES ASSUME TypeOK, TypeOK', ObjectsOwned, [Next]_vars
                 PROVE  ObjectsOwned'
      OBVIOUS
    <2>0. IsFiniteSet(Destroyed)
      BY DestroyedFinite
    <2>1. ASSUME NEW a \in Addr, ReadAgain(a)
          PROVE  ObjectsOwned'
      <3>1. /\ DOMAIN m_vec' = DOMAIN m_vec
            /\ \A i \in DOMAIN m_vec : m_vec'[i].val = m_vec[i].val
        BY <2>1, ReadField DEF TypeOK, ReadAgain, InBounds
      <3>2. Destroyed' = Destroyed
        BY <3>1 DEF Destroyed
      <3> QED
        BY <2>1, <3>2 DEF ObjectsOwned, ReadAgain
    <2>2. ASSUME NEW a \in Addr, ReadFirst(a)
          PROVE  ObjectsOwned'
      <3> DEFINE e == [addr |-> a, read |-> TRUE, val |-> NoVal]
      <3>1. e \in Location /\ e.val = NoVal
        BY DEF Location
      <3>2. m_vec' = Append(m_vec, e)
        BY <2>2 DEF ReadFirst
      <3> HIDE DEF e
      <3>3. /\ DOMAIN m_vec' = DOMAIN m_vec \cup {Len(m_vec) + 1}
            /\ m_vec'[Len(m_vec) + 1] = e
            /\ \A i \in DOMAIN m_vec : m_vec'[i] = m_vec[i]
        BY <3>1, <3>2, AppendFields DEF TypeOK
      <3>4. Destroyed' = Destroyed
        BY <3>1, <3>3 DEF Destroyed
      <3> QED
        BY <2>2, <3>4 DEF ObjectsOwned, ReadFirst
    <2>3. ASSUME NEW a \in Addr, NEW v \in Val, WriteAgain(a, v)
          PROVE  ObjectsOwned'
      <3>1. m_map[a] \in DOMAIN m_vec /\ v # NoVal
        BY <2>3, LogAssumption DEF WriteAgain, InBounds
      <3>2. /\ DOMAIN m_vec' = DOMAIN m_vec
            /\ \A i \in DOMAIN m_vec :
                 m_vec'[i].val = (IF i = m_map[a] THEN v ELSE m_vec[i].val)
        BY <2>3, <3>1, ValField DEF TypeOK, WriteAgain
      <3>3. Destroyed' = Destroyed \cup {m_map[a]}
        BY <3>1, <3>2 DEF Destroyed
      <3>4. m_map[a] \in Destroyed <=> m_vec[m_map[a]].val # NoVal
        BY <3>1 DEF Destroyed
      <3>5. Cardinality(Destroyed') = IF m_map[a] \in Destroyed
                                        THEN Cardinality(Destroyed)
                                        ELSE Cardinality(Destroyed) + 1
        BY <2>0, <3>3, FS_AddElement
      <3>6. objects' = objects + Constructed(a) /\ failed' = failed
        BY <2>3 DEF WriteAgain
      <3>7. Constructed(a) = IF m_map[a] \in Destroyed THEN 0 ELSE 1
        BY <3>4 DEF Constructed
      <3> QED
        BY <3>5, <3>6, <3>7 DEF ObjectsOwned, TypeOK
    <2>4. ASSUME NEW a \in Addr, NEW v \in Val, WriteFirst(a, v)
          PROVE  ObjectsOwned'
      <3> DEFINE e == NewEntry(a, v)
      <3>1. e \in Location /\ e.val # NoVal
        BY LogAssumption DEF Location, NewEntry
      <3>2. m_vec' = Append(m_vec, e) /\ objects' = objects + 1 /\ failed' = failed
        BY <2>4 DEF WriteFirst
      <3> HIDE DEF e
      <3>3. /\ DOMAIN m_vec' = DOMAIN m_vec \cup {Len(m_vec) + 1}
            /\ Len(m_vec) + 1 \notin DOMAIN m_vec
            /\ m_vec'[Len(m_vec) + 1] = e
            /\ \A i \in DOMAIN m_vec : m_vec'[i] = m_vec[i]
        BY <3>1, <3>2, AppendFields DEF TypeOK
      <3>4. /\ Destroyed' = Destroyed \cup {Len(m_vec) + 1}
            /\ Len(m_vec) + 1 \notin Destroyed
        BY <3>1, <3>3 DEF Destroyed
      <3>5. Cardinality(Destroyed') = Cardinality(Destroyed) + 1
        BY <2>0, <3>4, FS_AddElement
      <3> QED
        BY <3>2, <3>5 DEF ObjectsOwned
    <2>5. ASSUME NEW a \in Addr, InsertFails(a)
          PROVE  ObjectsOwned'
      BY <2>5 DEF ObjectsOwned, InsertFails
    <2>6. ASSUME NEW a \in Addr, OutOfBounds(a)
          PROVE  ObjectsOwned'
      BY <2>6 DEF ObjectsOwned, OutOfBounds, Destroyed
    <2>10. ASSUME NEW a \in Addr, MapFails(a)
           PROVE  ObjectsOwned'
      BY <2>10 DEF ObjectsOwned, MapFails
    <2>11. CASE NoBuckets
      BY <2>11 DEF ObjectsOwned, NoBuckets, Destroyed
    <2>7. CASE Sort
      BY <2>7, SortKeepsObjects DEF ObjectsOwned, Sort
    <2>8. CASE Clear
      <3>1. Destroyed' = {} /\ objects' = 0
        BY <2>8 DEF Clear, Destroyed
      <3> QED
        BY <3>1, FS_EmptySet DEF ObjectsOwned
    <2>9. CASE UNCHANGED vars
      BY <2>9 DEF ObjectsOwned, Destroyed, vars
    <2> QED
      BY <2>1, <2>2, <2>3, <2>4, <2>5, <2>6, <2>7, <2>8, <2>9, <2>10, <2>11
         DEF Next, Undefined
  <1> QED
    BY <1>1, <1>2, TypeCorrect, PTL DEF Spec
=============================================================================
