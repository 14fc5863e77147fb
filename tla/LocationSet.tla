----------------------------- MODULE LocationSet -----------------------------
(***************************************************************************)
(* The log of one transaction: LocationHashVectorSet, a vector of          *)
(* locations with a hash map from address to index, the Log on top of it   *)
(* and the store of staged objects below it.  Module TL2 takes the log to  *)
(* be a set of addresses read and a value staged per address; here that    *)
(* set and those values are recorded beside what the containers hold.      *)
(***************************************************************************)
EXTENDS Integers, Sequences, FiniteSets

CONSTANTS
  Addr,          \* addresses of TVars, naturals
  Val,           \* values
  NoVal,         \* nothing staged
  AllocMayFail,  \* TRUE: containers and the store may throw std::bad_alloc
  MaxOps         \* bound: calls of register_read / register_write per log

ASSUME LogAssumption ==
  /\ Addr \subseteq Nat
  /\ NoVal \notin Val
  /\ AllocMayFail \in BOOLEAN
  /\ MaxOps \in Nat

VARIABLES
  m_vec,    \* the locations
  m_map,    \* address -> index into m_vec (from 1; from 0 in the code)
  objects,  \* number of staged objects constructed and not yet destroyed
  phase,    \* "open", "sorted", or "undefined" after an access out of bounds
  failed,   \* "none", or the allocation that failed in a call of this log and
            \* whose exception the body caught: "insert" or "map"
  ops,      \* calls made on this log
  rd,       \* addresses whose register_read returned
  wr        \* wr[a]: value of the last register_write of a that returned

vars == <<m_vec, m_map, objects, phase, failed, ops, rd, wr>>

Location == [addr : Addr, read : BOOLEAN, val : Val \cup {NoVal}]

Init ==
  /\ m_vec = << >>
  /\ m_map = << >>
  /\ objects = 0
  /\ phase = "open"
  /\ failed = "none"
  /\ ops = 0
  /\ rd = {}
  /\ wr = [a \in Addr |-> NoVal]

Mapped(a) == a \in DOMAIN m_map
InBounds(a) == m_map[a] \in DOMAIN m_vec

\* m_map.emplace(addr, m_vec.size()).
MapAt(a, i) == [b \in DOMAIN m_map \cup {a} |-> IF b = a THEN i ELSE m_map[b]]
EmplaceAtLast(a) == MapAt(a, Len(m_vec))
Emplace(a) == MapAt(a, Len(m_vec) + 1)

\* A call of the body.  None can come between the sort and clear(): after the
\* sort the LockGuard and try_commit() only iterate over the locations, and
\* every way out of try_commit() leads to clear(), an exception too.
Request ==
  /\ phase = "open"
  /\ ops < MaxOps
  /\ ops' = ops + 1

Call == Request /\ failed # "map"

----------------------------------------------------------------------------
\* register_read of an address with and without an entry.
ReadAgain(a) ==
  /\ Call
  /\ Mapped(a) /\ InBounds(a)
  /\ m_vec' = [m_vec EXCEPT ![m_map[a]].read = TRUE]
  /\ rd' = rd \cup {a}
  /\ UNCHANGED <<m_map, objects, phase, failed, wr>>

ReadFirst(a) ==
  /\ Call
  /\ ~Mapped(a)
  /\ m_map' = Emplace(a)
  /\ m_vec' = Append(m_vec, [addr |-> a, read |-> TRUE, val |-> NoVal])
  /\ rd' = rd \cup {a}
  /\ UNCHANGED <<objects, phase, failed, wr>>

\* register_write of an address with an entry: Location::write overwrites the
\* staged object, or constructs one.
ConstructedAlways(a) == 1
Constructed(a) == IF m_vec[m_map[a]].val = NoVal THEN 1 ELSE 0

WriteAgain(a, v) ==
  /\ Call
  /\ Mapped(a) /\ InBounds(a)
  /\ objects' = objects + Constructed(a)
  /\ m_vec' = [m_vec EXCEPT ![m_map[a]].val = v]
  /\ wr' = [wr EXCEPT ![a] = v]
  /\ UNCHANGED <<m_map, phase, failed, rd>>

NewEntry(a, v) == [addr |-> a, read |-> FALSE, val |-> v]

WriteFirst(a, v) ==
  /\ Call
  /\ ~Mapped(a)
  /\ m_map' = Emplace(a)
  /\ objects' = objects + 1
  /\ m_vec' = Append(m_vec, NewEntry(a, v))
  /\ wr' = [wr EXCEPT ![a] = v]
  /\ UNCHANGED <<phase, failed, rd>>

\* std::bad_alloc after the map has its entry: from growing the vector, or
\* (writes) from the store.  The entry stays behind, and so does a staged
\* object that was constructed already.  (One thrown by the store for an
\* address that has a location, or by the map's own vector, changes nothing.)
InsertFails(a) ==
  /\ AllocMayFail
  /\ Call
  /\ ~Mapped(a)
  /\ m_map' = Emplace(a)
  /\ objects' \in {objects, objects + 1}
  /\ failed' = "insert"
  /\ UNCHANGED <<m_vec, phase, rd, wr>>

\* std::bad_alloc from the map as it grows (AllocFails in module DenseMap): it
\* has the entry and no buckets.  clear() does not give it new ones, and the
\* next call reads a bucket that is not there.
MapFails(a) ==
  /\ AllocMayFail
  /\ Call
  /\ ~Mapped(a)
  /\ m_map' = Emplace(a)
  /\ failed' = "map"
  /\ UNCHANGED <<m_vec, objects, phase, rd, wr>>

NoBuckets ==
  /\ Request
  /\ failed = "map"
  /\ phase' = "undefined"
  /\ UNCHANGED <<m_vec, m_map, objects, failed, rd, wr>>

\* The map led past the end of the vector.
OutOfBounds(a) ==
  /\ Call
  /\ Mapped(a) /\ ~InBounds(a)
  /\ phase' = "undefined"
  /\ UNCHANGED <<m_vec, m_map, objects, failed, rd, wr>>

----------------------------------------------------------------------------
\* stable_sort(): the locations permuted into the order of their addresses.
\* The indices in the map are stale from here on.
Sort ==
  /\ phase = "open"
  /\ \E p \in [DOMAIN m_vec -> DOMAIN m_vec] :
       /\ \A i, j \in DOMAIN m_vec : p[i] = p[j] => i = j
       /\ \A k \in DOMAIN m_vec : \E i \in DOMAIN m_vec : p[i] = k
       /\ \A i, j \in DOMAIN m_vec :
            i < j => m_vec[p[i]].addr <= m_vec[p[j]].addr
       /\ m_vec' = [i \in DOMAIN m_vec |-> m_vec[p[i]]]
  /\ phase' = "sorted"
  /\ UNCHANGED <<m_map, objects, failed, ops, rd, wr>>

\* The locations whose staged object PerThreadPolicy::clear destroys.
Destroyed == {i \in DOMAIN m_vec : m_vec[i].val # NoVal}

ClearKeepsMap ==
  /\ phase # "undefined"
  /\ m_vec' = << >>
  /\ UNCHANGED m_map
  /\ objects' = 0
  /\ phase' = "open"
  /\ failed' = IF failed = "map" THEN "map" ELSE "none"
  /\ ops' = 0
  /\ rd' = {}
  /\ wr' = [a \in Addr |-> NoVal]
\* Log::clear(), at the start and the end of every attempt.  The memory of
\* all staged objects is released with the store, also of those that were
\* not destroyed.
Clear ==
  /\ phase # "undefined"
  /\ m_vec' = << >>
  /\ m_map' = << >>
  /\ objects' = 0
  /\ phase' = "open"
  /\ failed' = IF failed = "map" THEN "map" ELSE "none"
  /\ ops' = 0
  /\ rd' = {}
  /\ wr' = [a \in Addr |-> NoVal]

\* After undefined behaviour the model says nothing more.
Undefined ==
  /\ phase = "undefined"
  /\ UNCHANGED vars

Next ==
  \/ \E a \in Addr :
       \/ ReadAgain(a)
       \/ ReadFirst(a)
       \/ \E v \in Val : WriteAgain(a, v) \/ WriteFirst(a, v)
       \/ InsertFails(a)
       \/ MapFails(a)
       \/ OutOfBounds(a)
  \/ NoBuckets
  \/ Sort
  \/ Clear
  \/ Undefined

Spec == Init /\ [][Next]_vars

----------------------------------------------------------------------------
\* find_write: the staged value the map leads to.
FindWrite(a) == IF Mapped(a) THEN m_vec[m_map[a]].val ELSE NoVal

Entries(a) == {i \in DOMAIN m_vec : m_vec[i].addr = a}
Logged == rd \cup {a \in Addr : wr[a] # NoVal}

\* The type of every variable.
TypeOK ==
  /\ m_vec \in Seq(Location)
  /\ DOMAIN m_map \subseteq Addr
  /\ \A a \in DOMAIN m_map : m_map[a] \in Nat \ {0}
  /\ objects \in Nat
  /\ phase \in {"open", "sorted", "undefined"}
  /\ failed \in {"none", "insert", "map"}
  /\ ops \in 0 .. MaxOps
  /\ rd \subseteq Addr
  /\ wr \in [Addr -> Val \cup {NoVal}]

\* Each address that was read or written has exactly one location, with its
\* read flag and its last staged value, whatever the order of calls, before
\* the sort and after it: try_commit() locks, validates and writes back each
\* of them once.  (Up to an allocation failure that the body swallows.)
LogComplete ==
  failed = "none" =>
    /\ phase # "undefined"
    /\ \A a \in Addr \ Logged : Entries(a) = {}
    /\ \A a \in Logged : \E i \in DOMAIN m_vec :
         /\ Entries(a) = {i}
         /\ m_vec[i].read <=> a \in rd
         /\ m_vec[i].val = wr[a]

\* The map leads to the location of the address it is asked for, as long as
\* it can be asked: reads are served from the write set.
ReadOwnWrites ==
  phase = "open" /\ failed = "none" =>
    /\ DOMAIN m_map = Logged
    /\ \A a \in Logged : Mapped(a) /\ InBounds(a) /\ FindWrite(a) = wr[a]

\* Staged objects are destroyed exactly once: as many are alive as there are
\* written locations for PerThreadPolicy::clear to find.
ObjectsOwned == failed = "none" => objects = Cardinality(Destroyed)
=============================================================================
