----------------------------- MODULE VersionLock -----------------------------
(***************************************************************************)
(* One VersionLock, step by step: a 64-bit word that packs a version and a *)
(* lock bit, and the load / compare-and-swap loops that operate on it.  As *)
(* global_clock the word only sees incr_version() and get_version(), as an *)
(* entry of the lock table everything else.                                *)
(***************************************************************************)
EXTENDS Integers

CONSTANTS
  Thread,
  NoThread,     \* "nobody holds the lock"
  MaxVersion    \* bound: largest version ever set (2^63 - 1 in the code)

ASSUME WordAssumption ==
  /\ NoThread \notin Thread
  /\ MaxVersion \in Nat

VARIABLES
  is_clock,   \* TRUE: this word is global_clock, FALSE: an entry of hashtbl
  m_state,    \* the word
  pc,         \* pc[t]: where t is in which operation
  loaded,     \* loaded[t]: the word t's operation has loaded
  new,        \* new[t]: argument of t's set_version / unsafe_set_version
  result      \* result[t]: what t's last get_version / incr_version returned

vars == <<is_clock, m_state, pc, loaded, new, result>>

Version == 0 .. MaxVersion

pack(v, locked) == 2 * v + IF locked THEN 1 ELSE 0
unpack_version(s) == s \div 2
Locked(s) == s % 2 = 1

\* pc: "free" outside any operation and not owner; "lock", "get", "set" at
\* the load of the loops of that name, "lockCAS" and "setCAS" at their
\* compare-and-swap; "owner" after lock(); "store" inside unsafe_set_version.
PC == {"free", "lock", "lockCAS", "get", "set", "setCAS", "owner", "store"}

Init ==
  /\ is_clock \in BOOLEAN
  /\ m_state = 0
  /\ pc = [t \in Thread |-> "free"]
  /\ loaded = [t \in Thread |-> 0]
  /\ new = [t \in Thread |-> 0]
  /\ result = [t \in Thread |-> 0]

----------------------------------------------------------------------------
\* A thread enters one of the three spinning loops.
CallLock(t) ==
  /\ ~is_clock
  /\ pc[t] = "free"
  /\ pc' = [pc EXCEPT ![t] = "lock"]
  /\ UNCHANGED <<m_state, loaded, new, result>>

CallGet(t) ==
  /\ pc[t] = "free"
  /\ pc' = [pc EXCEPT ![t] = "get"]
  /\ UNCHANGED <<m_state, loaded, new, result>>

CallSet(t) ==
  /\ ~is_clock
  /\ pc[t] = "free"
  /\ pc' = [pc EXCEPT ![t] = "set"]
  /\ \E v \in Version : new' = [new EXCEPT ![t] = v]
  /\ UNCHANGED <<m_state, loaded, result>>

\* The loop loads the word; if the lock bit is set it yields and loads again.
Load(t, at, next) ==
  /\ pc[t] = at
  /\ IF Locked(m_state)
       THEN UNCHANGED <<m_state, pc, loaded, new, result>>
       ELSE /\ loaded' = [loaded EXCEPT ![t] = m_state]
            /\ pc' = [pc EXCEPT ![t] = next]
            /\ UNCHANGED <<m_state, new, result>>

\* compare_exchange_weak, which may fail for no reason.  A word that was
\* loaded lives for one turn of the loop, an argument for the call.
CompareBlindly(t) == TRUE
Expected(t) == m_state = loaded[t]

CompareExchange(t, at, word, done) ==
  /\ pc[t] = at
  /\ Expected(t)
  /\ m_state' = word
  /\ pc' = [pc EXCEPT ![t] = done]
  /\ loaded' = [loaded EXCEPT ![t] = 0]
  /\ new' = [new EXCEPT ![t] = 0]
  /\ UNCHANGED result

ExchangeFails(t, at, again) ==
  /\ pc[t] = at
  /\ pc' = [pc EXCEPT ![t] = again]
  /\ loaded' = [loaded EXCEPT ![t] = 0]
  /\ UNCHANGED <<m_state, new, result>>

\* lock(): s | kLocked, where s was loaded with the bit clear.
LockLoad(t) == Load(t, "lock", "lockCAS")
LockExchange(t) ==
  \/ CompareExchange(t, "lockCAS", loaded[t] + 1, "owner")
  \/ ExchangeFails(t, "lockCAS", "lock")

\* set_version() on a lock that the caller does not own.
SetLoad(t) == Load(t, "set", "setCAS")
SetExchange(t) ==
  \/ CompareExchange(t, "setCAS", pack(new[t], FALSE), "free")
  \/ ExchangeFails(t, "setCAS", "set")

\* get_version() spins until the bit is clear; unsafe_get_version() of the
\* owner does not look at it.
GetVersion(t) ==
  /\ \/ pc[t] = "get" /\ ~Locked(m_state) /\ pc' = [pc EXCEPT ![t] = "free"]
     \/ pc[t] = "owner" /\ UNCHANGED pc
  /\ result' = [result EXCEPT ![t] = unpack_version(m_state)]
  /\ UNCHANGED <<m_state, loaded, new>>

\* unsafe_set_version(): a load and a store, not a read-modify-write.
UnsafeSetLoad(t) ==
  /\ pc[t] = "owner"
  /\ loaded' = [loaded EXCEPT ![t] = m_state]
  /\ \E v \in Version : new' = [new EXCEPT ![t] = v]
  /\ pc' = [pc EXCEPT ![t] = "store"]
  /\ UNCHANGED <<m_state, result>>

StoreUnlocked(t) == pack(new[t], FALSE)
StoredWord(t) == pack(new[t], Locked(loaded[t]))

UnsafeSetStore(t) ==
  /\ pc[t] = "store"
  /\ m_state' = StoredWord(t)
  /\ pc' = [pc EXCEPT ![t] = "owner"]
  /\ loaded' = [loaded EXCEPT ![t] = 0]
  /\ new' = [new EXCEPT ![t] = 0]
  /\ UNCHANGED result

\* unlock(): fetch_and(~kLocked).
ClearedByInc(s) == s - 2
Cleared(s) == s - (s % 2)

Unlock(t) ==
  /\ pc[t] = "owner"
  /\ m_state' = Cleared(m_state)
  /\ pc' = [pc EXCEPT ![t] = "free"]
  /\ UNCHANGED <<loaded, new, result>>

\* incr_version(): fetch_add(kVersionInc), and the sum is returned.
IncrVersion(t) ==
  /\ is_clock
  /\ pc[t] = "free"
  /\ unpack_version(m_state) < MaxVersion
  /\ m_state' = m_state + 2
  /\ result' = [result EXCEPT ![t] = unpack_version(m_state')]
  /\ UNCHANGED <<pc, loaded, new>>

Step(t) ==
  \/ CallLock(t) \/ LockLoad(t) \/ LockExchange(t)
  \/ CallGet(t) \/ GetVersion(t)
  \/ CallSet(t) \/ SetLoad(t) \/ SetExchange(t)
  \/ UnsafeSetLoad(t) \/ UnsafeSetStore(t)
  \/ Unlock(t)
  \/ IncrVersion(t)

Next == \E t \in Thread : Step(t) /\ UNCHANGED is_clock

Spec == Init /\ [][Next]_vars

----------------------------------------------------------------------------
Owners == {t \in Thread : pc[t] \in {"owner", "store"}}

\* The type of every variable.
TypeOK ==
  /\ is_clock \in BOOLEAN
  /\ m_state \in Nat
  /\ pc \in [Thread -> PC]
  /\ loaded \in [Thread -> Nat]
  /\ new \in [Thread -> Version]
  /\ result \in [Thread -> Nat]

\* The lock bit is set exactly while one thread owns the lock, and no
\* compare-and-swap ever expects a word with the bit set: the loops of lock()
\* and set_version() never steal a lock, and the store of
\* unsafe_set_version() neither drops nor invents the bit.
BitTellsOwner ==
  /\ Locked(m_state) => \E t \in Owners : Owners = {t}
  /\ ~Locked(m_state) => Owners = {}
  /\ \A t \in Thread : pc[t] \in {"lockCAS", "setCAS"} => ~Locked(loaded[t])
  /\ \A t \in Thread : pc[t] = "store" => Locked(loaded[t])

AbsHolder == IF Owners = {} THEN NoThread ELSE CHOOSE t \in Thread : t \in Owners

Abs == INSTANCE AtomicVersionLock
         WITH ver <- unpack_version(m_state), holder <- AbsHolder

\* Every operation of version_lock.h takes effect in one step, although all
\* but unlock() and incr_version() take several: no version is lost or torn,
\* and nobody reads or writes it past the owner.
AtomicOperations == Abs!ASpec
=============================================================================
