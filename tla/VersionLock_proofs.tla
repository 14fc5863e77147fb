------------------------- MODULE VersionLock_proofs -------------------------
(***************************************************************************)
(* The operations of a VersionLock are atomic, for any number of threads.  *)
(***************************************************************************)
EXTENDS VersionLock, TLAPS

\* What packing a version and a lock bit into one word does to the halves.
LEMMA PackLemma ==
  ASSUME NEW v \in Nat, NEW b \in BOOLEAN
  PROVE  /\ pack(v, b) \in Nat
         /\ unpack_version(pack(v, b)) = v
         /\ Locked(pack(v, b)) <=> b
  BY DEF pack, unpack_version, Locked

\* What the compare-and-swap of lock() and the fetch_and of unlock() do.
LEMMA BitLemma ==
  ASSUME NEW s \in Nat
  PROVE  /\ unpack_version(s) \in Nat
         /\ ~Locked(s) => Locked(s + 1) /\ unpack_version(s + 1) = unpack_version(s)
         /\ Cleared(s) \in Nat
         /\ ~Locked(Cleared(s))
         /\ unpack_version(Cleared(s)) = unpack_version(s)
         /\ unpack_version(s + 2) = unpack_version(s) + 1
         /\ Locked(s + 2) <=> Locked(s)
  BY DEF unpack_version, Locked, Cleared

IInv == TypeOK /\ BitTellsOwner

\* A step that leaves the word alone and makes nobody an owner or a stranger
\* keeps the second half of the invariant, if it respects what a thread
\* knows about the word it has loaded.
LEMMA SameOwners ==
  ASSUME IInv, NEW t \in Thread, TypeOK',
         m_state' = m_state,
         \A u \in Thread \ {t} : pc'[u] = pc[u] /\ loaded'[u] = loaded[u],
         pc[t] \in {"owner", "store"} <=> pc'[t] \in {"owner", "store"},
         pc'[t] \in {"lockCAS", "setCAS"} => ~Locked(loaded'[t]),
         pc'[t] = "store" => Locked(loaded'[t])
  PROVE  BitTellsOwner'
  <1>1. Owners' = Owners
    BY DEF Owners
  <1>2. \A u \in Thread : pc'[u] \in {"lockCAS", "setCAS"} => ~Locked(loaded'[u])
    BY DEF IInv, BitTellsOwner
  <1>3. \A u \in Thread : pc'[u] = "store" => Locked(loaded'[u])
    BY DEF IInv, BitTellsOwner
  <1> QED
    BY <1>1, <1>2, <1>3 DEF IInv, BitTellsOwner, Locked

\* Every step preserves the invariant.
LEMMA StepInvariance ==
  ASSUME IInv, NEW t \in Thread, Step(t), UNCHANGED is_clock
  PROVE  IInv'
  <1> USE WordAssumption
  <1>0. TypeOK /\ BitTellsOwner /\ is_clock' = is_clock
    BY DEF IInv
  <1>1. CASE CallLock(t)
    <2>1. TypeOK'
      BY <1>0, <1>1 DEF CallLock, TypeOK, PC
    <2>2. BitTellsOwner'
      BY <1>0, <1>1, <2>1, SameOwners DEF CallLock, TypeOK
    <2> QED
      BY <2>1, <2>2 DEF IInv
  <1>2. CASE CallGet(t)
    <2>1. TypeOK'
      BY <1>0, <1>2 DEF CallGet, TypeOK, PC
    <2>2. BitTellsOwner'
      BY <1>0, <1>2, <2>1, SameOwners DEF CallGet, TypeOK
    <2> QED
      BY <2>1, <2>2 DEF IInv
  <1>3. CASE CallSet(t)
    <2>1. TypeOK'
      BY <1>0, <1>3 DEF CallSet, TypeOK, PC
    <2>2. BitTellsOwner'
      BY <1>0, <1>3, <2>1, SameOwners DEF CallSet, TypeOK
    <2> QED
      BY <2>1, <2>2 DEF IInv
  <1>4. ASSUME NEW at \in {"lock", "set"}, NEW next \in {"lockCAS", "setCAS"},
               Load(t, at, next)
        PROVE  IInv'
    <2>1. CASE Locked(m_state)
      <3>1. UNCHANGED vars
        BY <1>0, <1>4, <2>1 DEF Load, vars
      <3> QED
        BY <1>0, <3>1 DEF vars, IInv, TypeOK, BitTellsOwner, Owners, Locked
    <2>2. CASE ~Locked(m_state)
      <3>1. TypeOK'
        BY <1>0, <1>4, <2>2 DEF Load, TypeOK, PC
      <3>2. BitTellsOwner'
        BY <1>0, <1>4, <2>2, <3>1, SameOwners DEF Load, TypeOK
      <3> QED
        BY <3>1, <3>2 DEF IInv
    <2> QED
      BY <2>1, <2>2
  <1>5. ASSUME NEW at \in {"lockCAS", "setCAS"}, NEW again \in {"lock", "set"},
               ExchangeFails(t, at, again)
        PROVE  IInv'
    <2>1. TypeOK'
      BY <1>0, <1>5 DEF ExchangeFails, TypeOK, PC
    <2>2. BitTellsOwner'
      BY <1>0, <1>5, <2>1, SameOwners DEF ExchangeFails, TypeOK
    <2> QED
      BY <2>1, <2>2 DEF IInv
  <1>6. CASE CompareExchange(t, "lockCAS", loaded[t] + 1, "owner")
    <2>1. ~Locked(m_state) /\ m_state = loaded[t] /\ Owners = {}
      BY <1>0, <1>6 DEF CompareExchange, Expected, BitTellsOwner
    <2>2. TypeOK'
      BY <1>0, <1>6 DEF CompareExchange, TypeOK, PC, Version
    <2>3. Locked(m_state')
      BY <1>0, <1>6, <2>1, BitLemma DEF CompareExchange, TypeOK
    <2>4. Owners' = {t}
      BY <1>0, <1>6, <2>1 DEF CompareExchange, Owners, TypeOK
    <2>5. \A u \in Thread : pc'[u] \in {"lockCAS", "setCAS"} => ~Locked(loaded'[u])
      BY <1>0, <1>6 DEF CompareExchange, TypeOK, BitTellsOwner
    <2>6. \A u \in Thread : pc'[u] # "store"
      BY <1>0, <1>6, <2>1 DEF CompareExchange, TypeOK, Owners
    <2> QED
      BY <2>2, <2>3, <2>4, <2>5, <2>6 DEF IInv, BitTellsOwner, Locked
  <1>7. CASE CompareExchange(t, "setCAS", pack(new[t], FALSE), "free")
    <2>1. ~Locked(m_state) /\ Owners = {}
      BY <1>0, <1>7 DEF CompareExchange, Expected, BitTellsOwner
    <2>2. new[t] \in Nat
      BY <1>0 DEF TypeOK, Version
    <2>3. TypeOK'
      <3>1. m_state' \in Nat
        BY <1>7, <2>2, PackLemma DEF CompareExchange
      <3>2. /\ pc' = [pc EXCEPT ![t] = "free"]
            /\ loaded' = [loaded EXCEPT ![t] = 0]
            /\ new' = [new EXCEPT ![t] = 0]
            /\ result' = result
        BY <1>7 DEF CompareExchange
      <3> QED
        BY <1>0, <3>1, <3>2 DEF TypeOK, PC, Version
    <2>4. ~Locked(m_state')
      BY <1>7, <2>2, PackLemma DEF CompareExchange
    <2>5. Owners' = {}
      BY <1>0, <1>7, <2>1 DEF CompareExchange, Owners, TypeOK
    <2>6. \A u \in Thread : pc'[u] \in {"lockCAS", "setCAS"} => ~Locked(loaded'[u])
      BY <1>0, <1>7 DEF CompareExchange, TypeOK, BitTellsOwner
    <2>7. \A u \in Thread : pc'[u] # "store"
      BY <2>5 DEF Owners
    <2> QED
      BY <2>3, <2>4, <2>5, <2>6, <2>7 DEF IInv, BitTellsOwner, Locked
  <1>8. CASE GetVersion(t)
    <2>1. TypeOK'
      BY <1>0, <1>8, BitLemma DEF GetVersion, TypeOK, PC
    <2>2. BitTellsOwner'
      BY <1>0, <1>8, <2>1, SameOwners DEF GetVersion, TypeOK
    <2> QED
      BY <2>1, <2>2 DEF IInv
  <1>9. CASE UnsafeSetLoad(t)
    <2>1. TypeOK'
      BY <1>0, <1>9 DEF UnsafeSetLoad, TypeOK, PC
    <2>2. Locked(m_state)
      BY <1>0, <1>9 DEF UnsafeSetLoad, BitTellsOwner, Owners
    <2>3. BitTellsOwner'
      BY <1>0, <1>9, <2>1, <2>2, SameOwners DEF UnsafeSetLoad, TypeOK
    <2> QED
      BY <2>1, <2>3 DEF IInv
  <1>10. CASE UnsafeSetStore(t)
    <2>1. Locked(loaded[t]) /\ t \in Owners
      BY <1>0, <1>10 DEF UnsafeSetStore, BitTellsOwner, Owners
    <2>2. new[t] \in Nat
      BY <1>0 DEF TypeOK, Version
    <2>3. TypeOK'
      <3>1. m_state' \in Nat
        BY <1>10, <2>1, <2>2, PackLemma DEF UnsafeSetStore, StoredWord
      <3> QED
        BY <1>0, <1>10, <3>1 DEF UnsafeSetStore, TypeOK, PC, Version
    <2>4. Locked(m_state')
      BY <1>10, <2>1, <2>2, PackLemma DEF UnsafeSetStore, StoredWord
    <2>5. Owners = {t}
      BY <1>0, <2>1 DEF BitTellsOwner
    <2>6. Owners' = {t}
      BY <1>0, <1>10, <2>5 DEF UnsafeSetStore, Owners, TypeOK
    <2>7. \A u \in Thread : pc'[u] \in {"lockCAS", "setCAS"} => ~Locked(loaded'[u])
      BY <1>0, <1>10 DEF UnsafeSetStore, TypeOK, BitTellsOwner
    <2>8. \A u \in Thread : pc'[u] # "store"
      BY <1>0, <1>10, <2>6 DEF UnsafeSetStore, TypeOK, Owners
    <2> QED
      BY <2>3, <2>4, <2>6, <2>7, <2>8 DEF IInv, BitTellsOwner, Locked
  <1>11. CASE Unlock(t)
    <2>1. Owners = {t}
      BY <1>0, <1>11 DEF Unlock, BitTellsOwner, Owners
    <2>2. TypeOK'
      BY <1>0, <1>11, BitLemma DEF Unlock, TypeOK, PC
    <2>3. ~Locked(m_state')
      BY <1>0, <1>11, BitLemma DEF Unlock, TypeOK
    <2>4. Owners' = {}
      BY <1>0, <1>11, <2>1 DEF Unlock, Owners, TypeOK
    <2>5. \A u \in Thread : pc'[u] \in {"lockCAS", "setCAS"} => ~Locked(loaded'[u])
      BY <1>0, <1>11 DEF Unlock, TypeOK, BitTellsOwner
    <2>6. \A u \in Thread : pc'[u] # "store"
      BY <2>4 DEF Owners
    <2> QED
      BY <2>2, <2>3, <2>4, <2>5, <2>6 DEF IInv, BitTellsOwner, Locked
  <1>12. CASE IncrVersion(t)
    <2>1. m_state + 2 \in Nat /\ unpack_version(m_state + 2) \in Nat
      BY <1>0, BitLemma DEF TypeOK
    <2>2. TypeOK'
      BY <1>0, <1>12, <2>1 DEF IncrVersion, TypeOK, PC
    <2>3. Locked(m_state') <=> Locked(m_state)
      BY <1>0, <1>12, BitLemma DEF IncrVersion, TypeOK
    <2>4. Owners' = Owners
      BY <1>12 DEF IncrVersion, Owners
    <2>5. BitTellsOwner'
      BY <1>0, <1>12, <2>3, <2>4 DEF IncrVersion, BitTellsOwner, Locked
    <2> QED
      BY <2>2, <2>5 DEF IInv
  <1>13. CASE LockLoad(t)
    BY <1>4, <1>13 DEF LockLoad
  <1>14. CASE SetLoad(t)
    BY <1>4, <1>14 DEF SetLoad
  <1>15. CASE LockExchange(t)
    <2>1. CASE ExchangeFails(t, "lockCAS", "lock")
      BY <1>5, <2>1
    <2> QED
      BY <2>1, <1>6, <1>15 DEF LockExchange
  <1>16. CASE SetExchange(t)
    <2>1. CASE ExchangeFails(t, "setCAS", "set")
      BY <1>5, <2>1
    <2> QED
      BY <2>1, <1>7, <1>16 DEF SetExchange
  <1> QED
    BY <1>1, <1>2, <1>3, <1>8, <1>9, <1>10, <1>11, <1>12, <1>13, <1>14, <1>15,
       <1>16 DEF Step

\* version_lock.h: every variable keeps its type, and the lock bit always
\* tells whether there is an owner, of which there is never more than one.
THEOREM BitInvariance == Spec => [](TypeOK /\ BitTellsOwner)
  <1>1. Init => IInv
    BY WordAssumption
       DEF Init, IInv, TypeOK, BitTellsOwner, Owners, Locked, PC, Version
  <1>2. IInv /\ [Next]_vars => IInv'
    <2> SUFFICES ASSUME IInv, [Next]_vars
                 PROVE  IInv'
      OBVIOUS
    <2>1. CASE Next
      BY <2>1, StepInvariance DEF Next
    <2>2. CASE UNCHANGED vars
      BY <2>2 DEF vars, IInv, TypeOK, BitTellsOwner, Owners, Locked
    <2> QED
      BY <2>1, <2>2
  <1> QED
    BY <1>1, <1>2, PTL DEF Spec, IInv


----------------------------------------------------------------------------
\* Under the invariant the refinement mapping is as expected.
LEMMA HolderLemma ==
  /\ Owners = {} => AbsHolder = NoThread
  /\ \A t \in Thread : Owners = {t} => AbsHolder = t
  BY DEF AbsHolder, Owners

\* The same after a step.
LEMMA HolderPrime ==
  /\ Owners' = {} => AbsHolder' = NoThread
  /\ \A t \in Thread : Owners' = {t} => AbsHolder' = t
  BY DEF AbsHolder, Owners

\* Every step of an operation is a step of the atomic lock or none.
LEMMA StepRefinement ==
  ASSUME IInv, IInv', NEW t \in Thread, Step(t)
  PROVE  Abs!ANext \/ UNCHANGED Abs!avars
  <1> USE WordAssumption
  <1>0. TypeOK /\ BitTellsOwner /\ TypeOK' /\ BitTellsOwner'
    BY DEF IInv
  <1> DEFINE Quiet ==
        /\ m_state' = m_state
        /\ result' = result
        /\ \A u \in Thread :
             pc[u] \in {"owner", "store"} <=> pc'[u] \in {"owner", "store"}
  <1>1. ASSUME Quiet
        PROVE  UNCHANGED Abs!avars
    <2>1. Owners' = Owners
      BY <1>1 DEF Owners
    <2>2. AbsHolder' = AbsHolder
      BY <2>1 DEF AbsHolder
    <2> QED
      BY <1>1, <2>2 DEF Abs!avars, unpack_version
  <1> HIDE DEF Quiet
  <1>2. CASE CallLock(t) \/ CallGet(t) \/ CallSet(t)
    <2>1. Quiet
      BY <1>0, <1>2 DEF Quiet, CallLock, CallGet, CallSet, TypeOK
    <2> QED
      BY <1>1, <2>1
  <1>3. CASE LockLoad(t) \/ SetLoad(t)
    <2>1. Quiet
      BY <1>0, <1>3 DEF Quiet, LockLoad, SetLoad, Load, vars, TypeOK
    <2> QED
      BY <1>1, <2>1
  <1>4. CASE LockExchange(t)
    <2>1. CASE ExchangeFails(t, "lockCAS", "lock")
      <3>1. Quiet
        BY <1>0, <2>1 DEF Quiet, ExchangeFails, TypeOK
      <3> QED
        BY <1>1, <3>1
    <2>2. CASE CompareExchange(t, "lockCAS", loaded[t] + 1, "owner")
      <3>1. /\ m_state \in Nat
            /\ ~Locked(m_state)
            /\ m_state' = m_state + 1
            /\ result' = result
            /\ pc'[t] = "owner"
        BY <1>0, <2>2 DEF CompareExchange, Expected, BitTellsOwner, TypeOK
      <3>2. Locked(m_state') /\ unpack_version(m_state') = unpack_version(m_state)
        BY <3>1, BitLemma
      <3>3. Owners = {} /\ Owners' = {t}
        BY <1>0, <3>1, <3>2 DEF BitTellsOwner, Owners
      <3>4. AbsHolder = NoThread /\ AbsHolder' = t
        BY <3>3, HolderLemma, HolderPrime
      <3>5. Abs!Acquire(t)
        BY <3>1, <3>2, <3>4 DEF Abs!Acquire
      <3> QED
        BY <3>5 DEF Abs!ANext
    <2> QED
      BY <1>4, <2>1, <2>2 DEF LockExchange
  <1>5. CASE SetExchange(t)
    <2>1. CASE ExchangeFails(t, "setCAS", "set")
      <3>1. Quiet
        BY <1>0, <2>1 DEF Quiet, ExchangeFails, TypeOK
      <3> QED
        BY <1>1, <3>1
    <2>2. CASE CompareExchange(t, "setCAS", pack(new[t], FALSE), "free")
      <3>1. /\ ~Locked(m_state)
            /\ m_state' = pack(new[t], FALSE)
            /\ result' = result
        BY <1>0, <2>2 DEF CompareExchange, Expected, BitTellsOwner, TypeOK
      <3>2. new[t] \in Version /\ new[t] \in Nat
        BY <1>0 DEF TypeOK, Version
      <3>3. ~Locked(m_state') /\ unpack_version(m_state') = new[t]
        BY <3>1, <3>2, PackLemma
      <3>4. Owners = {} /\ Owners' = {}
        BY <1>0, <3>1, <3>3 DEF BitTellsOwner
      <3>5. AbsHolder = NoThread /\ AbsHolder' = NoThread
        BY <3>4, HolderLemma, HolderPrime
      <3>6. Abs!Set(t, new[t])
        BY <3>1, <3>3, <3>5 DEF Abs!Set, Abs!Access
      <3> QED
        BY <3>2, <3>6 DEF Abs!ANext
    <2> QED
      BY <1>5, <2>1, <2>2 DEF SetExchange
  <1>6. CASE GetVersion(t)
    <2>1. /\ m_state' = m_state
          /\ result' = [result EXCEPT ![t] = unpack_version(m_state)]
      BY <1>6 DEF GetVersion
    <2>2. Owners' = Owners
      BY <1>0, <1>6 DEF GetVersion, Owners, TypeOK
    <2>3. Owners = {} \/ Owners = {t}
      BY <1>0, <1>6 DEF GetVersion, BitTellsOwner, Owners
    <2>4. AbsHolder' = AbsHolder /\ AbsHolder \in {NoThread, t}
      BY <2>2, <2>3, HolderLemma, HolderPrime
    <2>5. Abs!Get(t)
      BY <2>1, <2>4 DEF Abs!Get, Abs!Access
    <2> QED
      BY <2>5 DEF Abs!ANext
  <1>7. CASE UnsafeSetLoad(t)
    <2>1. Quiet
      BY <1>0, <1>7 DEF Quiet, UnsafeSetLoad, TypeOK
    <2> QED
      BY <1>1, <2>1
  <1>8. CASE UnsafeSetStore(t)
    <2>1. /\ m_state' = pack(new[t], TRUE)
          /\ result' = result
          /\ pc[t] = "store"
          /\ pc'[t] = "owner"
      BY <1>0, <1>8 DEF UnsafeSetStore, StoredWord, BitTellsOwner, TypeOK, pack
    <2>2. new[t] \in Version /\ new[t] \in Nat
      BY <1>0 DEF TypeOK, Version
    <2>3. Locked(m_state') /\ unpack_version(m_state') = new[t]
      BY <2>1, <2>2, PackLemma
    <2>4. Owners = {t} /\ Owners' = {t}
      BY <1>0, <2>1 DEF BitTellsOwner, Owners
    <2>5. AbsHolder = t /\ AbsHolder' = t
      BY <2>4, HolderLemma, HolderPrime
    <2>6. Abs!Set(t, new[t])
      BY <2>1, <2>3, <2>5 DEF Abs!Set, Abs!Access
    <2> QED
      BY <2>2, <2>6 DEF Abs!ANext
  <1>9. CASE Unlock(t)
    <2>1. /\ m_state' = Cleared(m_state)
          /\ result' = result
          /\ pc[t] = "owner"
      BY <1>9 DEF Unlock
    <2>2. ~Locked(m_state') /\ unpack_version(m_state') = unpack_version(m_state)
      BY <1>0, <2>1, BitLemma DEF TypeOK
    <2>3. Owners = {t} /\ Owners' = {}
      BY <1>0, <2>1, <2>2 DEF BitTellsOwner, Owners
    <2>4. AbsHolder = t /\ AbsHolder' = NoThread
      BY <2>3, HolderLemma, HolderPrime
    <2>5. Abs!Release(t)
      BY <2>1, <2>2, <2>4 DEF Abs!Release
    <2> QED
      BY <2>5 DEF Abs!ANext
  <1>10. CASE IncrVersion(t)
    <2>1. /\ m_state' = m_state + 2
          /\ result' = [result EXCEPT ![t] = unpack_version(m_state')]
          /\ pc' = pc
      BY <1>10 DEF IncrVersion
    <2>2. unpack_version(m_state') = unpack_version(m_state) + 1
      BY <1>0, <2>1, BitLemma DEF TypeOK
    <2>3. AbsHolder' = AbsHolder
      BY <2>1 DEF AbsHolder, Owners
    <2>4. Abs!Increment(t)
      BY <2>1, <2>2, <2>3 DEF Abs!Increment
    <2> QED
      BY <2>4 DEF Abs!ANext
  <1> QED
    BY <1>2, <1>3, <1>4, <1>5, <1>6, <1>7, <1>8, <1>9, <1>10 DEF Step

\* version_lock.h: the loops over load and compare-and-swap, and the separate
\* load and store of unsafe_set_version(), behave as single steps, for any
\* number of threads and any versions.
THEOREM LockRefinement == Spec => AtomicOperations
  <1>1. Init => Abs!AInit
    <2> SUFFICES ASSUME Init PROVE Abs!AInit
      OBVIOUS
    <2>1. Owners = {} /\ unpack_version(m_state) = 0
      BY DEF Init, Owners, unpack_version
    <2>2. AbsHolder = NoThread
      BY <2>1, HolderLemma
    <2> QED
      BY <2>1, <2>2 DEF Init, Abs!AInit
  <1>2. IInv /\ IInv' /\ [Next]_vars => [Abs!ANext]_(Abs!avars)
    <2> SUFFICES ASSUME IInv, IInv', [Next]_vars
                 PROVE  Abs!ANext \/ UNCHANGED Abs!avars
      OBVIOUS
    <2>1. CASE Next
      BY <2>1, StepRefinement DEF Next
    <2>2. CASE UNCHANGED vars
      BY <2>2 DEF vars, Abs!avars, AbsHolder, Owners, unpack_version
    <2> QED
      BY <2>1, <2>2
  <1>3. Spec => []IInv
    BY BitInvariance DEF IInv
  <1> QED
    BY <1>1, <1>2, <1>3, PTL DEF Spec, AtomicOperations, Abs!ASpec
\* The type of every variable, for any number of threads.
THEOREM TypeCorrect == Spec => []TypeOK
  <1>1. TypeOK /\ BitTellsOwner => TypeOK
    OBVIOUS
  <1> QED
    BY <1>1, BitInvariance, PTL
=============================================================================
