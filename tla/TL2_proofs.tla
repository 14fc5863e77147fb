----------------------------- MODULE TL2_proofs -----------------------------
(***************************************************************************)
(* Proofs, for any number of threads, addresses, values and stripes, of    *)
(* the safety properties of the core, and that it implements AtomicSTM     *)
(* under the mapping of TL2Props: atomically() is strictly serializable.   *)
(***************************************************************************)
EXTENDS TL2Inv, WellFoundedInduction, TLAPS

\* The lock table has a stripe for every address (hash_table.h).
LEMMA IndexType == \A a \in Addr : Index(a) \in Stripe
<1> TAKE a \in Addr
<1>1. /\ a \in Nat
      /\ LockTableSize \in Nat
      /\ LockTableSize > 0
  BY ConstAssumption
<1>2. a \div 4 \in Nat
  BY <1>1
<1>3. \A n \in Nat : n % LockTableSize \in 0 .. (LockTableSize - 1)
  BY <1>1
<1> QED
  BY <1>2, <1>3 DEF Index, Stripe

\* NoAddr is not the address of a TVar.
LEMMA NoAddrType == NoAddr \notin Addr
  BY ConstAssumption DEF NoAddr

\* The program starts with every variable of its type.
LEMMA InitTypeOK == Init => TypeOK
  BY ConstAssumption, NoAddrType
  DEF Init, TypeOK, NothingSeen, NothingWritten, Stripe, PC

\* No step of any thread takes a variable out of its type.
LEMMA NextTypeOK ==
  ASSUME TypeOK, CoverInv, [Next]_vars
  PROVE  TypeOK'
<1> USE DEF TypeOK
<1>1. ASSUME NEW t \in Thread, Begin(t)
      PROVE  TypeOK'
  BY <1>1, NoAddrType DEF Begin, StartTransaction, shared, NothingSeen, NothingWritten, PC
<1>2. ASSUME NEW t \in Thread, NEW a \in Addr, RegisterRead(t, a)
      PROVE  TypeOK'
  BY <1>2 DEF RegisterRead, shared, PC
<1>3. ASSUME NEW t \in Thread, SampleVersion(t)
      PROVE  TypeOK'
  <2>1. CASE wset[t][cur[t]] # NoVal
    <3>1. /\ pc' = [pc EXCEPT ![t] = "body"]
          /\ cur' = [cur EXCEPT ![t] = NoAddr]
          /\ UNCHANGED <<shared, rv, wv, logvars, todo, held, body>>
      BY <1>3, <2>1 DEF SampleVersion
    <3> QED
      BY <3>1, NoAddrType DEF shared, logvars, body, PC
  <2>2. CASE wset[t][cur[t]] = NoVal
    BY <1>3, <2>2 DEF SampleVersion, shared, logvars, body, PC
  <2> QED
    BY <2>1, <2>2
<1>4. ASSUME NEW t \in Thread, LoadTrivial(t)
      PROVE  TypeOK'
  BY <1>4, NoAddrType DEF LoadTrivial, ReturnValue, shared, logvars, PC
<1>5. ASSUME NEW t \in Thread, LockForCopy(t)
      PROVE  TypeOK'
  BY <1>5, IndexType DEF LockForCopy, Lock, logvars, body, PC
<1>6. ASSUME NEW t \in Thread, CopyAndUnlock(t)
      PROVE  TypeOK'
  BY <1>6, IndexType, NoAddrType DEF CopyAndUnlock, Unlock, ReturnValue, logvars, PC
<1>7. ASSUME NEW t \in Thread, CopyThrows(t)
      PROVE  TypeOK'
  BY <1>7, NoAddrType
  DEF CopyThrows, EndTransaction, shared, NothingSeen, NothingWritten, PC
<1>7c. ASSUME NEW t \in Thread, CopyCaught(t)
       PROVE  TypeOK'
  BY <1>7c, NoAddrType DEF CopyCaught, shared, logvars, body, PC
<1>8. ASSUME NEW t \in Thread, NEW a \in Addr, NEW v \in Val, Write(t, a, v)
      PROVE  TypeOK'
  BY <1>8 DEF Write, shared
<1>9. ASSUME NEW t \in Thread, Throw(t)
      PROVE  TypeOK'
  BY <1>9, NoAddrType DEF Throw, EndTransaction, shared, NothingSeen, NothingWritten, PC
<1>10. ASSUME NEW t \in Thread, TryCommit(t)
       PROVE  TypeOK'
  BY <1>10 DEF TryCommit, Locations, Written, shared, logvars, body, PC
<1>11. ASSUME NEW t \in Thread, LockNext(t)
       PROVE  TypeOK'
  <2>1. PICK a \in Addr :
          /\ \/ Lock(Index(a)) /\ held' = [held EXCEPT ![t] = @ \cup {a}]
             \/ UNCHANGED <<locked, held>>
          /\ owner' = [owner EXCEPT ![t] = @ \cup {a}]
          /\ todo' = [todo EXCEPT ![t] = @ \ {a}]
    BY <1>11 DEF LockNext
  <2>2. locked' \in [Stripe -> BOOLEAN] /\ held' \in [Thread -> SUBSET Addr]
    <3>1. CASE Lock(Index(a)) /\ held' = [held EXCEPT ![t] = @ \cup {a}]
      BY <3>1, IndexType DEF Lock
    <3>2. CASE UNCHANGED <<locked, held>>
      BY <3>2
    <3> QED
      BY <2>1, <3>1, <3>2
  <2>3. UNCHANGED <<clock, version, mem, pc, cur, rv, wv, reads, wset, body>>
    BY <1>11 DEF LockNext
  <2>4. owner' \in [Thread -> SUBSET Addr] /\ todo' \in [Thread -> SUBSET Addr]
    BY <2>1
  <2> QED
    BY <2>2, <2>3, <2>4 DEF body
<1>12. ASSUME NEW t \in Thread, GuardThrows(t)
       PROVE  TypeOK'
  BY <1>12, NoAddrType
  DEF GuardThrows, EndTransaction, shared, NothingSeen, NothingWritten, PC
<1>13. ASSUME NEW t \in Thread, IncrVersion(t)
       PROVE  TypeOK'
  <2>1. /\ pc' \in [Thread -> PC]
        /\ \A u \in Thread : pc'[u] \in {"sample", "load", "copy"}
                             <=> pc[u] \in {"sample", "load", "copy"}
    <3>1. CASE NoCommitSince(t, clock')
      BY <1>13, <3>1 DEF IncrVersion, PC
    <3>2. CASE ~NoCommitSince(t, clock')
      BY <1>13, <3>2 DEF IncrVersion, PC
    <3> QED
      BY <3>1, <3>2
  <2>2. todo' \in [Thread -> SUBSET Addr]
    <3>1. /\ Written(t) \subseteq Addr
          /\ reads[t] \subseteq Addr
      BY DEF Written
    <3>2. \/ todo' = [todo EXCEPT ![t] = Written(t)]
          \/ todo' = [todo EXCEPT ![t] = reads[t]]
      BY <1>13 DEF IncrVersion
    <3> QED
      BY <3>1, <3>2
  <2> QED
    BY <1>13, <2>1, <2>2 DEF IncrVersion, logvars, body
<1>14. ASSUME NEW t \in Thread, ValidateNext(t)
       PROVE  TypeOK'
  <2>1. /\ pc' = pc \/ pc' = [pc EXCEPT ![t] = "aborted"]
        /\ todo' \in [Thread -> SUBSET Addr]
    BY <1>14 DEF ValidateNext
  <2> QED
    BY <1>14, <2>1 DEF ValidateNext, shared, logvars, body, PC
<1>15. ASSUME NEW t \in Thread, Validated(t)
       PROVE  TypeOK'
  BY <1>15 DEF Validated, Written, shared, logvars, body, PC
<1>16. ASSUME NEW t \in Thread, SetVersion(t)
       PROVE  TypeOK'
  BY <1>16, IndexType DEF SetVersion, Stamp, logvars, body, PC
<1>17. ASSUME NEW t \in Thread, Move(t)
       PROVE  TypeOK'
  <2>1. todo[t] \subseteq Written(t)
    BY <1>17 DEF Move, CoverInv, WritingBack
  <2> QED
    BY <1>17, <2>1 DEF Move, NextLoc, Written, logvars, body, PC
<1>18. ASSUME NEW t \in Thread, CommitDone(t)
       PROVE  TypeOK'
  BY <1>18 DEF CommitDone, shared, logvars, body, PC
<1>19. ASSUME NEW t \in Thread, UnlockLast(t)
       PROVE  TypeOK'
  BY <1>19, IndexType DEF UnlockLast, Unlock, body
<1>20. ASSUME NEW t \in Thread, Return(t)
       PROVE  TypeOK'
  BY <1>20, NoAddrType DEF Return, EndTransaction, shared, NothingSeen, NothingWritten, PC
<1>21. ASSUME NEW t \in Thread, Retry(t)
       PROVE  TypeOK'
  BY <1>21, NoAddrType DEF Retry, StartTransaction, shared, NothingSeen, NothingWritten, PC
<1>22. ASSUME UNCHANGED vars
       PROVE  TypeOK'
  BY <1>22 DEF vars, shared, logvars, body
<1> QED
  BY <1>1, <1>2, <1>3, <1>4, <1>5, <1>6, <1>7, <1>7c, <1>8, <1>9, <1>10, <1>11,
     <1>12, <1>13, <1>14, <1>15, <1>16, <1>17, <1>18, <1>19, <1>20, <1>21,
     <1>22
  DEF Next, Step, Spin, Finished

----------------------------------------------------------------------------
(* Frame conditions: what a step of one thread leaves alone.               *)

\* The private state of thread u is left as it is.
Same(u) ==
  /\ pc'[u] = pc[u]
  /\ cur'[u] = cur[u]
  /\ rv'[u] = rv[u]
  /\ wv'[u] = wv[u]
  /\ reads'[u] = reads[u]
  /\ wset'[u] = wset[u]
  /\ owner'[u] = owner[u]
  /\ todo'[u] = todo[u]
  /\ held'[u] = held[u]
  /\ seen'[u] = seen[u]

\* A step of one thread leaves the private state of every other alone: logs,
\* contexts and lock guards are thread_local or on the stack (state.h).
LEMMA Frame ==
  ASSUME TypeOK, NEW t \in Thread, Step(t), NEW u \in Thread, u # t
  PROVE  Same(u)
<1> USE DEF TypeOK, Same
<1>1. ASSUME Begin(t) \/ Retry(t)
      PROVE  Same(u)
  BY <1>1 DEF Begin, Retry, StartTransaction
<1>2. ASSUME NEW a \in Addr, RegisterRead(t, a)
      PROVE  Same(u)
  BY <1>2 DEF RegisterRead
<1>3. ASSUME SampleVersion(t)
      PROVE  Same(u)
  <2>1. pc'[u] = pc[u] /\ cur'[u] = cur[u]
    BY <1>3 DEF SampleVersion
  <2> QED
    BY <1>3, <2>1 DEF SampleVersion, logvars, body
<1>4. ASSUME LoadTrivial(t) \/ CopyAndUnlock(t)
      PROVE  Same(u)
  BY <1>4 DEF LoadTrivial, CopyAndUnlock, ReturnValue, logvars
<1>5. ASSUME LockForCopy(t)
      PROVE  Same(u)
  BY <1>5 DEF LockForCopy, logvars, body
<1>6. ASSUME CopyThrows(t) \/ Throw(t) \/ GuardThrows(t) \/ Return(t)
      PROVE  Same(u)
  BY <1>6 DEF CopyThrows, Throw, GuardThrows, Return, EndTransaction
<1>6c. ASSUME CopyCaught(t)
       PROVE  Same(u)
  BY <1>6c DEF CopyCaught, logvars, body
<1>7. ASSUME NEW a \in Addr, NEW v \in Val, Write(t, a, v)
      PROVE  Same(u)
  BY <1>7 DEF Write
<1>8. ASSUME TryCommit(t)
      PROVE  Same(u)
  BY <1>8 DEF TryCommit, logvars, body
<1>9. ASSUME LockNext(t)
      PROVE  Same(u)
  <2>1. held'[u] = held[u] /\ todo'[u] = todo[u]
    BY <1>9 DEF LockNext
  <2> QED
    BY <1>9, <2>1 DEF LockNext, body
<1>10. ASSUME IncrVersion(t)
       PROVE  Same(u)
  <2>1. pc'[u] = pc[u] /\ todo'[u] = todo[u]
    BY <1>10 DEF IncrVersion
  <2> QED
    BY <1>10, <2>1 DEF IncrVersion, logvars, body
<1>11. ASSUME ValidateNext(t)
       PROVE  Same(u)
  <2>1. pc'[u] = pc[u] /\ todo'[u] = todo[u]
    BY <1>11 DEF ValidateNext
  <2> QED
    BY <1>11, <2>1 DEF ValidateNext, logvars, body
<1>12. ASSUME Validated(t) \/ SetVersion(t) \/ Move(t) \/ CommitDone(t)
       PROVE  Same(u)
  BY <1>12 DEF Validated, SetVersion, Move, CommitDone, logvars, body
<1>13. ASSUME UnlockLast(t)
       PROVE  Same(u)
  BY <1>13 DEF UnlockLast, body
<1>14. ASSUME UNCHANGED vars
       PROVE  Same(u)
  BY <1>14 DEF vars, logvars, body
<1> QED
  BY <1>1, <1>2, <1>3, <1>4, <1>5, <1>6, <1>6c, <1>7, <1>8, <1>9, <1>10, <1>11,
     <1>12, <1>13, <1>14
  DEF Step, Spin

\* What is derived from a thread's private state is then left alone, too.
LEMMA SameDerived ==
  ASSUME NEW u \in Thread, Same(u)
  PROVE  /\ Written(u)' = Written(u)
         /\ Locations(u)' = Locations(u)
         /\ HeldStripes(u)' = HeldStripes(u)
         /\ Locks(u)' = Locks(u)
         /\ Sampled(u)' = Sampled(u)
         /\ \A a \in Addr : NextLoc(u, a)' <=> NextLoc(u, a)
<1> USE DEF Same
<1>1. Written(u)' = Written(u)
  BY DEF Written
<1>2. Locations(u)' = Locations(u)
  BY <1>1 DEF Locations
<1>3. HeldStripes(u)' = HeldStripes(u)
  BY DEF HeldStripes
<1>4. Locks(u)' = Locks(u)
  BY <1>3 DEF Locks
<1>5. Sampled(u)' = Sampled(u)
  BY DEF Sampled
<1>6. \A a \in Addr : NextLoc(u, a)' <=> NextLoc(u, a)
  BY DEF NextLoc
<1> QED
  BY <1>1, <1>2, <1>3, <1>4, <1>5, <1>6

\* Which actions change the clock, a version, or a TVar.
LEMMA SharedFrame ==
  ASSUME NEW t \in Thread, Step(t)
  PROVE  /\ IncrVersion(t) \/ UNCHANGED clock
         /\ SetVersion(t) \/ UNCHANGED version
         /\ Move(t) \/ UNCHANGED mem
  BY DEF Step, Begin, RegisterRead, SampleVersion, LoadTrivial, LockForCopy,
         CopyAndUnlock, CopyThrows, CopyCaught, Write, Throw, TryCommit, LockNext,
         GuardThrows, IncrVersion, ValidateNext, Validated, SetVersion, Move,
         CommitDone, UnlockLast, Return, Retry, Spin, vars, shared

----------------------------------------------------------------------------
(* Locks.                                                                  *)

\* An action that is not about locks: the lock bits and t's locks stay.
LockQuiet(t) ==
  /\ UNCHANGED locked
  /\ held'[t] = held[t]
  /\ pc[t] # "copy" /\ pc'[t] # "copy"
  /\ pc'[t] \notin Guarding => held[t] = {}

\* The seven actions that are about locks.
LEMMA LockActions ==
  ASSUME TypeOK, GuardInv, NEW t \in Thread, Step(t)
  PROVE  \/ LockForCopy(t) \/ CopyAndUnlock(t) \/ CopyThrows(t) \/ CopyCaught(t)
         \/ LockNext(t) \/ GuardThrows(t) \/ UnlockLast(t)
         \/ LockQuiet(t)
<1> USE DEF TypeOK, LockQuiet, Guarding
<1>0. pc[t] \notin Guarding => held[t] = {}
  BY DEF GuardInv
<1>1. ASSUME Begin(t) \/ Retry(t)
      PROVE  LockQuiet(t)
  BY <1>0, <1>1 DEF Begin, Retry, StartTransaction, shared
<1>2. ASSUME NEW a \in Addr, RegisterRead(t, a)
      PROVE  LockQuiet(t)
  BY <1>0, <1>2 DEF RegisterRead, shared
<1>3. ASSUME SampleVersion(t)
      PROVE  LockQuiet(t)
  <2>1. pc'[t] \in {"body", "load"}
    BY <1>3 DEF SampleVersion
  <2> QED
    BY <1>0, <1>3, <2>1 DEF SampleVersion, shared
<1>4. ASSUME LoadTrivial(t)
      PROVE  LockQuiet(t)
  BY <1>0, <1>4 DEF LoadTrivial, ReturnValue, shared
<1>5. ASSUME Throw(t) \/ Return(t)
      PROVE  LockQuiet(t)
  BY <1>0, <1>5 DEF Throw, Return, EndTransaction, shared
<1>6. ASSUME NEW a \in Addr, NEW v \in Val, Write(t, a, v)
      PROVE  LockQuiet(t)
  BY <1>0, <1>6 DEF Write, shared
<1>7. ASSUME TryCommit(t)
      PROVE  LockQuiet(t)
  BY <1>7 DEF TryCommit, shared
<1>8. ASSUME IncrVersion(t)
      PROVE  LockQuiet(t)
  <2>1. pc'[t] \in {"commit", "validate"}
    BY <1>8 DEF IncrVersion
  <2> QED
    BY <1>8, <2>1 DEF IncrVersion
<1>9. ASSUME ValidateNext(t)
      PROVE  LockQuiet(t)
  <2>1. pc'[t] \in {"validate", "aborted"}
    BY <1>9 DEF ValidateNext
  <2> QED
    BY <1>9, <2>1 DEF ValidateNext, shared
<1>10. ASSUME Validated(t) \/ SetVersion(t) \/ Move(t) \/ CommitDone(t)
       PROVE  LockQuiet(t)
  BY <1>10 DEF Validated, SetVersion, Move, CommitDone, shared
<1>11. ASSUME Spin(t)
       PROVE  LockQuiet(t)
  <2>1. pc[t] # "copy"
    BY <1>11 DEF Spin, Awaited
  <2> QED
    BY <1>0, <1>11, <2>1 DEF Spin, vars, shared
<1> QED
  BY <1>1, <1>2, <1>3, <1>4, <1>5, <1>6, <1>7, <1>8, <1>9, <1>10, <1>11
  DEF Step

\* LockExclusion and GuardInv are preserved by every step.
LEMMA NextLocks ==
  ASSUME TypeOK, LockExclusion, GuardInv, NEW t \in Thread, Step(t)
  PROVE  LockExclusion' /\ GuardInv'
<1> USE DEF TypeOK
<1>0. \A u \in Thread : u # t => /\ Locks(u)' = Locks(u)
                                 /\ held'[u] = held[u]
                                 /\ pc'[u] = pc[u]
  BY Frame, SameDerived DEF Same
<1>h. pc[t] \notin Guarding => held[t] = {}
  BY DEF GuardInv
\* It is enough that t's locks are locked and nobody else's, and that the
\* locks of the others stay locked.
<1>x. ASSUME \A s \in Locks(t)' : locked'[s],
             \A u \in Thread : u # t => /\ Locks(t)' \cap Locks(u) = {}
                                        /\ \A s \in Locks(u) : locked'[s]
      PROVE  LockExclusion'
  <2> SUFFICES ASSUME NEW u \in Thread, NEW w \in Thread
               PROVE  /\ \A s \in Locks(u)' : locked'[s]
                      /\ u # w => Locks(u)' \cap Locks(w)' = {}
    BY DEF LockExclusion
  <2>1. CASE u = t /\ w = t
    BY <1>x, <2>1
  <2>2. CASE u = t /\ w # t
    <3>1. Locks(w)' = Locks(w)
      BY <1>0, <2>2
    <3> QED
      BY <1>x, <2>2, <3>1
  <2>3. CASE u # t /\ w = t
    <3>1. Locks(u)' = Locks(u)
      BY <1>0, <2>3
    <3> QED
      BY <1>x, <2>3, <3>1
  <2>4. CASE u # t /\ w # t
    <3>1. Locks(u)' = Locks(u) /\ Locks(w)' = Locks(w)
      BY <1>0, <2>4
    <3> QED
      BY <1>x, <2>4, <3>1 DEF LockExclusion
  <2> QED
    BY <2>1, <2>2, <2>3, <2>4
<1>1. CASE LockQuiet(t)
  <2>1. Locks(t)' = Locks(t)
    BY <1>1 DEF LockQuiet, Locks, HeldStripes
  <2>2. LockExclusion'
    BY <1>0, <1>1, <2>1, <1>x DEF LockExclusion, LockQuiet
  <2>3. GuardInv'
    BY <1>0, <1>1 DEF GuardInv, LockQuiet
  <2> QED
    BY <2>2, <2>3
<1>2. CASE LockForCopy(t)
  <2>1. /\ held'[t] = {} /\ held[t] = {}
        /\ pc'[t] = "copy"
        /\ cur'[t] = cur[t]
        /\ ~locked[Index(cur[t])]
        /\ locked' = [locked EXCEPT ![Index(cur[t])] = TRUE]
        /\ Index(cur[t]) \in Stripe
    BY <1>2, <1>h, IndexType DEF LockForCopy, Lock, Guarding
  <2>2. Locks(t)' = {Index(cur[t])}
    BY <2>1 DEF Locks, HeldStripes
  <2>3. LockExclusion'
    BY <1>0, <2>1, <2>2, <1>x DEF LockExclusion
  <2>4. GuardInv'
    BY <1>0, <2>1 DEF GuardInv
  <2> QED
    BY <2>3, <2>4
<1>3. CASE CopyAndUnlock(t) \/ CopyThrows(t) \/ CopyCaught(t)
  <2>1. /\ held'[t] = {} /\ held[t] = {}
        /\ pc[t] = "copy"
        /\ pc'[t] # "copy"
        /\ Index(cur[t]) \in Stripe
        /\ locked' = locked \/ locked' = [locked EXCEPT ![Index(cur[t])] = FALSE]
    BY <1>3, <1>h, IndexType
    DEF CopyAndUnlock, CopyThrows, CopyCaught, ReturnValue, EndTransaction, Unlock,
        shared, Guarding
  <2>2. Locks(t)' = {} /\ Locks(t) = {Index(cur[t])}
    BY <2>1 DEF Locks, HeldStripes
  <2>a. ASSUME NEW u \in Thread, u # t, NEW s \in Locks(u)
        PROVE  locked'[s]
    <3>1. locked[s] /\ s # Index(cur[t])
      BY <2>2, <2>a DEF LockExclusion
    <3>2. s \in Stripe
      BY <2>a, IndexType DEF Locks, HeldStripes
    <3>3. CASE locked' = locked
      BY <3>1, <3>3
    <3>4. CASE locked' = [locked EXCEPT ![Index(cur[t])] = FALSE]
      BY <3>1, <3>2, <3>4
    <3> QED
      BY <2>1, <3>3, <3>4
  <2>3. LockExclusion'
    BY <2>2, <2>a, <1>x
  <2>4. GuardInv'
    BY <1>0, <2>1 DEF GuardInv
  <2> QED
    BY <2>3, <2>4
<1>4. CASE LockNext(t)
  <2>1. PICK a \in Addr :
          \/ /\ Index(a) \notin HeldStripes(t)
             /\ Lock(Index(a))
             /\ held' = [held EXCEPT ![t] = @ \cup {a}]
          \/ UNCHANGED <<locked, held>>
    BY <1>4 DEF LockNext
  <2>2. pc[t] = "lock" /\ pc'[t] = "lock"
    BY <1>4 DEF LockNext
  <2>3. CASE UNCHANGED <<locked, held>>
    BY <1>0, <2>2, <2>3, ZenonT(60) DEF LockExclusion, GuardInv, Locks, HeldStripes, Guarding
  <2>4. CASE /\ Index(a) \notin HeldStripes(t)
             /\ Lock(Index(a))
             /\ held' = [held EXCEPT ![t] = @ \cup {a}]
    <3>1. Locks(t)' = Locks(t) \cup {Index(a)} /\ Locks(t) = HeldStripes(t)
      BY <2>2, <2>4 DEF Locks, HeldStripes
    <3>2. LockExclusion'
      BY <1>0, <2>4, <3>1, IndexType, <1>x DEF LockExclusion, Lock
    <3>3. GuardInv'
      BY <1>0, <2>2, <2>4 DEF GuardInv, HeldStripes, Guarding
    <3> QED
      BY <3>2, <3>3
  <2> QED
    BY <2>1, <2>3, <2>4
<1>5. CASE GuardThrows(t)
  <2>1. /\ held'[t] = {}
        /\ pc'[t] # "copy"
        /\ locked' = locked
    BY <1>5 DEF GuardThrows, EndTransaction, shared
  <2>2. Locks(t)' = {}
    BY <2>1 DEF Locks, HeldStripes
  <2> QED
    BY <1>0, <2>1, <2>2, <1>x DEF LockExclusion, GuardInv
<1>6. CASE UnlockLast(t)
  <2>1. PICK a \in held[t] :
          /\ locked' = [locked EXCEPT ![Index(a)] = FALSE]
          /\ held' = [held EXCEPT ![t] = @ \ {a}]
    BY <1>6 DEF UnlockLast, Unlock
  <2>2. pc[t] \in {"committed", "aborted"} /\ pc'[t] = pc[t]
    BY <1>6 DEF UnlockLast
  <2>3. Locks(t)' = Locks(t) \ {Index(a)} /\ Index(a) \in Locks(t)
    BY <2>1, <2>2 DEF Locks, HeldStripes, GuardInv
  <2>4. LockExclusion'
    BY <1>0, <2>1, <2>3, IndexType, <1>x DEF LockExclusion
  <2>5. GuardInv'
    BY <1>0, <2>1, <2>2 DEF GuardInv, Guarding
  <2> QED
    BY <2>4, <2>5
<1> QED
  BY <1>1, <1>2, <1>3, <1>4, <1>5, <1>6, LockActions

----------------------------------------------------------------------------
(* The log and the locks that cover it.                                    *)

\* The seven actions of try_commit() up to the end of the write-back; after
\* any other action t is not in that part of try_commit().
LEMMA CommitActions ==
  ASSUME TypeOK, NEW t \in Thread, Step(t)
  PROVE  \/ TryCommit(t) \/ LockNext(t) \/ IncrVersion(t) \/ ValidateNext(t)
         \/ Validated(t) \/ SetVersion(t) \/ Move(t)
         \/ pc'[t] \notin {"lock"} \cup PostClock
         \/ UNCHANGED vars
<1> USE DEF TypeOK, PostClock
<1>1. ASSUME Begin(t) \/ Retry(t)
      PROVE  pc'[t] = "body"
  BY <1>1 DEF Begin, Retry, StartTransaction
<1>2. ASSUME NEW a \in Addr, RegisterRead(t, a)
      PROVE  pc'[t] = "sample"
  BY <1>2 DEF RegisterRead
<1>3. ASSUME SampleVersion(t)
      PROVE  pc'[t] \in {"body", "load"}
  BY <1>3 DEF SampleVersion
<1>4. ASSUME LoadTrivial(t) \/ CopyAndUnlock(t) \/ CopyCaught(t)
      PROVE  pc'[t] = "body"
  BY <1>4 DEF LoadTrivial, CopyAndUnlock, CopyCaught, ReturnValue
<1>5. ASSUME LockForCopy(t)
      PROVE  pc'[t] = "copy"
  BY <1>5 DEF LockForCopy
<1>6. ASSUME CopyThrows(t) \/ Throw(t) \/ GuardThrows(t) \/ Return(t)
      PROVE  pc'[t] = "idle"
  BY <1>6 DEF CopyThrows, Throw, GuardThrows, Return, EndTransaction
<1>7. ASSUME NEW a \in Addr, NEW v \in Val, Write(t, a, v)
      PROVE  pc'[t] = "body"
  BY <1>7 DEF Write
<1>8. ASSUME CommitDone(t) \/ UnlockLast(t)
      PROVE  pc'[t] \in {"committed", "aborted"}
  BY <1>8 DEF CommitDone, UnlockLast
<1> QED
  BY <1>1, <1>2, <1>3, <1>4, <1>5, <1>6, <1>7, <1>8 DEF Step, Spin

\* CoverInv is preserved by every step.
LEMMA NextCover ==
  ASSUME TypeOK, CoverInv, NEW t \in Thread, Step(t)
  PROVE  CoverInv'
<1> USE DEF TypeOK
<1> SUFFICES ASSUME NEW u \in Thread
             PROVE  /\ pc'[u] = "lock" =>
                         \A a \in Locations(u)' \ todo'[u] : Index(a) \in HeldStripes(u)'
                    /\ pc'[u] \in PostClock =>
                         \A a \in Locations(u)' : Index(a) \in HeldStripes(u)'
                    /\ pc'[u] \in WritingBack => todo'[u] \subseteq Written(u)'
  BY DEF CoverInv
<1>1. CASE u # t
  <2>1. Same(u)
    BY <1>1, Frame
  <2>2. /\ Written(u)' = Written(u)
        /\ Locations(u)' = Locations(u)
        /\ HeldStripes(u)' = HeldStripes(u)
    BY <2>1, SameDerived
  <2> QED
    BY <2>1, <2>2 DEF CoverInv, Same
<1>2. CASE u = t
  <2>1. CASE TryCommit(t)
    <3>1. pc'[t] = "lock" /\ todo'[t] = Locations(t)
      BY <2>1 DEF TryCommit
    <3>2. Locations(t)' = Locations(t)
      BY <2>1 DEF TryCommit, Locations, Written, logvars
    <3> QED
      BY <1>2, <3>1, <3>2 DEF PostClock, WritingBack
  <2>2. CASE LockNext(t)
    <3>1. PICK a \in Addr :
            /\ \/ held' = [held EXCEPT ![t] = @ \cup {a}]
               \/ Index(a) \in HeldStripes(t) /\ UNCHANGED held
            /\ todo' = [todo EXCEPT ![t] = @ \ {a}]
      BY <2>2 DEF LockNext
    <3>2. HeldStripes(t) \cup {Index(a)} \subseteq HeldStripes(t)'
      BY <3>1 DEF HeldStripes
    <3>3. /\ pc[t] = "lock" /\ pc'[t] = "lock"
          /\ Locations(t)' = Locations(t)
      BY <2>2 DEF LockNext, Locations, Written
    <3>4. todo'[t] = todo[t] \ {a}
      BY <3>1
    <3> QED
      BY <1>2, <3>2, <3>3, <3>4 DEF CoverInv, PostClock, WritingBack
  <2>3. CASE IncrVersion(t)
    <3>1. /\ pc[t] = "lock" /\ todo[t] = {}
          /\ pc'[t] \in {"validate", "commit"}
          /\ pc'[t] = "commit" => todo'[t] = Written(t)
      BY <2>3 DEF IncrVersion
    <3>2. /\ Locations(t)' = Locations(t)
          /\ Written(t)' = Written(t)
          /\ HeldStripes(t)' = HeldStripes(t)
      BY <2>3 DEF IncrVersion, Locations, Written, HeldStripes, logvars
    <3> QED
      BY <1>2, <3>1, <3>2 DEF CoverInv, WritingBack
  <2>4. CASE ValidateNext(t)
    <3>1. pc[t] = "validate" /\ pc'[t] \in {"validate", "aborted"}
      BY <2>4 DEF ValidateNext
    <3>2. /\ Locations(t)' = Locations(t)
          /\ HeldStripes(t)' = HeldStripes(t)
      BY <2>4 DEF ValidateNext, Locations, Written, HeldStripes, logvars
    <3> QED
      BY <1>2, <3>1, <3>2 DEF CoverInv, PostClock, WritingBack
  <2>5. CASE Validated(t) \/ SetVersion(t) \/ Move(t)
    <3>1. /\ pc[t] \in PostClock
          /\ pc'[t] \in WritingBack
          /\ todo'[t] \subseteq Written(t)
      BY <2>5 DEF Validated, SetVersion, Move, CoverInv, PostClock, WritingBack
    <3>2. /\ Locations(t)' = Locations(t)
          /\ Written(t)' = Written(t)
          /\ HeldStripes(t)' = HeldStripes(t)
      BY <2>5 DEF Validated, SetVersion, Move, Locations, Written, HeldStripes, logvars
    <3> QED
      BY <1>2, <3>1, <3>2 DEF CoverInv, WritingBack
  <2>6. CASE pc'[t] \notin {"lock"} \cup PostClock
    BY <1>2, <2>6 DEF PostClock, WritingBack
  <2>7. CASE UNCHANGED vars
    BY <2>7 DEF CoverInv, vars, logvars, Locations, Written, HeldStripes
  <2> QED
    BY <2>1, <2>2, <2>3, <2>4, <2>5, <2>6, <2>7, CommitActions
<1> QED
  BY <1>1, <1>2

----------------------------------------------------------------------------
(* Versions.                                                               *)

\* Between the increment of the clock and the end of the write-back a thread
\* changes neither its locks, its timestamps nor its log.
LEMMA PostClockStep ==
  ASSUME TypeOK, NEW t \in Thread, Step(t), pc'[t] \in PostClock
  PROVE  \/ IncrVersion(t)
         \/ /\ pc[t] \in PostClock
            /\ HeldStripes(t)' = HeldStripes(t)
            /\ rv'[t] = rv[t] /\ wv'[t] = wv[t]
            /\ reads'[t] = reads[t] /\ wset'[t] = wset[t] /\ seen'[t] = seen[t]
<1> USE DEF TypeOK, PostClock
<1>1. CASE TryCommit(t) \/ LockNext(t)
  BY <1>1 DEF TryCommit, LockNext
<1>2. CASE ValidateNext(t)
  BY <1>2 DEF ValidateNext, HeldStripes, logvars, body
<1>3. CASE Validated(t) \/ SetVersion(t) \/ Move(t)
  BY <1>3 DEF Validated, SetVersion, Move, HeldStripes, logvars, body
<1>4. CASE UNCHANGED vars
  BY <1>4 DEF vars, HeldStripes, logvars, body
<1> QED
  BY <1>1, <1>2, <1>3, <1>4, CommitActions

\* Where timestamps come from.
LEMMA TimeStep ==
  ASSUME TypeOK, NEW t \in Thread, Step(t)
  PROVE  /\ rv'[t] \in {rv[t], clock, 0}
         /\ IncrVersion(t) \/ wv'[t] \in {wv[t], 0}
<1> USE DEF TypeOK
<1>1. CASE Begin(t) \/ Retry(t)
  BY <1>1 DEF Begin, Retry, StartTransaction
<1>2. CASE CopyThrows(t) \/ Throw(t) \/ GuardThrows(t) \/ Return(t)
  BY <1>2 DEF CopyThrows, Throw, GuardThrows, Return, EndTransaction
<1>3. CASE IncrVersion(t)
  BY <1>3 DEF IncrVersion
<1>4. CASE UNCHANGED <<rv, wv>>
  BY <1>4
<1> QED
  BY <1>1, <1>2, <1>3, <1>4
  DEF Step, RegisterRead, SampleVersion, LoadTrivial, LockForCopy,
      CopyAndUnlock, CopyCaught, Write, TryCommit, LockNext, ValidateNext, Validated,
      SetVersion, Move, CommitDone, UnlockLast, Spin, vars

\* A version changes only in commit(), under the lock, to the write version.
LEMMA VersionStep ==
  ASSUME TypeOK, CoverInv, NEW t \in Thread, Step(t)
  PROVE  \/ UNCHANGED version
         \/ \E a \in Addr :
              /\ pc[t] = "commit" /\ pc'[t] = "move" /\ NextLoc(t, a)
              /\ todo' = todo
              /\ Index(a) \in HeldStripes(t)
              /\ version' = [version EXCEPT ![Index(a)] = wv[t]]
<1>1. CASE SetVersion(t)
  <2>1. PICK a \in Addr :
          /\ NextLoc(t, a)
          /\ version' = [version EXCEPT ![Index(a)] = wv[t]]
    BY <1>1 DEF SetVersion, Stamp
  <2>2. pc[t] = "commit" /\ pc'[t] = "move" /\ todo' = todo
    BY <1>1 DEF SetVersion, TypeOK
  <2>3. Index(a) \in HeldStripes(t)
    BY <2>1, <2>2 DEF CoverInv, NextLoc, Locations, WritingBack, PostClock
  <2> QED
    BY <2>1, <2>2, <2>3
<1> QED
  BY <1>1, SharedFrame

\* The same, for one stripe.
LEMMA StripeStep ==
  ASSUME TypeOK, CoverInv, NEW t \in Thread, Step(t), NEW s \in Stripe
  PROVE  \/ version'[s] = version[s]
         \/ version'[s] = wv[t] /\ s \in HeldStripes(t) /\ pc[t] = "commit"
<1>1. CASE UNCHANGED version
  BY <1>1
<1>2. ASSUME NEW a \in Addr, pc[t] = "commit",
             Index(a) \in HeldStripes(t),
             version' = [version EXCEPT ![Index(a)] = wv[t]]
      PROVE  \/ version'[s] = version[s]
             \/ version'[s] = wv[t] /\ s \in HeldStripes(t) /\ pc[t] = "commit"
  BY <1>2 DEF TypeOK
<1> QED
  BY <1>1, <1>2, VersionStep

\* A TVar changes only in commit(), under the lock, to the staged value.
LEMMA MemStep ==
  ASSUME TypeOK, CoverInv, NEW t \in Thread, Step(t)
  PROVE  \/ UNCHANGED mem
         \/ \E a \in Addr :
              /\ pc[t] = "move" /\ pc'[t] = "commit" /\ NextLoc(t, a)
              /\ todo'[t] = todo[t] \ {a}
              /\ a \in Written(t)
              /\ Index(a) \in HeldStripes(t)
              /\ mem' = [mem EXCEPT ![a] = wset[t][a]]
<1>1. CASE Move(t)
  <2>1. PICK a \in Addr :
          /\ NextLoc(t, a)
          /\ mem' = [mem EXCEPT ![a] = wset[t][a]]
          /\ todo' = [todo EXCEPT ![t] = @ \ {a}]
    BY <1>1 DEF Move
  <2>2. pc[t] = "move" /\ pc'[t] = "commit"
    BY <1>1 DEF Move, TypeOK
  <2>3. a \in Written(t) /\ Index(a) \in HeldStripes(t)
    BY <2>1, <2>2 DEF CoverInv, NextLoc, Locations, WritingBack, PostClock
  <2>4. todo'[t] = todo[t] \ {a}
    BY <2>1 DEF TypeOK
  <2> QED
    BY <2>1, <2>2, <2>3, <2>4
<1> QED
  BY <1>1, SharedFrame

\* Two threads hold no stripe in common.
LEMMA HeldDisjoint ==
  ASSUME LockExclusion, NEW t \in Thread, NEW u \in Thread, t # u
  PROVE  HeldStripes(t) \cap HeldStripes(u) = {}
  BY DEF LockExclusion, Locks

\* The stripes of a LockGuard are stripes of the table.
LEMMA HeldType ==
  ASSUME TypeOK, NEW t \in Thread
  PROVE  HeldStripes(t) \subseteq Stripe
  BY IndexType DEF TypeOK, HeldStripes

\* ClockInv is preserved by every step.
LEMMA NextClock ==
  ASSUME TypeOK, TypeOK', LockExclusion, CoverInv, ClockInv,
         NEW t \in Thread, Step(t)
  PROVE  ClockInv'
<1>1. clock' >= clock /\ (IncrVersion(t) => clock' = clock + 1)
  BY SharedFrame DEF IncrVersion, TypeOK
<1>2. ASSUME NEW s \in Stripe
      PROVE  version'[s] <= clock'
  <2>1. version'[s] \in {version[s], wv[t]}
    BY StripeStep
  <2> QED
    BY <1>1, <2>1 DEF ClockInv, TypeOK
<1>3. ASSUME NEW u \in Thread
      PROVE  rv'[u] <= clock' /\ wv'[u] <= clock'
  <2>1. CASE u # t
    <3>1. Same(u)
      BY <2>1, Frame
    <3> QED
      BY <1>1, <3>1 DEF ClockInv, Same, TypeOK
  <2>2. CASE u = t
    <3>1. rv'[t] <= clock'
      <4>1. rv'[t] \in {rv[t], clock, 0}
        BY TimeStep
      <4> QED
        BY <1>1, <4>1 DEF ClockInv, TypeOK
    <3>2. CASE IncrVersion(t)
      BY <1>1, <2>2, <3>1, <3>2 DEF IncrVersion, TypeOK
    <3>3. CASE wv'[t] \in {wv[t], 0}
      BY <1>1, <2>2, <3>1, <3>3 DEF ClockInv, TypeOK
    <3> QED
      BY <3>2, <3>3, TimeStep
  <2> QED
    BY <2>1, <2>2
<1>4. ASSUME NEW u \in Thread, pc'[u] \in PostClock, NEW s \in HeldStripes(u)'
      PROVE  version'[s] <= wv'[u]
  <2>1. CASE u # t
    <3>1. Same(u) /\ HeldStripes(u)' = HeldStripes(u)
      BY <2>1, Frame, SameDerived
    <3>2. s \in Stripe
      BY <1>4, <3>1, HeldType
    <3>3. s \notin HeldStripes(t)
      BY <1>4, <2>1, <3>1, HeldDisjoint
    <3>4. version'[s] = version[s]
      BY <3>2, <3>3, StripeStep
    <3> QED
      BY <1>4, <3>1, <3>4 DEF ClockInv, Same
  <2>2. CASE u = t
    <3>1. CASE IncrVersion(t)
      <4>1. /\ HeldStripes(t)' = HeldStripes(t)
            /\ version' = version
            /\ wv'[t] = clock + 1
        BY <3>1 DEF IncrVersion, HeldStripes, TypeOK
      <4>2. s \in Stripe
        BY <1>4, <2>2, <4>1, HeldType
      <4> QED
        BY <2>2, <4>1, <4>2 DEF ClockInv, TypeOK
    <3>2. CASE ~IncrVersion(t)
      <4>1. /\ pc[t] \in PostClock
            /\ HeldStripes(t)' = HeldStripes(t)
            /\ wv'[t] = wv[t]
        BY <1>4, <2>2, <3>2, PostClockStep
      <4>2. s \in Stripe /\ version[s] <= wv[t]
        BY <1>4, <2>2, <4>1, HeldType DEF ClockInv
      <4>3. version'[s] \in {version[s], wv[t]}
        BY <4>2, StripeStep
      <4> QED
        BY <2>2, <4>1, <4>2, <4>3 DEF TypeOK
    <3> QED
      BY <3>1, <3>2
  <2> QED
    BY <2>1, <2>2
<1> QED
  BY <1>2, <1>3, <1>4 DEF ClockInv

----------------------------------------------------------------------------
(* What bodies have sampled and read.                                      *)

\* How the set of sampled addresses develops: it is emptied with the log, it
\* grows when a stripe is found unlocked, and else it stays within bounds.
LEMMA SampledStep ==
  ASSUME TypeOK, NEW t \in Thread, Step(t)
  PROVE  \/ Sampled(t)' = {} /\ pc'[t] # "sample"
         \/ /\ Sampled(t)' \subseteq Sampled(t)
            /\ reads[t] \subseteq reads'[t]
            /\ rv'[t] = rv[t]
            /\ pc'[t] \in Undecided => pc[t] \in Undecided
            /\ pc'[t] = "sample" => \/ cur'[t] \in reads'[t]
                                    \/ pc[t] = "sample" /\ cur'[t] = cur[t]
         \/ /\ Sampled(t)' \subseteq Sampled(t) \cup {cur[t]}
            /\ pc[t] = "sample" /\ pc'[t] # "sample"
            /\ ~locked[Index(cur[t])]
            /\ reads'[t] = reads[t] /\ rv'[t] = rv[t]
<1> USE DEF TypeOK, Undecided, Sampled
<1>1. CASE Begin(t) \/ Retry(t)
  BY <1>1 DEF Begin, Retry, StartTransaction, NothingSeen
<1>2. CASE CopyThrows(t) \/ Throw(t) \/ GuardThrows(t) \/ Return(t)
  BY <1>2 DEF CopyThrows, Throw, GuardThrows, Return, EndTransaction, NothingSeen
<1>2c. CASE CopyCaught(t)
  BY <1>2c DEF CopyCaught, logvars, body
<1>3. ASSUME NEW a \in Addr, RegisterRead(t, a)
      PROVE  /\ Sampled(t)' \subseteq Sampled(t)
             /\ reads[t] \subseteq reads'[t]
             /\ rv'[t] = rv[t]
             /\ pc'[t] \in Undecided => pc[t] \in Undecided
             /\ cur'[t] \in reads'[t]
  BY <1>3 DEF RegisterRead
<1>4. CASE SampleVersion(t)
  <2>1. /\ pc[t] = "sample"
        /\ ~locked[Index(cur[t])]
        /\ pc'[t] \in {"body", "load"}
        /\ pc'[t] = "load" => cur'[t] = cur[t]
    BY <1>4 DEF SampleVersion, Readable
  <2>2. reads'[t] = reads[t] /\ rv'[t] = rv[t] /\ seen'[t] = seen[t]
    BY <1>4 DEF SampleVersion, logvars, body
  <2> QED
    BY <2>1, <2>2
<1>5. CASE LoadTrivial(t) \/ CopyAndUnlock(t)
  <2>1. /\ pc[t] \in {"load", "copy"} /\ pc'[t] = "body"
        /\ reads'[t] = reads[t] /\ rv'[t] = rv[t]
    BY <1>5 DEF LoadTrivial, CopyAndUnlock, ReturnValue, logvars
  <2>2. \A a \in Addr : a # cur[t] => seen'[t][a] = seen[t][a]
    BY <1>5 DEF LoadTrivial, CopyAndUnlock, ReturnValue
  <2> QED
    BY <2>1, <2>2
<1>6. CASE LockForCopy(t)
  BY <1>6 DEF LockForCopy, logvars, body
<1>7. ASSUME NEW a \in Addr, NEW v \in Val, Write(t, a, v)
      PROVE  /\ Sampled(t)' \subseteq Sampled(t)
             /\ reads[t] \subseteq reads'[t]
             /\ rv'[t] = rv[t]
             /\ pc'[t] = pc[t] /\ pc[t] = "body"
  BY <1>7 DEF Write
<1>8. CASE TryCommit(t) \/ LockNext(t)
  BY <1>8 DEF TryCommit, LockNext, logvars, body
<1>9. CASE IncrVersion(t)
  <2>1. pc[t] = "lock" /\ pc'[t] \in {"commit", "validate"}
    BY <1>9 DEF IncrVersion
  <2> QED
    BY <1>9, <2>1 DEF IncrVersion, logvars, body
<1>10. CASE ValidateNext(t)
  <2>1. pc[t] = "validate" /\ pc'[t] \in {"aborted", "validate"}
    BY <1>10 DEF ValidateNext
  <2> QED
    BY <1>10, <2>1 DEF ValidateNext, logvars, body
<1>11. CASE Validated(t) \/ SetVersion(t) \/ Move(t) \/ CommitDone(t)
  BY <1>11 DEF Validated, SetVersion, Move, CommitDone, logvars, body
<1>12. CASE UnlockLast(t)
  BY <1>12 DEF UnlockLast, body
<1>13. CASE UNCHANGED vars
  BY <1>13 DEF vars, logvars, body
<1> QED
  BY <1>1, <1>2, <1>2c, <1>3, <1>4, <1>5, <1>6, <1>7, <1>8, <1>9, <1>10, <1>11,
     <1>12, <1>13
  DEF Step, Spin

\* SampledInv is preserved by every step.
LEMMA NextSampled ==
  ASSUME TypeOK, SampledInv, NEW t \in Thread, Step(t)
  PROVE  SampledInv'
<1> SUFFICES ASSUME NEW u \in Thread
             PROVE  /\ Sampled(u)' \subseteq reads'[u]
                    /\ pc'[u] = "sample" => cur'[u] \in reads'[u]
  BY DEF SampledInv
<1>1. /\ Sampled(u) \subseteq reads[u]
      /\ pc[u] = "sample" => cur[u] \in reads[u]
  BY DEF SampledInv
<1>2. CASE u # t
  <2>1. Same(u) /\ Sampled(u)' = Sampled(u)
    BY <1>2, Frame, SameDerived
  <2> QED
    BY <1>1, <2>1 DEF Same
<1>3. CASE u = t
  BY <1>1, <1>3, SampledStep
<1> QED
  BY <1>2, <1>3

\* WriterInv is preserved by every step.
LEMMA NextWriter ==
  ASSUME TypeOK, TypeOK', LockExclusion, ClockInv, WriterInv,
         NEW t \in Thread, Step(t)
  PROVE  WriterInv'
<1> SUFFICES ASSUME NEW r \in Thread, NEW w \in Thread, r # w,
                    pc'[r] \in Undecided, pc'[w] \in PostClock,
                    NEW a \in Sampled(r)', Index(a) \in HeldStripes(w)'
             PROVE  wv'[w] > rv'[r]
  BY DEF WriterInv
<1>1. CASE r # t /\ w # t
  <2>1. Same(r) /\ Same(w)
    BY <1>1, Frame
  <2>2. Sampled(r)' = Sampled(r) /\ HeldStripes(w)' = HeldStripes(w)
    BY <2>1, SameDerived
  <2> QED
    BY <2>1, <2>2 DEF WriterInv, Same
<1>2. CASE w = t
  <2>1. Same(r)
    BY <1>2, Frame
  <2>2. Sampled(r)' = Sampled(r)
    BY <2>1, SameDerived
  <2>3. CASE IncrVersion(t)
    <3>1. wv'[w] = clock + 1
      BY <1>2, <2>3 DEF IncrVersion, TypeOK
    <3> QED
      BY <2>1, <3>1 DEF ClockInv, Same, TypeOK
  <2>4. CASE ~IncrVersion(t)
    <3>1. /\ pc[w] \in PostClock
          /\ HeldStripes(w)' = HeldStripes(w)
          /\ wv'[w] = wv[w]
      BY <1>2, <2>4, PostClockStep
    <3> QED
      BY <2>1, <2>2, <3>1 DEF WriterInv, Same
  <2> QED
    BY <2>3, <2>4
<1>3. CASE r = t
  <2>1. Same(w)
    BY <1>3, Frame
  <2>2. HeldStripes(w)' = HeldStripes(w)
    BY <2>1, SameDerived
  <2>3. CASE /\ Sampled(t)' \subseteq Sampled(t)
             /\ rv'[t] = rv[t]
             /\ pc'[t] \in Undecided => pc[t] \in Undecided
    BY <1>3, <2>1, <2>2, <2>3 DEF WriterInv, Same
  <2>4. CASE /\ Sampled(t)' \subseteq Sampled(t) \cup {cur[t]}
             /\ pc[t] = "sample"
             /\ ~locked[Index(cur[t])]
             /\ rv'[t] = rv[t]
    <3>1. a # cur[t]
      BY <2>2, <2>4 DEF LockExclusion, Locks
    <3>2. a \in Sampled(r) /\ pc[r] \in Undecided
      BY <1>3, <2>4, <3>1 DEF Undecided
    <3> QED
      BY <1>3, <2>1, <2>2, <2>4, <3>2 DEF WriterInv, Same
  <2> QED
    BY <1>3, <2>3, <2>4, SampledStep
<1> QED
  BY <1>1, <1>2, <1>3

----------------------------------------------------------------------------
(* Versions a thread has set or accepted under its locks.                  *)

\* While a thread holds a stripe, no other thread changes its version.
LEMMA HeldVersion ==
  ASSUME TypeOK, LockExclusion, CoverInv, NEW t \in Thread, Step(t),
         NEW u \in Thread, u # t, NEW s \in HeldStripes(u)
  PROVE  version'[s] = version[s]
<1>1. s \in Stripe /\ s \notin HeldStripes(t)
  BY HeldType, HeldDisjoint
<1> QED
  BY <1>1, StripeStep

\* MoveInv is preserved by every step.
LEMMA NextMove ==
  ASSUME TypeOK, LockExclusion, CoverInv, MoveInv, NEW t \in Thread, Step(t)
  PROVE  MoveInv'
<1> SUFFICES ASSUME NEW u \in Thread, pc'[u] = "move",
                    NEW a \in Addr, NextLoc(u, a)'
             PROVE  version'[Index(a)] = wv'[u]
  BY DEF MoveInv
<1>1. CASE u # t
  <2>1. Same(u)
    BY <1>1, Frame
  <2>2. NextLoc(u, a)
    BY <2>1 DEF Same, NextLoc
  <2>3. Index(a) \in HeldStripes(u) /\ pc[u] = "move"
    BY <2>1, <2>2 DEF Same, CoverInv, NextLoc, Locations, WritingBack, PostClock
  <2>4. version'[Index(a)] = version[Index(a)]
    BY <1>1, <2>3, HeldVersion
  <2> QED
    BY <2>1, <2>2, <2>3, <2>4 DEF MoveInv, Same
<1>2. CASE u = t
  <2>1. CASE SetVersion(t)
    <3>1. PICK b \in Addr :
            /\ NextLoc(t, b)
            /\ version' = [version EXCEPT ![Index(b)] = wv[t]]
      BY <2>1 DEF SetVersion, Stamp
    <3>2. todo' = todo /\ wv' = wv
      BY <2>1 DEF SetVersion
    <3>3. a <= b /\ b <= a
      BY <1>2, <3>1, <3>2 DEF NextLoc
    <3>4. a = b
      BY <3>3, ConstAssumption
    <3> QED
      BY <1>2, <3>1, <3>2, <3>4, IndexType DEF TypeOK
  <2>2. CASE UNCHANGED vars
    BY <2>2 DEF vars, shared, MoveInv, NextLoc
  <2>3. CASE TryCommit(t) \/ LockNext(t) \/ Validated(t) \/ Move(t)
    BY <1>2, <2>3 DEF TryCommit, LockNext, Validated, Move, TypeOK
  <2>4. CASE IncrVersion(t)
    BY <1>2, <2>4 DEF IncrVersion, TypeOK
  <2>5. CASE ValidateNext(t)
    BY <1>2, <2>5 DEF ValidateNext, TypeOK
  <2> QED
    BY <1>2, <2>1, <2>2, <2>3, <2>4, <2>5, CommitActions DEF PostClock
<1> QED
  BY <1>1, <1>2

\* ValidateInv is preserved by every step.
LEMMA NextValidate ==
  ASSUME TypeOK, LockExclusion, CoverInv, ValidateInv, NEW t \in Thread, Step(t)
  PROVE  ValidateInv'
<1> SUFFICES ASSUME NEW u \in Thread, pc'[u] = "validate",
                    NEW a \in reads'[u] \ todo'[u]
             PROVE  ~(version'[Index(a)] > rv'[u])
  BY DEF ValidateInv, Conflict
<1>1. CASE u # t
  <2>1. Same(u)
    BY <1>1, Frame
  <2>2. Index(a) \in HeldStripes(u)
    BY <2>1 DEF Same, CoverInv, Locations, PostClock
  <2>3. version'[Index(a)] = version[Index(a)]
    BY <1>1, <2>2, HeldVersion
  <2> QED
    BY <2>1, <2>3 DEF ValidateInv, Conflict, Same
<1>2. CASE u = t
  <2>1. CASE IncrVersion(t)
    <3>1. todo'[t] = reads'[t]
      BY <1>2, <2>1 DEF IncrVersion, logvars, TypeOK
    <3> QED
      BY <1>2, <3>1
  <2>2. CASE ValidateNext(t)
    <3>1. PICK b \in Addr : /\ ~Conflict(t, b)
                            /\ todo' = [todo EXCEPT ![t] = @ \ {b}]
      BY <1>2, <2>2 DEF ValidateNext, TypeOK
    <3>2. /\ version' = version
          /\ rv' = rv
          /\ reads' = reads
          /\ pc[t] = "validate"
      BY <2>2 DEF ValidateNext, shared, logvars
    <3> QED
      BY <1>2, <3>1, <3>2 DEF ValidateInv, Conflict, TypeOK
  <2>3. CASE UNCHANGED vars
    BY <2>3 DEF vars, shared, logvars, ValidateInv, Conflict
  <2>4. CASE TryCommit(t) \/ LockNext(t) \/ Validated(t) \/ SetVersion(t) \/ Move(t)
    BY <1>2, <2>4 DEF TryCommit, LockNext, Validated, SetVersion, Move, TypeOK
  <2> QED
    BY <1>2, <2>1, <2>2, <2>3, <2>4, CommitActions DEF PostClock
<1> QED
  BY <1>1, <1>2

----------------------------------------------------------------------------
(* Isolation.                                                              *)

\* The values a body has from shared memory: the new one is what memory holds
\* or, if the load races with a write-back, anything.
LEMMA SeenStep ==
  ASSUME TypeOK, NEW t \in Thread, Step(t), NEW a \in Addr,
         NEW v \in seen'[t][a], v \notin seen[t][a]
  PROVE  /\ pc[t] \in {"load", "copy"}
         /\ a = cur[t]
         /\ v = mem[a] \/ Racing(t)
         /\ rv'[t] = rv[t]
<1> USE DEF TypeOK
<1>1. CASE Begin(t) \/ Retry(t)
  BY <1>1 DEF Begin, Retry, StartTransaction, NothingSeen
<1>2. CASE CopyThrows(t) \/ Throw(t) \/ GuardThrows(t) \/ Return(t)
  BY <1>2 DEF CopyThrows, Throw, GuardThrows, Return, EndTransaction, NothingSeen
<1>3. CASE LoadTrivial(t)
  BY <1>3 DEF LoadTrivial, ReturnValue
<1>4. CASE CopyAndUnlock(t)
  BY <1>4 DEF CopyAndUnlock, ReturnValue
<1>5. CASE UNCHANGED seen
  BY <1>5
<1> QED
  BY <1>1, <1>2, <1>3, <1>4, <1>5
  DEF Step, RegisterRead, SampleVersion, LockForCopy, CopyCaught, Write, TryCommit,
      LockNext, IncrVersion, ValidateNext, Validated, SetVersion, Move,
      CommitDone, UnlockLast, Spin, vars, body

\* StaleReadsDetectable is preserved by every step.
LEMMA NextStale ==
  ASSUME TypeOK, TypeOK', IndInv, NEW t \in Thread, Step(t)
  PROVE  StaleReadsDetectable'
<1> SUFFICES ASSUME NEW u \in Thread, pc'[u] \in Undecided,
                    NEW a \in Addr, NEW v \in seen'[u][a]
             PROVE  v = mem'[a] \/ version'[Index(a)] > rv'[u]
  BY DEF StaleReadsDetectable, Conflict
<1>i. Index(a) \in Stripe
  BY IndexType
<1>1. CASE u # t
  <2>1. Same(u)
    BY <1>1, Frame
  <2>2. a \in Sampled(u)
    BY <2>1 DEF Sampled, Same
  <2>3. v = mem[a] \/ version[Index(a)] > rv[u]
    BY <2>1 DEF IndInv, StaleReadsDetectable, Conflict, Same
  <2>4. ASSUME Index(a) \in HeldStripes(t), pc[t] \in PostClock
        PROVE  wv[t] > rv[u]
    BY <1>1, <2>1, <2>2, <2>4 DEF IndInv, WriterInv, Same
  <2>5. CASE version'[Index(a)] # version[Index(a)]
    <3>1. version'[Index(a)] = wv[t] /\ Index(a) \in HeldStripes(t) /\ pc[t] = "commit"
      BY <1>i, <2>5, StripeStep DEF IndInv
    <3> QED
      BY <2>1, <2>4, <3>1 DEF Same, PostClock
  <2>6. CASE version'[Index(a)] = version[Index(a)] /\ mem'[a] # mem[a]
    <3>1. pc[t] = "move" /\ NextLoc(t, a) /\ Index(a) \in HeldStripes(t)
      <4>1. PICK b \in Addr :
              /\ pc[t] = "move" /\ NextLoc(t, b)
              /\ Index(b) \in HeldStripes(t)
              /\ mem' = [mem EXCEPT ![b] = wset[t][b]]
        BY <2>6, MemStep DEF IndInv
      <4>2. a = b
        BY <2>6, <4>1 DEF TypeOK
      <4> QED
        BY <4>1, <4>2
    <3>2. version[Index(a)] = wv[t]
      BY <3>1 DEF IndInv, MoveInv
    <3> QED
      BY <2>1, <2>4, <2>6, <3>1, <3>2 DEF Same, PostClock
  <2>7. CASE version'[Index(a)] = version[Index(a)] /\ mem'[a] = mem[a]
    BY <2>1, <2>3, <2>7 DEF Same
  <2> QED
    BY <2>5, <2>6, <2>7
<1>2. CASE u = t
  <2>1. mem' = mem /\ version' = version
    BY <1>2, MemStep, VersionStep DEF IndInv, Undecided
  <2>2. CASE v \in seen[t][a]
    <3>1. /\ rv'[t] = rv[t]
          /\ pc[t] \in Undecided
      <4>1. a \in Sampled(t)'
        BY <1>2 DEF Sampled
      <4> QED
        BY <1>2, <4>1, SampledStep DEF Undecided
    <3> QED
      BY <1>2, <2>1, <2>2, <3>1 DEF IndInv, StaleReadsDetectable, Conflict
  <2>3. CASE v \notin seen[t][a]
    <3>1. /\ pc[t] \in {"load", "copy"}
          /\ a = cur[t]
          /\ v = mem[a] \/ Racing(t)
          /\ rv'[t] = rv[t]
      BY <1>2, <2>3, SeenStep
    <3>2. ASSUME Racing(t)
          PROVE  version[Index(a)] > rv[t]
      <4>1. PICK w \in Thread \ {t} : pc[w] = "move" /\ NextLoc(w, a)
        BY <3>1, <3>2 DEF Racing
      <4>2. version[Index(a)] = wv[w]
        BY <4>1 DEF IndInv, MoveInv
      <4>3. Index(a) \in HeldStripes(w)
        BY <4>1 DEF IndInv, CoverInv, NextLoc, Locations, WritingBack, PostClock
      <4>4. a \in Sampled(t) /\ pc[t] \in Undecided
        BY <3>1 DEF Sampled, Undecided
      <4>5. wv[w] > rv[t]
        BY <4>1, <4>3, <4>4 DEF IndInv, WriterInv, PostClock
      <4> QED
        BY <4>2, <4>5
    <3> QED
      BY <1>2, <2>1, <3>1, <3>2
  <2> QED
    BY <2>2, <2>3
<1> QED
  BY <1>1, <1>2

\* When try_commit() decides to commit, everything the body has read is still
\* in memory: because the clock has not moved since it started (fast path) or
\* because validation accepted every version (slow path).
LEMMA DecisionCurrent ==
  ASSUME IndInv, NEW t \in Thread, NEW a \in Addr, NEW v \in seen[t][a],
         \/ IncrVersion(t) /\ NoCommitSince(t, clock')
         \/ Validated(t)
  PROVE  v = mem[a]
<1>1. pc[t] \in Undecided
  BY DEF IncrVersion, Validated, Undecided
<1>2. a \in reads[t]
  BY DEF IndInv, SampledInv, Sampled
<1>3. v = mem[a] \/ version[Index(a)] > rv[t]
  BY <1>1 DEF IndInv, StaleReadsDetectable, Conflict
<1>4. ~(version[Index(a)] > rv[t])
  <2>1. CASE IncrVersion(t) /\ NoCommitSince(t, clock')
    <3>1. version[Index(a)] <= clock /\ version[Index(a)] \in Nat
      BY IndexType DEF IndInv, ClockInv, TypeOK
    <3>2. clock + 1 = rv[t] + 1
      BY <2>1 DEF IncrVersion, NoCommitSince
    <3> QED
      BY <3>1, <3>2 DEF IndInv, TypeOK
  <2>2. CASE Validated(t)
    BY <1>2, <2>2 DEF Validated, IndInv, ValidateInv, Conflict
  <2> QED
    BY <2>1, <2>2
<1> QED
  BY <1>3, <1>4

\* CommittedReadsCurrent is preserved by every step.
LEMMA NextCommitted ==
  ASSUME IndInv, TypeOK', NEW t \in Thread, Step(t)
  PROVE  CommittedReadsCurrent'
<1> SUFFICES ASSUME NEW u \in Thread, pc'[u] \in WritingBack,
                    NEW a \in Addr, a \notin Written(u)' \/ a \in todo'[u],
                    NEW v \in seen'[u][a]
             PROVE  v = mem'[a]
  BY DEF CommittedReadsCurrent
<1>t. TypeOK
  BY DEF IndInv
<1>1. CASE u # t
  <2>1. Same(u) /\ Written(u)' = Written(u)
    BY <1>1, <1>t, Frame, SameDerived
  <2>2. v = mem[a]
    BY <2>1 DEF Same, IndInv, CommittedReadsCurrent
  <2>3. a \in reads[u]
    BY <2>1 DEF Same, IndInv, SampledInv, Sampled
  <2>4. Index(a) \in HeldStripes(u)
    BY <2>1, <2>3 DEF Same, IndInv, CoverInv, Locations, WritingBack, PostClock
  <2>5. Index(a) \notin HeldStripes(t)
    BY <1>1, <2>4, HeldDisjoint DEF IndInv
  <2>6. CASE UNCHANGED mem
    BY <2>2, <2>6
  <2>7. ASSUME NEW b \in Addr, Index(b) \in HeldStripes(t),
               mem' = [mem EXCEPT ![b] = wset[t][b]]
        PROVE  v = mem'[a]
    BY <1>t, <2>2, <2>5, <2>7 DEF TypeOK
  <2> QED
    BY <2>6, <2>7, MemStep DEF IndInv
<1>2. CASE u = t
  <2>1. CASE IncrVersion(t)
    <3>1. NoCommitSince(t, clock') /\ mem' = mem /\ seen' = seen
      BY <1>2, <1>t, <2>1 DEF IncrVersion, WritingBack, TypeOK, body
    <3> QED
      BY <1>2, <2>1, <3>1, DecisionCurrent
  <2>2. CASE Validated(t)
    <3>1. mem' = mem /\ seen' = seen
      BY <2>2 DEF Validated, shared, body
    <3> QED
      BY <1>2, <2>2, <3>1, DecisionCurrent
  <2>3. CASE SetVersion(t)
    <3>1. /\ mem' = mem /\ seen' = seen /\ todo' = todo
          /\ Written(t)' = Written(t)
          /\ pc[t] \in WritingBack
      BY <2>3 DEF SetVersion, body, logvars, Written, WritingBack
    <3> QED
      BY <1>2, <3>1 DEF IndInv, CommittedReadsCurrent
  <2>4. CASE Move(t)
    <3>1. PICK b \in Addr : /\ mem' = [mem EXCEPT ![b] = wset[t][b]]
                            /\ todo' = [todo EXCEPT ![t] = @ \ {b}]
                            /\ NextLoc(t, b)
      BY <2>4 DEF Move
    <3>2. /\ seen' = seen /\ Written(t)' = Written(t)
          /\ pc[t] \in WritingBack
      BY <2>4 DEF Move, body, logvars, Written, WritingBack
    <3>3. b \in Written(t)
      BY <3>1, <3>2 DEF IndInv, CoverInv, NextLoc
    <3>4. a # b /\ (a \notin Written(t) \/ a \in todo[t])
      BY <1>2, <1>t, <3>1, <3>2, <3>3 DEF TypeOK
    <3>5. v = mem[a]
      BY <1>2, <3>2, <3>4 DEF IndInv, CommittedReadsCurrent
    <3> QED
      BY <1>t, <3>1, <3>4, <3>5 DEF TypeOK
  <2>5. CASE UNCHANGED vars
    <3>1. Written(t)' = Written(t)
      BY <2>5 DEF vars, logvars, Written
    <3> QED
      BY <1>2, <2>5, <3>1
      DEF vars, shared, body, IndInv, CommittedReadsCurrent
  <2>6. CASE TryCommit(t) \/ LockNext(t)
    BY <1>2, <1>t, <2>6 DEF TryCommit, LockNext, WritingBack, TypeOK
  <2>7. CASE ValidateNext(t)
    BY <1>2, <1>t, <2>7 DEF ValidateNext, WritingBack, TypeOK
  <2> QED
    BY <1>2, <1>t, <2>1, <2>2, <2>3, <2>4, <2>5, <2>6, <2>7, CommitActions
    DEF PostClock, WritingBack
<1> QED
  BY <1>1, <1>2

----------------------------------------------------------------------------
(* The order in which the log is locked, and who owns what.                *)

\* OrderInv is preserved by every step: the constructor locks the least
\* location it has left.
LEMMA NextOrder ==
  ASSUME TypeOK, GuardInv, OrderInv, NEW t \in Thread, Step(t)
  PROVE  OrderInv'
<1> USE DEF TypeOK
<1> SUFFICES ASSUME NEW u \in Thread, pc'[u] = "lock",
                    NEW a \in held'[u], NEW b \in todo'[u]
             PROVE  a < b
  BY DEF OrderInv
<1>1. CASE u # t
  <2>1. Same(u)
    BY <1>1, Frame
  <2> QED
    BY <2>1 DEF OrderInv, Same
<1>2. CASE u = t
  <2>1. CASE TryCommit(t)
    <3>1. pc[t] = "body" /\ held'[t] = held[t]
      BY <2>1 DEF TryCommit
    <3> QED
      BY <1>2, <3>1 DEF GuardInv, Guarding
  <2>2. CASE LockNext(t)
    <3>1. PICK c \in Addr :
            /\ NextLoc(t, c)
            /\ \/ held' = [held EXCEPT ![t] = @ \cup {c}]
               \/ UNCHANGED held
            /\ todo' = [todo EXCEPT ![t] = @ \ {c}]
      BY <2>2 DEF LockNext
    <3>2. pc[t] = "lock"
      BY <2>2 DEF LockNext
    <3>3. /\ a \in held[t] \cup {c}
          /\ b \in todo[t] /\ b # c
      BY <1>2, <3>1
    <3>4. CASE a \in held[t]
      BY <3>2, <3>3, <3>4 DEF OrderInv
    <3>5. CASE a = c
      <4>1. c <= b /\ c \in Nat /\ b \in Nat
        BY <3>1, <3>3, ConstAssumption DEF NextLoc
      <4> QED
        BY <3>3, <3>5, <4>1
    <3> QED
      BY <3>3, <3>4, <3>5
  <2>3. CASE IncrVersion(t) \/ ValidateNext(t) \/ Validated(t)
             \/ SetVersion(t) \/ Move(t)
    <3>1. pc'[t] # "lock"
      BY <2>3 DEF IncrVersion, ValidateNext, Validated, SetVersion, Move
    <3> QED
      BY <1>2, <3>1
  <2>4. CASE UNCHANGED vars
    BY <2>4 DEF OrderInv, vars
  <2> QED
    BY <1>2, <2>1, <2>2, <2>3, <2>4, CommitActions
<1> QED
  BY <1>1, <1>2

\* OwnedInv is preserved by every step.
LEMMA NextOwned ==
  ASSUME TypeOK, CoverInv, OwnedInv, NEW t \in Thread, Step(t)
  PROVE  OwnedInv'
<1> USE DEF TypeOK
<1> SUFFICES ASSUME NEW u \in Thread
             PROVE  /\ pc'[u] = "lock" => Locations(u)' \ todo'[u] \subseteq owner'[u]
                    /\ pc'[u] \in PostClock =>
                         /\ Locations(u)' \subseteq owner'[u]
                         /\ todo'[u] \subseteq Locations(u)'
  BY DEF OwnedInv
<1>1. CASE u # t
  <2>1. Same(u) /\ Locations(u)' = Locations(u)
    BY <1>1, Frame, SameDerived
  <2> QED
    BY <2>1 DEF OwnedInv, Same
<1>2. CASE u = t
  <2>1. CASE TryCommit(t)
    <3>1. pc'[t] = "lock" /\ todo'[t] = Locations(t)
      BY <2>1 DEF TryCommit
    <3>2. Locations(t)' = Locations(t)
      BY <2>1 DEF TryCommit, Locations, Written, logvars
    <3> QED
      BY <1>2, <3>1, <3>2 DEF PostClock
  <2>2. CASE LockNext(t)
    <3>1. PICK a \in Addr :
            /\ owner' = [owner EXCEPT ![t] = @ \cup {a}]
            /\ todo' = [todo EXCEPT ![t] = @ \ {a}]
      BY <2>2 DEF LockNext
    <3>2. /\ pc[t] = "lock" /\ pc'[t] = "lock"
          /\ Locations(t)' = Locations(t)
      BY <2>2 DEF LockNext, Locations, Written
    <3>3. todo'[t] = todo[t] \ {a} /\ owner'[t] = owner[t] \cup {a}
      BY <3>1
    <3> QED
      BY <1>2, <3>2, <3>3 DEF OwnedInv, PostClock
  <2>3. CASE IncrVersion(t)
    <3>1. /\ pc[t] = "lock" /\ todo[t] = {}
          /\ pc'[t] \in {"validate", "commit"}
          /\ todo'[t] \in {Written(t), reads[t]}
          /\ owner'[t] = owner[t]
      BY <2>3 DEF IncrVersion, logvars
    <3>2. /\ Locations(t)' = Locations(t)
          /\ Written(t) \subseteq Locations(t)
          /\ reads[t] \subseteq Locations(t)
      BY <2>3 DEF IncrVersion, Locations, Written, logvars
    <3> QED
      BY <1>2, <3>1, <3>2 DEF OwnedInv
  <2>4. CASE ValidateNext(t)
    <3>1. /\ pc[t] = "validate" /\ pc'[t] \in {"validate", "aborted"}
          /\ todo'[t] \subseteq todo[t]
          /\ owner'[t] = owner[t]
      BY <2>4 DEF ValidateNext, logvars
    <3>2. Locations(t)' = Locations(t)
      BY <2>4 DEF ValidateNext, Locations, Written, logvars
    <3> QED
      BY <1>2, <3>1, <3>2 DEF OwnedInv, PostClock
  <2>5. CASE Validated(t) \/ SetVersion(t) \/ Move(t)
    <3>1. /\ pc[t] \in PostClock
          /\ pc'[t] \in PostClock /\ pc'[t] # "lock"
          /\ todo'[t] \subseteq todo[t] \cup Written(t)
          /\ owner'[t] = owner[t]
      BY <2>5 DEF Validated, SetVersion, Move, PostClock, logvars
    <3>2. Locations(t)' = Locations(t) /\ Written(t) \subseteq Locations(t)
      BY <2>5 DEF Validated, SetVersion, Move, Locations, Written, logvars
    <3> QED
      BY <1>2, <3>1, <3>2 DEF OwnedInv
  <2>6. CASE pc'[t] \notin {"lock"} \cup PostClock
    BY <1>2, <2>6
  <2>7. CASE UNCHANGED vars
    BY <2>7 DEF OwnedInv, vars, logvars, Locations, Written
  <2> QED
    BY <2>1, <2>2, <2>3, <2>4, <2>5, <2>6, <2>7, CommitActions
<1> QED
  BY <1>1, <1>2

----------------------------------------------------------------------------
(* The inductive invariant and the theorems about the specification.       *)

\* The program starts in a state of the inductive invariant.
LEMMA InitIndInv == Init => IndInv
<1> SUFFICES ASSUME Init
             PROVE  IndInv
  OBVIOUS
<1>1. TypeOK
  BY InitTypeOK
<1>2. \A t \in Thread : /\ pc[t] = "idle" /\ held[t] = {} /\ seen[t] = NothingSeen
                        /\ rv[t] = 0 /\ wv[t] = 0
  BY DEF Init
<1>3. \A t \in Thread : Locks(t) = {}
  BY <1>2 DEF Locks, HeldStripes
<1>4. LockExclusion /\ GuardInv
  BY <1>2, <1>3 DEF LockExclusion, GuardInv
<1>5. CoverInv /\ WriterInv /\ MoveInv /\ ValidateInv
  BY <1>2 DEF CoverInv, WriterInv, MoveInv, ValidateInv, PostClock, WritingBack
<1>6. ClockInv
  BY <1>2 DEF ClockInv, Init, PostClock
<1>7. SampledInv
  BY <1>2 DEF SampledInv, Sampled, NothingSeen
<1>8. StaleReadsDetectable /\ CommittedReadsCurrent
  BY <1>2 DEF StaleReadsDetectable, CommittedReadsCurrent, Undecided, WritingBack
<1>9. OrderInv /\ OwnedInv
  BY <1>2 DEF OrderInv, OwnedInv, PostClock
<1> QED
  BY <1>1, <1>4, <1>5, <1>6, <1>7, <1>8, <1>9 DEF IndInv

\* Every step of the system preserves the inductive invariant.
LEMMA NextIndInv ==
  ASSUME IndInv, [Next]_vars
  PROVE  IndInv'
<1>1. TypeOK'
  BY NextTypeOK DEF IndInv
<1>2. ASSUME NEW t \in Thread, Step(t)
      PROVE  IndInv'
  <2>1. LockExclusion' /\ GuardInv'
    BY <1>2, NextLocks DEF IndInv
  <2>2. CoverInv'
    BY <1>2, NextCover DEF IndInv
  <2>3. ClockInv'
    BY <1>1, <1>2, NextClock DEF IndInv
  <2>4. SampledInv'
    BY <1>2, NextSampled DEF IndInv
  <2>5. WriterInv'
    BY <1>1, <1>2, NextWriter DEF IndInv
  <2>6. MoveInv' /\ ValidateInv'
    BY <1>2, NextMove, NextValidate DEF IndInv
  <2>7. StaleReadsDetectable'
    BY <1>1, <1>2, NextStale DEF IndInv
  <2>8. CommittedReadsCurrent'
    BY <1>1, <1>2, NextCommitted
  <2>9. OrderInv' /\ OwnedInv'
    BY <1>2, NextOrder, NextOwned DEF IndInv
  <2> QED
    BY <1>1, <2>1, <2>2, <2>3, <2>4, <2>5, <2>6, <2>7, <2>8, <2>9 DEF IndInv
<1>3. CASE UNCHANGED vars
  <2> USE <1>3 DEF vars, shared, logvars, body
  <2>1. LockExclusion' /\ GuardInv'
    BY DEF IndInv, LockExclusion, GuardInv, Locks, HeldStripes
  <2>2. CoverInv' /\ ClockInv'
    BY DEF IndInv, CoverInv, ClockInv, HeldStripes, Locations, Written
  <2>3. SampledInv' /\ WriterInv'
    BY DEF IndInv, SampledInv, WriterInv, Sampled, HeldStripes
  <2>4. MoveInv' /\ ValidateInv'
    BY DEF IndInv, MoveInv, ValidateInv, NextLoc, Conflict
  <2>5. StaleReadsDetectable' /\ CommittedReadsCurrent'
    BY DEF IndInv, StaleReadsDetectable, CommittedReadsCurrent, Conflict, Written
  <2>6. OrderInv' /\ OwnedInv'
    BY DEF IndInv, OrderInv, OwnedInv, Locations, Written
  <2> QED
    BY <1>1, <2>1, <2>2, <2>3, <2>4, <2>5, <2>6 DEF IndInv
<1> QED
  BY <1>2, <1>3 DEF Next, Finished

\* In every reachable state of every instance the invariant IndInv holds.
THEOREM Invariance == Spec => []IndInv
<1>1. Init => IndInv
  BY InitIndInv
<1>2. IndInv /\ [Next]_vars => IndInv'
  BY NextIndInv
<1> QED
  BY <1>1, <1>2, PTL DEF Spec

\* Every variable keeps its type, whatever the threads do.
THEOREM TypeCorrect == Spec => []TypeOK
<1>1. IndInv => TypeOK
  BY DEF IndInv
<1> QED
  BY <1>1, Invariance, PTL

\* The locks of the table exclude each other: VersionLock::lock() called from
\* a LockGuard or from TVar::operator T, for any number of addresses that
\* share a stripe, and also when allocations throw.
THEOREM Exclusion == Spec => []LockExclusion
<1>1. IndInv => LockExclusion
  BY DEF IndInv
<1> QED
  BY <1>1, Invariance, PTL

\* Reading without any check is safe: try_commit() can still tell every value
\* that has been overwritten, or was torn, from one that is current.
THEOREM StaleReadsCaught == Spec => []StaleReadsDetectable
<1>1. IndInv => StaleReadsDetectable
  BY DEF IndInv
<1> QED
  BY <1>1, Invariance, PTL

\* No lost update: what a transaction has read is still in memory from its
\* decision to commit until it overwrites it itself.
THEOREM NoLostUpdate == Spec => []CommittedReadsCurrent
<1>1. IndInv => CommittedReadsCurrent
  BY DEF IndInv
<1> QED
  BY <1>1, Invariance, PTL

\* The version of a stripe never decreases, whatever order committers come in.
THEOREM VersionsMonotone == Spec => VersionsGrow
<1>1. ASSUME IndInv, [Next]_vars
      PROVE  [\A s \in Stripe : version'[s] >= version[s]]_vars
  <2>1. ASSUME NEW t \in Thread, Step(t), NEW s \in Stripe
        PROVE  version'[s] >= version[s]
    <3>1. CASE version'[s] = version[s]
      BY <1>1, <3>1 DEF IndInv, TypeOK
    <3>2. CASE version'[s] = wv[t] /\ s \in HeldStripes(t) /\ pc[t] = "commit"
      BY <1>1, <3>2 DEF IndInv, ClockInv, TypeOK, PostClock
    <3> QED
      BY <1>1, <2>1, <3>1, <3>2, StripeStep DEF IndInv
  <2> QED
    BY <1>1, <2>1 DEF Next, Finished
<1> QED
  BY <1>1, Invariance, PTL DEF Spec, VersionsGrow

\* A TVar is assigned only under its stripe's lock and never under the eyes of
\* another thread that has decided to commit with it in its log.
THEOREM ExclusiveWriteBack == Spec => WritesExclusive
<1> DEFINE A ==
      \A a \in Addr : mem'[a] # mem[a] =>
        \E t \in Thread :
          /\ pc[t] = "move"
          /\ Index(a) \in Locks(t)
          /\ \A u \in Thread \ {t} :
               pc[u] \in WritingBack => a \notin Locations(u)
<1>1. ASSUME IndInv, [Next]_vars
      PROVE  [A]_vars
  <2>1. ASSUME NEW t \in Thread, Step(t), NEW a \in Addr, mem'[a] # mem[a]
        PROVE  /\ pc[t] = "move"
               /\ Index(a) \in Locks(t)
               /\ \A u \in Thread \ {t} :
                    pc[u] \in WritingBack => a \notin Locations(u)
    <3>1. PICK b \in Addr :
            /\ pc[t] = "move"
            /\ Index(b) \in HeldStripes(t)
            /\ mem' = [mem EXCEPT ![b] = wset[t][b]]
      BY <1>1, <2>1, MemStep DEF IndInv
    <3>2. a = b
      BY <1>1, <2>1, <3>1 DEF IndInv, TypeOK
    <3>3. ASSUME NEW u \in Thread \ {t}, pc[u] \in WritingBack, a \in Locations(u)
          PROVE  FALSE
      <4>1. Index(a) \in HeldStripes(u)
        BY <1>1, <3>3 DEF IndInv, CoverInv, WritingBack, PostClock
      <4> QED
        BY <1>1, <3>1, <3>2, <4>1, HeldDisjoint DEF IndInv
    <3> QED
      BY <3>1, <3>2, <3>3 DEF Locks
  <2> QED
    BY <1>1, <2>1 DEF Next, Finished
<1> QED
  BY <1>1, Invariance, PTL DEF Spec, WritesExclusive
----------------------------------------------------------------------------
(* Nobody waits for ever on a lock: orphaned locks and cycles.             *)

\* Where nothing allocates in vain, a lock bit is set only while a LockGuard
\* or a copy that will clear it is alive.
LEMMA NextNoOrphan ==
  ASSUME ~AllocMayFail, TypeOK, GuardInv, NoOrphanLock, NEW t \in Thread, Step(t)
  PROVE  NoOrphanLock'
<1> USE DEF TypeOK
<1> SUFFICES ASSUME NEW s \in Stripe, locked'[s]
             PROVE  \E u \in Thread : s \in Locks(u)'
  BY DEF NoOrphanLock
<1>0. \A u \in Thread : u # t => Locks(u)' = Locks(u)
  BY Frame, SameDerived
\* It is enough that what t no longer holds is no longer locked.
<1>x. ASSUME locked[s] => s \in Locks(t)' \/ s \notin Locks(t),
             ~locked[s] => s \in Locks(t)'
      PROVE  \E u \in Thread : s \in Locks(u)'
  <2>1. CASE s \in Locks(t)'
    BY <2>1
  <2>2. CASE s \notin Locks(t)'
    <3>1. locked[s] /\ s \notin Locks(t)
      BY <1>x, <2>2
    <3>2. PICK u \in Thread : s \in Locks(u)
      BY <3>1 DEF NoOrphanLock
    <3>3. Locks(u)' = Locks(u)
      BY <1>0, <3>1, <3>2
    <3> QED
      BY <3>2, <3>3
  <2> QED
    BY <2>1, <2>2
<1>1. CASE LockQuiet(t)
  <2>1. Locks(t)' = Locks(t)
    BY <1>1 DEF LockQuiet, Locks, HeldStripes
  <2> QED
    BY <1>1, <1>x, <2>1 DEF LockQuiet
<1>2. CASE LockForCopy(t)
  <2>1. /\ held'[t] = held[t]
        /\ pc[t] # "copy" /\ pc'[t] = "copy"
        /\ cur'[t] = cur[t]
        /\ locked' = [locked EXCEPT ![Index(cur[t])] = TRUE]
    BY <1>2 DEF LockForCopy, Lock
  <2>2. Locks(t)' = Locks(t) \cup {Index(cur[t])}
    BY <2>1 DEF Locks, HeldStripes
  <2> QED
    BY <1>x, <2>1, <2>2
<1>3. CASE CopyAndUnlock(t)
  <2>1. /\ held'[t] = held[t]
        /\ pc[t] = "copy" /\ pc'[t] # "copy"
        /\ Index(cur[t]) \in Stripe
        /\ locked' = [locked EXCEPT ![Index(cur[t])] = FALSE]
    BY <1>3, IndexType DEF CopyAndUnlock, ReturnValue, Unlock
  <2>2. Locks(t) = Locks(t)' \cup {Index(cur[t])}
    BY <2>1 DEF Locks, HeldStripes
  <2> QED
    BY <1>x, <2>1, <2>2
<1>4. CASE LockNext(t)
  <2>1. PICK a \in Addr :
          \/ /\ Lock(Index(a))
             /\ held' = [held EXCEPT ![t] = @ \cup {a}]
          \/ UNCHANGED <<locked, held>>
    BY <1>4 DEF LockNext
  <2>2. pc[t] = "lock" /\ pc'[t] = "lock"
    BY <1>4 DEF LockNext
  <2>3. CASE UNCHANGED <<locked, held>>
    <3>1. Locks(t)' = Locks(t)
      BY <2>2, <2>3 DEF Locks, HeldStripes
    <3> QED
      BY <1>x, <2>3, <3>1
  <2>4. CASE Lock(Index(a)) /\ held' = [held EXCEPT ![t] = @ \cup {a}]
    <3>1. Locks(t)' = Locks(t) \cup {Index(a)}
      BY <2>2, <2>4 DEF Locks, HeldStripes
    <3> QED
      BY <1>x, <2>4, <3>1 DEF Lock
  <2> QED
    BY <2>1, <2>3, <2>4
<1>5. CASE UnlockLast(t)
  <2>1. PICK a \in held[t] :
          /\ locked' = [locked EXCEPT ![Index(a)] = FALSE]
          /\ held' = [held EXCEPT ![t] = @ \ {a}]
    BY <1>5 DEF UnlockLast, Unlock
  <2>2. pc[t] \in {"committed", "aborted"} /\ pc'[t] = pc[t]
    BY <1>5 DEF UnlockLast
  <2>3. Locks(t) = Locks(t)' \cup {Index(a)} /\ Index(a) \in Stripe
    BY <2>1, <2>2, IndexType DEF Locks, HeldStripes
  <2> QED
    BY <1>x, <2>1, <2>3
<1>6. ~CopyThrows(t) /\ ~CopyCaught(t) /\ ~GuardThrows(t)
  BY DEF CopyThrows, CopyCaught, GuardThrows
<1> QED
  BY <1>1, <1>2, <1>3, <1>4, <1>5, <1>6, LockActions

\* As long as no allocation fails, every set lock bit has a thread that will
\* clear it: ~LockGuard and the unlock() of TVar::operator T miss none, also
\* when several locations of a log share a stripe.
THEOREM EveryLockHasAnOwner == ~AllocMayFail /\ Spec => []NoOrphanLock
<1> SUFFICES ASSUME ~AllocMayFail
             PROVE  Spec => []NoOrphanLock
  OBVIOUS
<1>1. Init => NoOrphanLock
  BY DEF Init, NoOrphanLock
<1>2. ASSUME IndInv, NoOrphanLock, [Next]_vars
      PROVE  NoOrphanLock'
  <2>1. CASE UNCHANGED vars
    BY <1>2, <2>1 DEF NoOrphanLock, Locks, HeldStripes, vars, shared
  <2>2. ASSUME NEW t \in Thread, Step(t)
        PROVE  NoOrphanLock'
    BY <1>2, <2>2, NextNoOrphan DEF IndInv
  <2> QED
    BY <1>2, <2>1, <2>2 DEF Next, Finished
<1> QED
  BY <1>1, <1>2, Invariance, PTL DEF Spec

\* A nonempty set of naturals has a least element.
LEMMA LeastNat ==
  ASSUME NEW T, T \subseteq Nat, T # {}
  PROVE  \E x \in T : \A y \in T : x <= y
<1> DEFINE R == {p \in Nat \X Nat : p[1] < p[2]}
<1>1. IsWellFoundedOn(R, Nat)
  BY NatLessThanWellFounded, Zenon DEF OpToRel
<1>2. \A x, y \in Nat : <<y, x>> \notin R => x <= y
  OBVIOUS
<1> HIDE DEF R
<1>3. \E x \in T : \A y \in T : ~(<<y, x>> \in R)
  BY <1>1, WFMin, Zenon
<1> QED
  BY <1>2, <1>3

\* A nonempty set of stripes has a greatest one.
LEMMA GreatestStripe ==
  ASSUME NEW T, T \subseteq Stripe, T # {}
  PROVE  \E x \in T : \A y \in T : y <= x
<1> DEFINE D == {LockTableSize - x : x \in T}
<1>1. LockTableSize \in Nat
  BY ConstAssumption
<1>2. \A x \in T : x \in Nat /\ x < LockTableSize
  BY <1>1 DEF Stripe
<1>3. D \subseteq Nat /\ D # {}
  BY <1>1, <1>2
<1>4. PICK d \in D : \A e \in D : d <= e
  BY <1>3, LeastNat
<1>5. PICK x \in T : d = LockTableSize - x
  OBVIOUS
<1>6. ASSUME NEW y \in T
      PROVE  y <= x
  <2>1. LockTableSize - y \in D
    OBVIOUS
  <2>2. LockTableSize - x <= LockTableSize - y
    BY <1>4, <1>5, <2>1
  <2> QED
    BY <1>1, <1>2, <2>2
<1> QED
  BY <1>6

\* The stripes are ordered like the addresses: operator[] of hash_table.h does
\* not wrap around between the first TVar and the last.
StripesOrdered == \A a, b \in Addr : a <= b => Index(a) <= Index(b)

\* One case in which they are: the table has a stripe of its own for every
\* four bytes up to the last TVar.
LEMMA LargeTableOrdered ==
  ASSUME \A a \in Addr : a \div 4 < LockTableSize
  PROVE  StripesOrdered
<1> SUFFICES ASSUME NEW a \in Addr, NEW b \in Addr, a <= b
             PROVE  Index(a) <= Index(b)
  BY DEF StripesOrdered
<1>1. /\ a \in Nat /\ b \in Nat
      /\ LockTableSize \in Nat /\ LockTableSize > 0
  BY ConstAssumption
<1>2. \A n \in Nat : n < LockTableSize => n % LockTableSize = n
  BY <1>1
<1>3. /\ a \div 4 \in Nat /\ b \div 4 \in Nat
      /\ a \div 4 <= b \div 4
  BY <1>1
<1>4. Index(a) = a \div 4 /\ Index(b) = b \div 4
  BY <1>2, <1>3 DEF Index
<1> QED
  BY <1>3, <1>4

\* A thread that holds a lock and waits for another is in the constructor of
\* its LockGuard, and waits for a stripe beyond every one that it holds: in
\* validation and write-back mark_owner() keeps it from waiting at all.
LEMMA WaitsUpwards ==
  ASSUME StripesOrdered, IndInv, NEW t \in Thread, NEW h \in Locks(t), NEW s \in Awaited(t)
  PROVE  h < s
<1> USE DEF IndInv, TypeOK
<1>1. pc[t] # "copy"
  BY DEF Awaited
<1>2. h \in HeldStripes(t)
  BY <1>1 DEF Locks
<1>3. pc[t] \in Guarding
  BY <1>2 DEF HeldStripes, GuardInv
<1>4. CASE pc[t] = "lock"
  <2>1. PICK b \in todo[t] : s = Index(b) /\ s \notin HeldStripes(t)
    BY <1>4 DEF Awaited
  <2>2. PICK a \in held[t] : h = Index(a)
    BY <1>2 DEF HeldStripes
  <2>3. a \in Addr /\ b \in Addr /\ a \in Nat /\ b \in Nat /\ a < b
    BY <1>4, <2>1, <2>2, ConstAssumption DEF OrderInv
  <2>4. Index(a) <= Index(b) /\ Index(a) \in Stripe /\ Index(b) \in Stripe
    BY <2>3, IndexType DEF StripesOrdered
  <2>5. Index(a) # Index(b)
    BY <1>2, <2>1, <2>2
  <2> QED
    BY <2>1, <2>2, <2>4, <2>5, ConstAssumption DEF Stripe
<1>5. CASE pc[t] \in {"validate", "commit"}
  <2>1. PICK b \in todo[t] : ~MayAccess(t, b)
    BY <1>5 DEF Awaited
  <2>2. b \in owner[t]
    BY <1>5, <2>1 DEF OwnedInv, PostClock
  <2> QED
    BY <2>1, <2>2 DEF MayAccess
<1>6. CASE pc[t] \in {"move", "committed", "aborted"}
  BY <1>6 DEF Awaited
<1> QED
  BY <1>3, <1>4, <1>5, <1>6 DEF Guarding

\* What a thread waits for is a stripe.
LEMMA AwaitedType ==
  ASSUME TypeOK, NEW t \in Thread
  PROVE  Awaited(t) \subseteq Stripe
<1> USE IndexType DEF TypeOK
<1>1. CASE pc[t] \in {"sample", "load"}
  BY <1>1 DEF Awaited
<1>2. CASE pc[t] = "lock"
  BY <1>2 DEF Awaited
<1>3. CASE pc[t] \in {"validate", "commit"}
  BY <1>3 DEF Awaited
<1>4. CASE pc[t] \notin {"sample", "load", "lock", "validate", "commit"}
  BY <1>4 DEF Awaited
<1> QED
  BY <1>1, <1>2, <1>3, <1>4

\* In a set of threads that wait for each other the one that is waited for at
\* the greatest stripe would itself wait for a greater one.
LEMMA NoCycle ==
  ASSUME StripesOrdered, IndInv
  PROVE  NoLockCycle
<1> SUFFICES ASSUME NEW S \in SUBSET Thread, S # {},
                    \A t \in S : \E u \in S : WaitsFor(t, u)
             PROVE  FALSE
  BY DEF NoLockCycle
<1> DEFINE W == {s \in Stripe : \E t, u \in S : s \in Awaited(t) /\ s \in Locks(u)}
<1>1. \A t \in S : \E s \in W : s \in Awaited(t)
  <2> TAKE t \in S
  <2>1. PICK u \in S : Awaited(t) \cap Locks(u) # {}
    BY DEF WaitsFor
  <2>2. PICK s \in Awaited(t) : s \in Locks(u)
    BY <2>1
  <2>3. s \in Stripe
    BY <2>2, AwaitedType DEF IndInv
  <2> QED
    BY <2>1, <2>2, <2>3
<1>2. W \subseteq Stripe /\ W # {}
  BY <1>1
<1>3. PICK s \in W : \A r \in W : r <= s
  <2> HIDE DEF W
  <2> QED
    BY <1>2, GreatestStripe
<1>4. PICK u \in S : s \in Locks(u)
  OBVIOUS
<1>5. PICK r \in W : r \in Awaited(u)
  BY <1>1
<1>6. s < r
  BY <1>4, <1>5, WaitsUpwards
<1>7. r <= s /\ r \in Nat /\ s \in Nat
  BY <1>3, ConstAssumption DEF Stripe
<1> QED
  BY <1>6, <1>7

\* No deadlock among any number of threads: locking the log in the order of
\* addresses excludes a cycle, provided that the stripes are in that order, too
\* (the run lock_table_wrap shows the cycle that is possible otherwise).
THEOREM DeadlockFree == StripesOrdered /\ Spec => []NoLockCycle
<1> SUFFICES ASSUME StripesOrdered
             PROVE  Spec => []NoLockCycle
  OBVIOUS
<1>1. IndInv => NoLockCycle
  BY NoCycle
<1> QED
  BY <1>1, Invariance, PTL

----------------------------------------------------------------------------
(* The core implements AtomicSTM.                                          *)

\* At most one thread has a decided write to an address still to come.
LEMMA PendingUnique ==
  \A t, u \in Thread : \A a \in Addr :
    IndInv /\ Pending(t, a) /\ Pending(u, a) => t = u
<1> SUFFICES ASSUME NEW t \in Thread, NEW u \in Thread, NEW a \in Addr,
                    IndInv, Pending(t, a), Pending(u, a), t # u
             PROVE  FALSE
  OBVIOUS
<1>1. Index(a) \in HeldStripes(t) /\ Index(a) \in HeldStripes(u)
  BY DEF Pending, IndInv, CoverInv, Locations, WritingBack, PostClock
<1> QED
  BY <1>1, HeldDisjoint DEF IndInv

\* What the abstract memory holds: the pending write if there is one.
AbsMemOK ==
  \A a \in Addr :
    /\ \A t \in Thread : Pending(t, a) => AbsMem[a] = wset[t][a]
    /\ (\A t \in Thread : ~Pending(t, a)) => AbsMem[a] = mem[a]

\* AbsMem is determined: the CHOOSE of its definition has one candidate.
LEMMA AbsMemValue == IndInv => AbsMemOK
<1> SUFFICES ASSUME IndInv, NEW a \in Addr
             PROVE  /\ \A t \in Thread : Pending(t, a) => AbsMem[a] = wset[t][a]
                    /\ (\A t \in Thread : ~Pending(t, a)) => AbsMem[a] = mem[a]
  BY DEF AbsMemOK
<1>1. ASSUME NEW t \in Thread, Pending(t, a)
      PROVE  AbsMem[a] = wset[t][a]
  <2>1. (CHOOSE u \in Thread : Pending(u, a)) = t
    BY <1>1, PendingUnique
  <2> QED
    BY <1>1, <2>1 DEF AbsMem
<1>2. ASSUME \A t \in Thread : ~Pending(t, a)
      PROVE  AbsMem[a] = mem[a]
  BY <1>2 DEF AbsMem
<1> QED
  BY <1>1, <1>2

\* The same in the next state.
LEMMA AbsMemValueNext == IndInv' => AbsMemOK'
  BY AbsMemValue, PTL

\* The pending writes of the threads that do not step stay pending.
LEMMA PendingFrame ==
  ASSUME TypeOK, NEW t \in Thread, Step(t), NEW u \in Thread, u # t,
         NEW a \in Addr
  PROVE  /\ Pending(u, a)' <=> Pending(u, a)
         /\ wset'[u] = wset[u]
<1>1. Same(u)
  BY Frame
<1> QED
  BY <1>1 DEF Same, Pending

\* At an address where neither memory nor t's pending write changes, the
\* abstract memory does not change.
LEMMA AbsMemFrame ==
  ASSUME IndInv, IndInv', NEW t \in Thread, Step(t), NEW a \in Addr,
         Pending(t, a)' <=> Pending(t, a),
         Pending(t, a) => wset'[t] = wset[t],
         mem'[a] = mem[a]
  PROVE  AbsMem'[a] = AbsMem[a]
<1>t. TypeOK
  BY DEF IndInv
<1>1. CASE \E u \in Thread : Pending(u, a)
  <2>1. PICK u \in Thread : Pending(u, a)
    BY <1>1
  <2>2. Pending(u, a)' /\ wset'[u] = wset[u]
    BY <1>t, <2>1, PendingFrame
  <2>3. AbsMem[a] = wset[u][a]
    BY <2>1, AbsMemValue DEF AbsMemOK
  <2>4. AbsMem'[a] = wset'[u][a]
    BY <2>2, AbsMemValueNext DEF AbsMemOK
  <2> QED
    BY <2>2, <2>3, <2>4
<1>2. CASE \A u \in Thread : ~Pending(u, a)
  <2>1. ASSUME NEW u \in Thread
        PROVE  ~Pending(u, a)'
    BY <1>t, <1>2, PendingFrame
  <2>2. AbsMem[a] = mem[a]
    BY <1>2, AbsMemValue DEF AbsMemOK
  <2>3. AbsMem'[a] = mem'[a]
    BY <2>1, AbsMemValueNext DEF AbsMemOK
  <2> QED
    BY <2>2, <2>3
<1> QED
  BY <1>1, <1>2

\* Outside the write-back the abstract memory does not change.
LEMMA AbsMemQuiet ==
  ASSUME IndInv, IndInv', NEW t \in Thread, Step(t),
         pc[t] \notin WritingBack, pc'[t] \notin WritingBack, mem' = mem
  PROVE  AbsMem' = AbsMem
<1>1. ASSUME NEW a \in Addr
      PROVE  AbsMem'[a] = AbsMem[a]
  <2>1. ~Pending(t, a) /\ ~Pending(t, a)'
    BY DEF Pending
  <2> QED
    BY <2>1, AbsMemFrame
<1> QED
  BY <1>1 DEF AbsMem

\* A step of t changes the phase of t alone.
LEMMA PhaseStep ==
  ASSUME TypeOK, NEW t \in Thread, Step(t)
  PROVE  AbsPhase' = [AbsPhase EXCEPT ![t] = AbsPhase'[t]]
<1>1. ASSUME NEW u \in Thread, u # t
      PROVE  AbsPhase'[u] = AbsPhase[u]
  <2>1. Same(u)
    BY <1>1, Frame
  <2> QED
    BY <2>1 DEF Same, AbsPhase
<1>2. /\ AbsPhase = [u \in Thread |-> AbsPhase[u]]
      /\ AbsPhase' = [u \in Thread |-> AbsPhase'[u]]
  BY DEF AbsPhase
<1> QED
  BY <1>1, <1>2

\* The phase of a thread, by its pc.
LEMMA PhaseValue ==
  ASSUME NEW t \in Thread
  PROVE  /\ pc[t] = "idle" => AbsPhase[t] = "idle"
         /\ pc[t] \in WritingBack \cup {"committed"} => AbsPhase[t] = "committed"
         /\ pc[t] \in Undecided \cup {"aborted"} => AbsPhase[t] = "active"
         /\ pc'[t] = "idle" => AbsPhase'[t] = "idle"
         /\ pc'[t] \in WritingBack \cup {"committed"} => AbsPhase'[t] = "committed"
         /\ pc'[t] \in Undecided \cup {"aborted"} => AbsPhase'[t] = "active"
<1>1. /\ AbsPhase[t] =
           IF pc[t] = "idle" THEN "idle"
           ELSE IF pc[t] \in WritingBack \cup {"committed"} THEN "committed"
           ELSE "active"
      /\ AbsPhase'[t] =
           IF pc'[t] = "idle" THEN "idle"
           ELSE IF pc'[t] \in WritingBack \cup {"committed"} THEN "committed"
           ELSE "active"
  BY DEF AbsPhase
<1>2. \A p : /\ p \in WritingBack \cup {"committed"} => p # "idle"
             /\ p \in Undecided \cup {"aborted"} =>
                  p # "idle" /\ p \notin WritingBack \cup {"committed"}
  BY DEF WritingBack, Undecided
<1> QED
  BY <1>1, <1>2

\* A step within one phase that leaves AbsMem, the reads and the writes alone
\* is no step of the abstract specification.
LEMMA StutterStep ==
  ASSUME TypeOK, NEW t \in Thread, Step(t), AbsPhase'[t] = AbsPhase[t],
         AbsMem' = AbsMem, seen' = seen, wset' = wset
  PROVE  UNCHANGED Atomic!avars
<1>1. AbsPhase' = AbsPhase
  <2>1. AbsPhase = [u \in Thread |-> AbsPhase[u]]
    BY DEF AbsPhase
  <2>2. AbsPhase' = [AbsPhase EXCEPT ![t] = AbsPhase'[t]]
    BY PhaseStep
  <2> QED
    BY <2>1, <2>2
<1> QED
  BY <1>1 DEF Atomic!avars

----------------------------------------------------------------------------
(* The abstract steps.                                                     *)

\* Starting or restarting a body is ABegin.
LEMMA RefineBegin ==
  ASSUME IndInv, IndInv', NEW t \in Thread, Step(t), Begin(t) \/ Retry(t)
  PROVE  Atomic!ABegin(t)
<1>t. TypeOK
  BY DEF IndInv
<1>1. /\ pc[t] \in {"idle", "aborted"} /\ pc'[t] = "body" /\ mem' = mem
      /\ seen' = [seen EXCEPT ![t] = NothingSeen]
      /\ wset' = [wset EXCEPT ![t] = NothingWritten]
  BY <1>t DEF Begin, Retry, StartTransaction, shared, TypeOK
<1>2. AbsMem' = AbsMem
  BY <1>1, AbsMemQuiet DEF WritingBack
<1>3. AbsPhase[t] \in {"idle", "active"} /\ AbsPhase'[t] = "active"
  BY <1>1, PhaseValue DEF Undecided
<1>4. AbsPhase' = [AbsPhase EXCEPT ![t] = "active"]
  BY <1>t, <1>3, PhaseStep
<1> QED
  BY <1>1, <1>2, <1>3, <1>4
  DEF Atomic!ABegin, Atomic!NothingSeen, Atomic!NothingWritten, NothingSeen,
      NothingWritten

\* A load from shared memory is ARead.
LEMMA RefineRead ==
  ASSUME IndInv, IndInv', NEW t \in Thread, Step(t),
         LoadTrivial(t) \/ CopyAndUnlock(t)
  PROVE  \E a \in Addr, v \in Val : Atomic!ARead(t, a, v)
<1>t. TypeOK
  BY DEF IndInv
<1>1. PICK v \in Val : ReturnValue(t, v)
  BY <1>t DEF LoadTrivial, CopyAndUnlock, TypeOK
<1>2. /\ pc[t] \in {"load", "copy"} /\ pc'[t] = "body" /\ mem' = mem
      /\ wset' = wset
      /\ cur[t] \in Addr
      /\ seen' = [seen EXCEPT ![t][cur[t]] = @ \cup {v}]
  BY <1>t, <1>1 DEF LoadTrivial, CopyAndUnlock, ReturnValue, shared, logvars, TypeOK
<1>3. AbsMem' = AbsMem
  BY <1>2, AbsMemQuiet DEF WritingBack
<1>4. AbsPhase[t] = "active" /\ AbsPhase'[t] = "active"
  BY <1>2, PhaseValue DEF Undecided
<1>5. AbsPhase' = AbsPhase
  <2>1. AbsPhase = [u \in Thread |-> AbsPhase[u]]
    BY DEF AbsPhase
  <2>2. AbsPhase' = [AbsPhase EXCEPT ![t] = AbsPhase'[t]]
    BY <1>t, PhaseStep
  <2> QED
    BY <1>4, <2>1, <2>2
<1>6. Atomic!ARead(t, cur[t], v)
  BY <1>2, <1>3, <1>4, <1>5 DEF Atomic!ARead
<1> QED
  BY <1>2, <1>6

\* An assignment to a TVar is AWrite.
LEMMA RefineWrite ==
  ASSUME IndInv, IndInv', NEW t \in Thread, Step(t),
         NEW a \in Addr, NEW v \in Val, Write(t, a, v)
  PROVE  Atomic!AWrite(t, a, v)
<1>t. TypeOK
  BY DEF IndInv
<1>1. /\ pc[t] = "body" /\ pc' = pc /\ mem' = mem /\ seen' = seen
      /\ wset' = [wset EXCEPT ![t][a] = v]
  BY DEF Write, shared
<1>2. AbsMem' = AbsMem
  BY <1>1, AbsMemQuiet DEF WritingBack
<1>3. AbsPhase[t] = "active" /\ AbsPhase' = AbsPhase
  BY <1>1, PhaseValue DEF Undecided, AbsPhase
<1> QED
  BY <1>1, <1>2, <1>3 DEF Atomic!AWrite

\* Leaving atomically(), with a commit or an exception, is ALeave.
LEMMA RefineLeave ==
  ASSUME IndInv, IndInv', NEW t \in Thread, Step(t),
         CopyThrows(t) \/ Throw(t) \/ GuardThrows(t) \/ Return(t)
  PROVE  Atomic!ALeave(t)
<1>t. TypeOK
  BY DEF IndInv
<1>1. /\ pc[t] \in {"copy", "body", "lock", "committed"}
      /\ pc'[t] = "idle" /\ mem' = mem
      /\ seen' = [seen EXCEPT ![t] = NothingSeen]
      /\ wset' = [wset EXCEPT ![t] = NothingWritten]
  BY <1>t DEF CopyThrows, Throw, GuardThrows, Return, EndTransaction, shared, TypeOK
<1>2. AbsMem' = AbsMem
  BY <1>1, AbsMemQuiet DEF WritingBack
<1>3. AbsPhase[t] \in {"active", "committed"} /\ AbsPhase'[t] = "idle"
  BY <1>1, PhaseValue DEF Undecided
<1>4. AbsPhase' = [AbsPhase EXCEPT ![t] = "idle"]
  BY <1>t, <1>3, PhaseStep
<1> QED
  BY <1>1, <1>2, <1>3, <1>4
  DEF Atomic!ALeave, Atomic!NothingSeen, Atomic!NothingWritten, NothingSeen,
      NothingWritten

\* The decision to commit is ACommit: the body's reads are current, nobody
\* else's write is pending at any of them, and its writes become pending.
LEMMA RefineCommit ==
  ASSUME IndInv, IndInv', NEW t \in Thread, Step(t),
         \/ IncrVersion(t) /\ NoCommitSince(t, clock')
         \/ Validated(t)
  PROVE  Atomic!ACommit(t)
<1>t. TypeOK /\ TypeOK'
  BY DEF IndInv
<1>1. /\ pc[t] \in {"lock", "validate"} /\ pc'[t] = "commit" /\ mem' = mem
      /\ seen' = seen /\ wset' = wset
      /\ todo'[t] = Written(t)
      /\ pc[t] = "lock" => todo[t] = {}
  BY <1>t DEF IncrVersion, Validated, shared, logvars, body, TypeOK
<1>2. ASSUME NEW a \in Locations(t), NEW u \in Thread
      PROVE  ~Pending(u, a)
  <2>1. Index(a) \in HeldStripes(t)
    BY <1>1, <1>2 DEF IndInv, CoverInv, PostClock
  <2>2. u # t => Index(a) \notin HeldStripes(u)
    BY <2>1, HeldDisjoint DEF IndInv
  <2> QED
    BY <1>1, <2>2
    DEF Pending, IndInv, CoverInv, Locations, WritingBack, PostClock
<1>3. ASSUME NEW a \in Addr
      PROVE  seen[t][a] \subseteq {AbsMem[a]}
  <2> SUFFICES ASSUME NEW v \in seen[t][a]
               PROVE  v = AbsMem[a]
    OBVIOUS
  <2>1. v = mem[a]
    BY DecisionCurrent
  <2>2. a \in Locations(t)
    BY DEF IndInv, SampledInv, Sampled, Locations
  <2>3. AbsMem[a] = mem[a]
    BY <1>2, <2>2, AbsMemValue DEF AbsMemOK
  <2> QED
    BY <2>1, <2>3
<1>4. ASSUME NEW a \in Addr
      PROVE  AbsMem'[a] = IF wset[t][a] = NoVal THEN AbsMem[a] ELSE wset[t][a]
  <2>1. ~Pending(t, a) /\ (Pending(t, a)' <=> wset[t][a] # NoVal)
    BY <1>1 DEF Pending, Written, WritingBack
  <2>2. CASE wset[t][a] = NoVal
    <3>1. AbsMem'[a] = AbsMem[a]
      BY <1>1, <2>1, <2>2, AbsMemFrame
    <3> QED
      BY <2>2, <3>1
  <2>3. CASE wset[t][a] # NoVal
    <3>1. AbsMem'[a] = wset'[t][a]
      BY <2>1, <2>3, AbsMemValueNext DEF AbsMemOK
    <3> QED
      BY <1>1, <2>3, <3>1
  <2> QED
    BY <2>2, <2>3
<1>5. AbsMem' = [a \in Addr |-> IF wset[t][a] = NoVal THEN AbsMem[a] ELSE wset[t][a]]
  <2>1. AbsMem' = [a \in Addr |-> AbsMem'[a]]
    BY DEF AbsMem
  <2> QED
    BY <1>4, <2>1
<1>6. AbsPhase[t] = "active" /\ AbsPhase'[t] = "committed"
  BY <1>1, PhaseValue DEF Undecided, WritingBack
<1>7. AbsPhase' = [AbsPhase EXCEPT ![t] = "committed"]
  BY <1>t, <1>6, PhaseStep
<1> QED
  BY <1>1, <1>3, <1>5, <1>6, <1>7 DEF Atomic!ACommit

----------------------------------------------------------------------------
(* The steps the abstract specification does not see.                      *)

\* Reading into the log, waiting, locking, validating and unlocking.
LEMMA RefineSilent ==
  ASSUME IndInv, IndInv', NEW t \in Thread, Step(t),
         \/ \E a \in Addr : RegisterRead(t, a)
         \/ SampleVersion(t) \/ LockForCopy(t) \/ CopyCaught(t)
         \/ TryCommit(t) \/ LockNext(t)
         \/ (IncrVersion(t) /\ ~NoCommitSince(t, clock'))
         \/ ValidateNext(t) \/ UnlockLast(t)
  PROVE  UNCHANGED Atomic!avars
<1>t. TypeOK
  BY DEF IndInv
<1>1. mem' = mem /\ seen' = seen /\ wset' = wset
  BY DEF RegisterRead, SampleVersion, LockForCopy, CopyCaught, TryCommit, LockNext,
         IncrVersion, ValidateNext, UnlockLast, shared, logvars, body
<1>2. \/ /\ pc[t] \in Undecided
         /\ pc'[t] \in Undecided \cup {"aborted"}
      \/ pc[t] \in {"committed", "aborted"} /\ pc'[t] = pc[t]
  <2> USE <1>t DEF Undecided, TypeOK
  <2>1. CASE \E a \in Addr : RegisterRead(t, a)
    BY <2>1 DEF RegisterRead
  <2>2. CASE SampleVersion(t)
    BY <2>2 DEF SampleVersion
  <2>3. CASE LockForCopy(t) \/ CopyCaught(t) \/ TryCommit(t) \/ LockNext(t)
    BY <2>3 DEF LockForCopy, CopyCaught, TryCommit, LockNext
  <2>4. CASE IncrVersion(t) /\ ~NoCommitSince(t, clock')
    BY <2>4 DEF IncrVersion
  <2>5. CASE ValidateNext(t)
    BY <2>5 DEF ValidateNext
  <2>6. CASE UnlockLast(t)
    BY <2>6 DEF UnlockLast
  <2> QED
    BY <2>1, <2>2, <2>3, <2>4, <2>5, <2>6
<1>3. pc[t] \notin WritingBack /\ pc'[t] \notin WritingBack
  BY <1>2 DEF Undecided, WritingBack
<1>4. AbsMem' = AbsMem
  BY <1>1, <1>3, AbsMemQuiet
<1>5. AbsPhase'[t] = AbsPhase[t]
  BY <1>2, PhaseValue DEF AbsPhase
<1> QED
  BY <1>t, <1>1, <1>4, <1>5, StutterStep

\* Writing back: the value moves from the pending write to memory.
LEMMA RefineWriteBack ==
  ASSUME IndInv, IndInv', NEW t \in Thread, Step(t),
         SetVersion(t) \/ Move(t) \/ CommitDone(t)
  PROVE  UNCHANGED Atomic!avars
<1>t. TypeOK /\ TypeOK'
  BY DEF IndInv
<1>1. /\ seen' = seen /\ wset' = wset
      /\ pc[t] \in WritingBack /\ pc'[t] \in WritingBack \cup {"committed"}
  BY <1>t DEF SetVersion, Move, CommitDone, logvars, body, WritingBack, TypeOK
<1>2. ASSUME NEW a \in Addr
      PROVE  AbsMem'[a] = AbsMem[a]
  <2>1. CASE SetVersion(t) \/ CommitDone(t)
    <3>1. mem' = mem /\ (Pending(t, a)' <=> Pending(t, a))
      BY <1>t, <2>1 DEF SetVersion, CommitDone, Pending, shared, WritingBack, TypeOK
    <3> QED
      BY <1>1, <3>1, AbsMemFrame
  <2>2. CASE Move(t)
    <3>1. PICK b \in Addr :
            /\ NextLoc(t, b)
            /\ mem' = [mem EXCEPT ![b] = wset[t][b]]
            /\ todo' = [todo EXCEPT ![t] = @ \ {b}]
      BY <2>2 DEF Move
    <3>2. pc[t] = "move" /\ pc'[t] = "commit"
      BY <1>t, <2>2 DEF Move, TypeOK
    <3>3. CASE a = b
      <4>1. Pending(t, a) /\ ~Pending(t, a)'
        BY <1>t, <3>1, <3>2, <3>3 DEF Pending, NextLoc, WritingBack, TypeOK
      <4>2. ASSUME NEW u \in Thread
            PROVE  ~Pending(u, a)'
        <5>1. CASE u = t
          BY <4>1, <5>1
        <5>2. CASE u # t
          <6>1. ~Pending(u, a)
            BY <4>1, <5>2, PendingUnique
          <6> QED
            BY <1>t, <5>2, <6>1, PendingFrame
        <5> QED
          BY <5>1, <5>2
      <4>3. AbsMem[a] = wset[t][a]
        BY <4>1, AbsMemValue DEF AbsMemOK
      <4>4. AbsMem'[a] = mem'[a]
        BY <4>2, AbsMemValueNext DEF AbsMemOK
      <4>5. mem'[a] = wset[t][a]
        BY <1>t, <3>1, <3>3 DEF TypeOK
      <4> QED
        BY <4>3, <4>4, <4>5
    <3>4. CASE a # b
      <4>1. mem'[a] = mem[a] /\ (Pending(t, a)' <=> Pending(t, a))
        BY <1>t, <3>1, <3>2, <3>4 DEF Pending, WritingBack, TypeOK
      <4> QED
        BY <1>1, <4>1, AbsMemFrame
    <3> QED
      BY <3>3, <3>4
  <2> QED
    BY <2>1, <2>2
<1>3. AbsMem' = AbsMem
  BY <1>2 DEF AbsMem
<1>4. AbsPhase'[t] = AbsPhase[t]
  BY <1>1, PhaseValue
<1> QED
  BY <1>t, <1>1, <1>3, <1>4, StutterStep

----------------------------------------------------------------------------
\* The initial states of the core are initial states of AtomicSTM.
LEMMA RefineInit == Init => Atomic!AInit
<1> SUFFICES ASSUME Init
             PROVE  Atomic!AInit
  OBVIOUS
<1>1. \A t \in Thread : \A a \in Addr : ~Pending(t, a)
  BY DEF Init, Pending, WritingBack
<1>2. AbsMem = [a \in Addr |-> InitVal]
  BY <1>1 DEF AbsMem, Init
<1>3. AbsPhase = [t \in Thread |-> "idle"]
  BY DEF AbsPhase, Init
<1> QED
  BY <1>2, <1>3
  DEF Init, Atomic!AInit, Atomic!NothingSeen, Atomic!NothingWritten,
      NothingSeen, NothingWritten

\* Every step of the core is a step of AtomicSTM or invisible to it.
LEMMA RefineNext ==
  ASSUME IndInv, IndInv', [Next]_vars
  PROVE  [Atomic!ANext]_(Atomic!avars)
<1>1. ASSUME NEW t \in Thread, Step(t)
      PROVE  Atomic!ANext \/ UNCHANGED Atomic!avars
  <2>1. CASE Begin(t) \/ Retry(t)
    BY <1>1, <2>1, RefineBegin DEF Atomic!ANext
  <2>2. CASE LoadTrivial(t) \/ CopyAndUnlock(t)
    BY <1>1, <2>2, RefineRead DEF Atomic!ANext
  <2>3. CASE \E a \in Addr, v \in Val : Write(t, a, v)
    BY <1>1, <2>3, RefineWrite DEF Atomic!ANext
  <2>4. CASE CopyThrows(t) \/ Throw(t) \/ GuardThrows(t) \/ Return(t)
    BY <1>1, <2>4, RefineLeave DEF Atomic!ANext
  <2>5. CASE (IncrVersion(t) /\ NoCommitSince(t, clock')) \/ Validated(t)
    BY <1>1, <2>5, RefineCommit DEF Atomic!ANext
  <2>6. CASE \/ \E a \in Addr : RegisterRead(t, a)
             \/ SampleVersion(t) \/ LockForCopy(t) \/ CopyCaught(t)
             \/ TryCommit(t) \/ LockNext(t)
             \/ (IncrVersion(t) /\ ~NoCommitSince(t, clock'))
             \/ ValidateNext(t) \/ UnlockLast(t)
    BY <1>1, <2>6, RefineSilent
  <2>7. CASE SetVersion(t) \/ Move(t) \/ CommitDone(t)
    BY <1>1, <2>7, RefineWriteBack
  <2>8. CASE UNCHANGED vars
    BY <2>8
    DEF vars, shared, logvars, body, Atomic!avars, AbsMem, AbsPhase, Pending
  <2> QED
    BY <1>1, <2>1, <2>2, <2>3, <2>4, <2>5, <2>6, <2>7, <2>8 DEF Step, Spin
<1>2. CASE UNCHANGED vars
  BY <1>2
  DEF vars, shared, logvars, body, Atomic!avars, AbsMem, AbsPhase, Pending
<1> QED
  BY <1>1, <1>2 DEF Next, Finished

\* Strict serializability, for any number of threads, TVars and stripes: each
\* call of atomically() that returns took effect in one step, at the moment
\* try_commit() decided, on one shared memory.
THEOREM Refinement == Spec => Serializable
<1>1. Init => Atomic!AInit
  BY RefineInit
<1>2. IndInv /\ IndInv' /\ [Next]_vars => [Atomic!ANext]_(Atomic!avars)
  BY RefineNext
<1> QED
  BY <1>1, <1>2, Invariance, PTL DEF Spec, Serializable, Atomic!ASpec
=============================================================================
