------------------------------ MODULE TL2Props ------------------------------
(***************************************************************************)
(* The properties of the core (module TL2), and the refinement mapping     *)
(* under which it implements AtomicSTM.                                    *)
(***************************************************************************)
EXTENDS TL2

\* Every variable holds a value of its type; a thread is about a particular
\* address exactly while it is inside TVar::operator T.
TypeOK ==
  /\ clock \in Nat
  /\ version \in [Stripe -> Nat]
  /\ locked \in [Stripe -> BOOLEAN]
  /\ mem \in [Addr -> Val]
  /\ pc \in [Thread -> PC]
  /\ cur \in [Thread -> Addr \cup {NoAddr}]
  /\ rv \in [Thread -> Nat]
  /\ wv \in [Thread -> Nat]
  /\ reads \in [Thread -> SUBSET Addr]
  /\ wset \in [Thread -> [Addr -> Val \cup {NoVal}]]
  /\ owner \in [Thread -> SUBSET Addr]
  /\ todo \in [Thread -> SUBSET Addr]
  /\ held \in [Thread -> SUBSET Addr]
  /\ seen \in [Thread -> [Addr -> SUBSET Val]]
  /\ ops \in [Thread -> Nat]
  /\ txns \in [Thread -> Nat]
  /\ \A t \in Thread : cur[t] \in Addr <=> pc[t] \in {"sample", "load", "copy"}

----------------------------------------------------------------------------
(* Locks.                                                                  *)

\* The stripes thread t will unlock: those of its LockGuard, and the one it
\* copies a non-trivial value under.
Locks(t) ==
  HeldStripes(t) \cup (IF pc[t] = "copy" THEN {Index(cur[t])} ELSE {})

\* No two threads hold the lock of one stripe, whether they got it in the
\* LockGuard or in TVar::operator T, and a held lock has its bit set, also
\* when several logged addresses share the stripe (lock_guard.h, t_var.h).
LockExclusion ==
  /\ \A t \in Thread : \A s \in Locks(t) : locked[s]
  /\ \A t, u \in Thread : t # u => Locks(t) \cap Locks(u) = {}

\* Every lock bit that is set will be cleared by some thread: unlock() of
\* version_lock.h is still ahead of whoever set it.
NoOrphanLock ==
  \A s \in Stripe : locked[s] => \E t \in Thread : s \in Locks(t)

\* t spins for a stripe that u (perhaps t itself) holds.
WaitsFor(t, u) == Awaited(t) \cap Locks(u) # {}

\* No set of threads spins for locks that only they themselves would release.
\* Sorting the log before locking (lock_guard.h) is to rule out a cycle in
\* the LockGuard constructor, mark_owner() that a thread waits for itself when
\* two of its locations share a stripe.
NoLockCycle ==
  \A S \in (SUBSET Thread) \ {{}} :
    ~ \A t \in S : \E u \in S : WaitsFor(t, u)

----------------------------------------------------------------------------
(* Isolation.                                                              *)

\* Phases in which the transaction has not been decided yet.
Undecided == {"body", "sample", "load", "copy", "lock", "validate"}

WritingBack == {"commit", "move"}

\* A value that a body has read and that is no longer in memory is one that
\* try_commit() can still catch: its stripe's version has passed rv.  This
\* is what makes it safe to read without any check (t_var.h) and to validate
\* only once, against rv (stm.h).
StaleReadsDetectable ==
  \A t \in Thread : pc[t] \in Undecided =>
    \A a \in Addr : \A v \in seen[t][a] :
      v = mem[a] \/ Conflict(t, a)

\* From the decision to commit until it has overwritten a location, nobody
\* else changes what the transaction read there: no lost update, on the fast
\* path (wv = rv + 1, no validation) as on the slow one.
CommittedReadsCurrent ==
  \A t \in Thread : pc[t] \in WritingBack =>
    \A a \in Addr :
      a \notin Written(t) \/ a \in todo[t] => seen[t][a] \subseteq {mem[a]}

\* The version of a stripe never goes back: whoever sets it got its write
\* version after whoever set it before, because the clock is incremented
\* with all locks held.
VersionsGrow ==
  [][\A s \in Stripe : version'[s] >= version[s]]_vars

\* Memory changes only under the lock of its stripe, and never while another
\* thread's decided write to the same address is still to come.
WritesExclusive ==
  [][\A a \in Addr : mem'[a] # mem[a] =>
       \E t \in Thread :
         /\ pc[t] = "move"
         /\ Index(a) \in Locks(t)
         /\ \A u \in Thread \ {t} :
              pc[u] \in WritingBack => a \notin Locations(u)]_vars

----------------------------------------------------------------------------
(* Progress.                                                               *)

\* Every call of atomically() returns or throws: threads do not wait for
\* each other for ever, and every abort is paid for by another commit.
Termination == <>AllDone

----------------------------------------------------------------------------
(* Refinement: a transaction takes effect when try_commit() decides to     *)
(* commit; from then on its staged values count as written.                *)

Pending(t, a) == pc[t] \in WritingBack /\ a \in todo[t]

AbsMem ==
  [a \in Addr |->
     IF \E t \in Thread : Pending(t, a)
       THEN wset[CHOOSE t \in Thread : Pending(t, a)][a]
       ELSE mem[a]]

AbsPhase ==
  [t \in Thread |->
     IF pc[t] = "idle" THEN "idle"
     ELSE IF pc[t] \in WritingBack \cup {"committed"} THEN "committed"
     ELSE "active"]

Atomic == INSTANCE AtomicSTM WITH amem <- AbsMem, phase <- AbsPhase

\* Transactions are strictly serializable: each call of atomically() that
\* returns has read and written one shared memory in a single step between
\* its start and its return (test/linearizabillity.cc).
Serializable == Atomic!ASpec
=============================================================================
