-------------------------- MODULE AtomicVersionLock --------------------------
(***************************************************************************)
(* What the rest of the library takes a version lock to be: a version and  *)
(* an owner, each operation a single step.  Module TL2 uses its stripes    *)
(* and its clock in exactly this way.                                      *)
(***************************************************************************)
EXTENDS Integers

CONSTANTS Thread, Version, NoThread

VARIABLES
  ver,      \* the version
  holder,   \* the thread that holds the lock, or NoThread
  result    \* result[t]: the version t's last call returned

avars == <<ver, holder, result>>

AInit ==
  /\ ver = 0
  /\ holder = NoThread
  /\ result = [t \in Thread |-> 0]

Acquire(t) ==
  /\ holder = NoThread
  /\ holder' = t
  /\ UNCHANGED <<ver, result>>

Release(t) ==
  /\ holder = t
  /\ holder' = NoThread
  /\ UNCHANGED <<ver, result>>

\* A version is read, or written by a stranger, only when nobody holds the
\* lock; the holder may do both.
Access(t) == holder \in {NoThread, t}

Get(t) ==
  /\ Access(t)
  /\ result' = [result EXCEPT ![t] = ver]
  /\ UNCHANGED <<ver, holder>>

Set(t, v) ==
  /\ Access(t)
  /\ ver' = v
  /\ UNCHANGED <<holder, result>>

Increment(t) ==
  /\ ver' = ver + 1
  /\ result' = [result EXCEPT ![t] = ver']
  /\ UNCHANGED holder

ANext ==
  \E t \in Thread :
    \/ Acquire(t)
    \/ Release(t)
    \/ Get(t)
    \/ \E v \in Version : Set(t, v)
    \/ Increment(t)

ASpec == AInit /\ [][ANext]_avars
=============================================================================
