----------------------------- MODULE AtomicSTM -----------------------------
(***************************************************************************)
(* What atomically() promises its callers: a transaction that returns has  *)
(* taken effect in one step on one shared memory.  A body that is still    *)
(* running (or that will be retried) is promised nothing about what it     *)
(* reads: tl2/t_var.h validates no read before try_commit(), so the value  *)
(* a read returns is left unconstrained here.                              *)
(***************************************************************************)
CONSTANTS
  Thread,    \* threads that call atomically()
  Addr,      \* addresses of the TVars
  Val,       \* values a TVar can hold
  InitVal,   \* the value every TVar is constructed with
  NoVal      \* "not written by this transaction"

VARIABLES
  amem,      \* [Addr -> Val]: the one memory all transactions act on
  phase,     \* [Thread -> {"idle", "active", "committed"}]
  seen,      \* seen[t][a]: values t's body got from shared memory at a
  wset       \* wset[t][a]: value t's body last assigned to a, or NoVal

avars == <<amem, phase, seen, wset>>

NothingSeen == [a \in Addr |-> {}]
NothingWritten == [a \in Addr |-> NoVal]

AInit ==
  /\ amem = [a \in Addr |-> InitVal]
  /\ phase = [t \in Thread |-> "idle"]
  /\ seen = [t \in Thread |-> NothingSeen]
  /\ wset = [t \in Thread |-> NothingWritten]

\* The body starts, or starts again, with an empty log.
ABegin(t) ==
  /\ phase[t] \in {"idle", "active"}
  /\ phase' = [phase EXCEPT ![t] = "active"]
  /\ seen' = [seen EXCEPT ![t] = NothingSeen]
  /\ wset' = [wset EXCEPT ![t] = NothingWritten]
  /\ UNCHANGED amem

ARead(t, a, v) ==
  /\ phase[t] = "active"
  /\ seen' = [seen EXCEPT ![t][a] = @ \cup {v}]
  /\ UNCHANGED <<amem, phase, wset>>

AWrite(t, a, v) ==
  /\ phase[t] = "active"
  /\ wset' = [wset EXCEPT ![t][a] = v]
  /\ UNCHANGED <<amem, phase, seen>>

\* The transaction takes effect: everything it read is what the memory holds
\* now, and everything it wrote is in the memory afterwards.
ACommit(t) ==
  /\ phase[t] = "active"
  /\ \A a \in Addr : seen[t][a] \subseteq {amem[a]}
  /\ amem' = [a \in Addr |-> IF wset[t][a] = NoVal THEN amem[a] ELSE wset[t][a]]
  /\ phase' = [phase EXCEPT ![t] = "committed"]
  /\ UNCHANGED <<seen, wset>>

\* atomically() returns after a commit, or throws out of an active body.
ALeave(t) ==
  /\ phase[t] \in {"active", "committed"}
  /\ phase' = [phase EXCEPT ![t] = "idle"]
  /\ seen' = [seen EXCEPT ![t] = NothingSeen]
  /\ wset' = [wset EXCEPT ![t] = NothingWritten]
  /\ UNCHANGED amem

ANext ==
  \E t \in Thread :
    \/ ABegin(t)
    \/ \E a \in Addr, v \in Val : ARead(t, a, v) \/ AWrite(t, a, v)
    \/ ACommit(t)
    \/ ALeave(t)

ASpec == AInit /\ [][ANext]_avars
=============================================================================
