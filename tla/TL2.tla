-------------------------------- MODULE TL2 --------------------------------
(***************************************************************************)
(* The concurrent core of tl2-cpp: threads run transactions against shared *)
(* TVars through a global version clock and a table of versioned spin      *)
(* locks.  One action per access to shared memory; whatever a thread does  *)
(* to its own log between two such accesses belongs to the access before   *)
(* or after it.                                                            *)
(*                                                                         *)
(* The body of a transaction is any sequence of at most MaxOps reads and   *)
(* writes that then returns or throws; a retried body may choose a         *)
(* different sequence, since it may see different values.                  *)
(***************************************************************************)
EXTENDS Integers

CONSTANTS
  Thread,         \* threads that call atomically()
  Addr,           \* addresses of the TVars, a set of naturals
  Val,            \* values a TVar can hold
  InitVal,        \* the value every TVar is constructed with
  NoVal,          \* "no staged write at this address"
  Trivial,        \* the addresses whose type is std::is_trivial
  LockTableSize,  \* number of version locks (1 << 22 in the code)
  AllocMayFail,   \* TRUE: copies and containers may throw std::bad_alloc
  MaxOps,         \* bound: reads and writes in one run of a body
  MaxTxns         \* bound: calls of atomically() per thread

ASSUME ConstAssumption ==
  /\ Addr \subseteq Nat
  /\ Trivial \subseteq Addr
  /\ InitVal \in Val
  /\ NoVal \notin Val
  /\ LockTableSize \in Nat \ {0}
  /\ AllocMayFail \in BOOLEAN
  /\ MaxOps \in Nat
  /\ MaxTxns \in Nat

VARIABLES
  clock,     \* version of global_clock (its lock bit is never set)
  version,   \* version[s]: version part of the lock word of stripe s
  locked,    \* locked[s]: lock bit of stripe s
  mem,       \* mem[a]: m_data of the TVar at a
  pc,        \* where each thread is
  cur,       \* cur[t]: the address t's current read is about, or NoAddr
  rv,        \* rv[t]: context.rv, the clock when this attempt started
  wv,        \* wv[t]: write_version of this attempt's try_commit()
  reads,     \* reads[t]: logged locations with m_read set
  wset,      \* wset[t][a]: staged value of a logged location, or NoVal
  owner,     \* owner[t]: logged locations whose m_owner is t
  todo,      \* todo[t]: locations the current loop over the log has left
  held,      \* held[t]: LockGuard::m_locked, the locations that took a lock
  seen,      \* seen[t][a]: values the body got from shared memory at a
  ops,       \* ops[t]: reads and writes done by this run of the body
  txns       \* txns[t]: calls of atomically() made so far

shared == <<clock, version, locked, mem>>
logvars == <<reads, wset, owner>>
body == <<seen, ops, txns>>
vars == <<shared, pc, cur, rv, wv, logvars, todo, held, body>>

NoAddr == -1

Stripe == 0 .. (LockTableSize - 1)

NothingSeen == [a \in Addr |-> {}]
NothingWritten == [a \in Addr |-> NoVal]

(***************************************************************************)
(* pc values: "idle" outside atomically(); "body" in the transaction       *)
(* lambda; "sample", "load" and "copy" inside TVar::operator T; "lock" in  *)
(* the LockGuard constructor and up to the clock increment; "validate";    *)
(* "commit" and "move" at the two statements of the write-back loop;       *)
(* "committed" and "aborted" in the LockGuard destructor, after try_commit *)
(* has decided.                                                            *)
(***************************************************************************)
PC == {"idle", "body", "sample", "load", "copy", "lock", "validate",
       "commit", "move", "committed", "aborted"}

Init ==
  /\ clock = 0
  /\ version = [s \in Stripe |-> 0]
  /\ locked = [s \in Stripe |-> FALSE]
  /\ mem = [a \in Addr |-> InitVal]
  /\ pc = [t \in Thread |-> "idle"]
  /\ cur = [t \in Thread |-> NoAddr]
  /\ rv = [t \in Thread |-> 0]
  /\ wv = [t \in Thread |-> 0]
  /\ reads = [t \in Thread |-> {}]
  /\ wset = [t \in Thread |-> NothingWritten]
  /\ owner = [t \in Thread |-> {}]
  /\ todo = [t \in Thread |-> {}]
  /\ held = [t \in Thread |-> {}]
  /\ seen = [t \in Thread |-> NothingSeen]
  /\ ops = [t \in Thread |-> 0]
  /\ txns = [t \in Thread |-> 0]

----------------------------------------------------------------------------
(* The lock table, the log, and where a loop over the sorted log stands.   *)

\* LockTable::operator[]: stripes cover four bytes and wrap around.
Index(a) == (a \div 4) % LockTableSize

Written(t) == {a \in Addr : wset[t][a] # NoVal}
Locations(t) == reads[t] \cup Written(t)

\* a is the location the loop over the address-sorted log visits next.
NextLocUnsorted(t, a) == a \in todo[t]
NextLoc(t, a) ==
  /\ a \in todo[t]
  /\ \A b \in todo[t] : a <= b

HeldStripes(t) == {Index(a) : a \in held[t]}

\* VersionLock::lock, from the iteration whose compare_exchange succeeds, and
\* VersionLock::unlock.
LockUntested(s) == locked' = [locked EXCEPT ![s] = TRUE]
Lock(s) ==
  /\ ~locked[s]
  /\ locked' = [locked EXCEPT ![s] = TRUE]

ForgetUnlock(s) == UNCHANGED locked
Unlock(s) == locked' = [locked EXCEPT ![s] = FALSE]

\* VersionLock::get_version returns only when it finds the lock bit clear.
ReadThroughLock(s) == TRUE
Readable(s) == ~locked[s]

\* Location::get_version and set_version spin on a stripe whose lock bit is
\* set unless the location knows that its own thread owns the stripe.
MayAccessUnowned(t, a) == ~locked[Index(a)]
MayAccess(t, a) == a \in owner[t] \/ Readable(Index(a))

\* TMan::start_transaction.
StartTransaction(t) ==
  /\ rv' = [rv EXCEPT ![t] = clock]
  /\ wv' = [wv EXCEPT ![t] = 0]
  /\ reads' = [reads EXCEPT ![t] = {}]
  /\ wset' = [wset EXCEPT ![t] = NothingWritten]
  /\ owner' = [owner EXCEPT ![t] = {}]
  /\ seen' = [seen EXCEPT ![t] = NothingSeen]
  /\ ops' = [ops EXCEPT ![t] = 0]
  /\ pc' = [pc EXCEPT ![t] = "body"]

\* TMan::end_transaction; the body's local variables are gone with it.
EndTransaction(t) ==
  /\ rv' = [rv EXCEPT ![t] = 0]
  /\ wv' = [wv EXCEPT ![t] = 0]
  /\ reads' = [reads EXCEPT ![t] = {}]
  /\ wset' = [wset EXCEPT ![t] = NothingWritten]
  /\ owner' = [owner EXCEPT ![t] = {}]
  /\ seen' = [seen EXCEPT ![t] = NothingSeen]
  /\ ops' = [ops EXCEPT ![t] = 0]
  /\ pc' = [pc EXCEPT ![t] = "idle"]

----------------------------------------------------------------------------
(* The body of the transaction.                                            *)

Begin(t) ==
  /\ pc[t] = "idle"
  /\ txns[t] < MaxTxns
  /\ txns' = [txns EXCEPT ![t] = @ + 1]
  /\ StartTransaction(t)
  /\ UNCHANGED <<shared, cur, todo, held>>

\* Log::append_read: the location is in the log and marked read before
\* get_version() waits for its stripe.
RegisterRead(t, a) ==
  /\ pc[t] = "body"
  /\ ops[t] < MaxOps
  /\ ops' = [ops EXCEPT ![t] = @ + 1]
  /\ reads' = [reads EXCEPT ![t] = @ \cup {a}]
  /\ cur' = [cur EXCEPT ![t] = a]
  /\ pc' = [pc EXCEPT ![t] = "sample"]
  /\ UNCHANGED <<shared, rv, wv, wset, owner, todo, held, seen, txns>>

\* Location::read spins until the stripe is unlocked (the version it keeps
\* in m_rv is never used again).  A staged value is returned at once.
SampleVersion(t) ==
  /\ pc[t] = "sample"
  /\ Readable(Index(cur[t]))
  /\ IF wset[t][cur[t]] # NoVal
       THEN /\ pc' = [pc EXCEPT ![t] = "body"]
            /\ cur' = [cur EXCEPT ![t] = NoAddr]
       ELSE /\ pc' = [pc EXCEPT ![t] = "load"]
            /\ UNCHANGED cur
  /\ UNCHANGED <<shared, rv, wv, logvars, todo, held, body>>

ReturnUnset(t, v) ==
  /\ seen' = [seen EXCEPT ![t][cur[t]] = @ \cup {NoVal}]
  /\ pc' = [pc EXCEPT ![t] = "body"]
  /\ cur' = [cur EXCEPT ![t] = NoAddr]
ReturnValue(t, v) ==
  /\ seen' = [seen EXCEPT ![t][cur[t]] = @ \cup {v}]
  /\ pc' = [pc EXCEPT ![t] = "body"]
  /\ cur' = [cur EXCEPT ![t] = NoAddr]

\* Some other thread is assigning to the address t is loading from.
Racing(t) == \E u \in Thread \ {t} : pc[u] = "move" /\ NextLoc(u, cur[t])

\* The fast path for trivial types: a plain, unsynchronised load.  If it
\* races with another thread's write-back it may be torn, and return a value
\* that was never stored.
LoadTrivial(t) ==
  /\ pc[t] = "load"
  /\ cur[t] \in Trivial
  /\ \E v \in Val :
       /\ v = mem[cur[t]] \/ Racing(t)
       /\ ReturnValue(t, v)
  /\ UNCHANGED <<shared, rv, wv, logvars, todo, held, ops, txns>>

\* Other types are copied under the stripe's lock.
LockForCopy(t) ==
  /\ pc[t] = "load"
  /\ cur[t] \notin Trivial
  /\ Lock(Index(cur[t]))
  /\ pc' = [pc EXCEPT ![t] = "copy"]
  /\ UNCHANGED <<clock, version, mem, cur, rv, wv, logvars, todo, held, body>>

CopyAndUnlock(t) ==
  /\ pc[t] = "copy"
  /\ Unlock(Index(cur[t]))
  /\ ReturnValue(t, mem[cur[t]])
  /\ UNCHANGED <<clock, version, mem, rv, wv, logvars, todo, held, ops, txns>>

\* The copy throws between lock() and unlock(): nothing unlocks the stripe,
\* whether the exception leaves the body or the body catches it and goes on.
CopyThrows(t) ==
  /\ pc[t] = "copy"
  /\ AllocMayFail
  /\ EndTransaction(t)
  /\ cur' = [cur EXCEPT ![t] = NoAddr]
  /\ UNCHANGED <<shared, todo, held, txns>>

CopyCaught(t) ==
  /\ pc[t] = "copy"
  /\ AllocMayFail
  /\ pc' = [pc EXCEPT ![t] = "body"]
  /\ cur' = [cur EXCEPT ![t] = NoAddr]
  /\ UNCHANGED <<shared, rv, wv, logvars, todo, held, body>>

\* TVar::operator=: stages the value, or overwrites the staged one.
Write(t, a, v) ==
  /\ pc[t] = "body"
  /\ ops[t] < MaxOps
  /\ ops' = [ops EXCEPT ![t] = @ + 1]
  /\ wset' = [wset EXCEPT ![t][a] = v]
  /\ UNCHANGED <<shared, pc, cur, rv, wv, reads, owner, todo, held, seen, txns>>

\* The body throws a std::exception; atomically() ends the transaction and
\* rethrows.
Throw(t) ==
  /\ pc[t] = "body"
  /\ EndTransaction(t)
  /\ UNCHANGED <<shared, cur, todo, held, txns>>

----------------------------------------------------------------------------
(* try_commit().                                                           *)

\* The body returns; the LockGuard constructor sorts the log.
TryCommit(t) ==
  /\ pc[t] = "body"
  /\ todo' = [todo EXCEPT ![t] = Locations(t)]
  /\ pc' = [pc EXCEPT ![t] = "lock"]
  /\ UNCHANGED <<shared, cur, rv, wv, logvars, held, body>>

\* One turn of the constructor's loop: the first location of a stripe spins
\* for its lock, a later one is only marked as owned.
LockNext(t) ==
  /\ pc[t] = "lock"
  /\ \E a \in Addr :
       /\ NextLoc(t, a)
       /\ \/ /\ Index(a) \notin HeldStripes(t)
             /\ Lock(Index(a))
             /\ held' = [held EXCEPT ![t] = @ \cup {a}]
          \/ /\ Index(a) \in HeldStripes(t)
             /\ UNCHANGED <<locked, held>>
       /\ owner' = [owner EXCEPT ![t] = @ \cup {a}]
       /\ todo' = [todo EXCEPT ![t] = @ \ {a}]
  /\ UNCHANGED <<clock, version, mem, pc, cur, rv, wv, reads, wset, body>>

\* The constructor cannot allocate the entry for the next stripe.  The
\* destructor of an object whose constructor threw never runs, so the locks
\* taken so far stay taken.
GuardThrows(t) ==
  /\ pc[t] = "lock"
  /\ \E a \in Addr : NextLoc(t, a) /\ Index(a) \notin HeldStripes(t)
  /\ AllocMayFail
  /\ EndTransaction(t)
  /\ held' = [held EXCEPT ![t] = {}]
  /\ todo' = [todo EXCEPT ![t] = {}]
  /\ UNCHANGED <<shared, cur, txns>>

\* No other thread has incremented the clock since this attempt started.
NoCommitSinceOff(t, newClock) == newClock <= rv[t] + 2
NoCommitSince(t, newClock) == newClock = rv[t] + 1

IncrVersion(t) ==
  /\ pc[t] = "lock"
  /\ todo[t] = {}
  /\ clock' = clock + 1
  /\ wv' = [wv EXCEPT ![t] = clock']
  /\ IF NoCommitSince(t, clock')
       THEN /\ pc' = [pc EXCEPT ![t] = "commit"]
            /\ todo' = [todo EXCEPT ![t] = Written(t)]
       ELSE /\ pc' = [pc EXCEPT ![t] = "validate"]
            /\ todo' = [todo EXCEPT ![t] = reads[t]]
  /\ UNCHANGED <<version, locked, mem, cur, rv, logvars, held, body>>

ConflictOff(t, a) == version[Index(a)] > rv[t] + 1
Conflict(t, a) == version[Index(a)] > rv[t]

ValidateNext(t) ==
  /\ pc[t] = "validate"
  /\ \E a \in Addr :
       /\ NextLoc(t, a)
       /\ MayAccess(t, a)
       /\ \/ /\ Conflict(t, a)
             /\ pc' = [pc EXCEPT ![t] = "aborted"]
             /\ todo' = [todo EXCEPT ![t] = {}]
          \/ /\ ~Conflict(t, a)
             /\ todo' = [todo EXCEPT ![t] = @ \ {a}]
             /\ UNCHANGED pc
  /\ UNCHANGED <<shared, cur, rv, wv, logvars, held, body>>

Validated(t) ==
  /\ pc[t] = "validate"
  /\ todo[t] = {}
  /\ pc' = [pc EXCEPT ![t] = "commit"]
  /\ todo' = [todo EXCEPT ![t] = Written(t)]
  /\ UNCHANGED <<shared, cur, rv, wv, logvars, held, body>>

\* Location::set_version.
StampReadVersion(t, a) == version' = [version EXCEPT ![Index(a)] = rv[t]]
Stamp(t, a) == version' = [version EXCEPT ![Index(a)] = wv[t]]

\* commit(): for every written location, first the version, then the value.
SetVersion(t) ==
  /\ pc[t] = "commit"
  /\ \E a \in Addr :
       /\ NextLoc(t, a)
       /\ MayAccess(t, a)
       /\ Stamp(t, a)
  /\ pc' = [pc EXCEPT ![t] = "move"]
  /\ UNCHANGED <<clock, locked, mem, cur, rv, wv, logvars, todo, held, body>>

Move(t) ==
  /\ pc[t] = "move"
  /\ \E a \in Addr :
       /\ NextLoc(t, a)
       /\ mem' = [mem EXCEPT ![a] = wset[t][a]]
       /\ todo' = [todo EXCEPT ![t] = @ \ {a}]
  /\ pc' = [pc EXCEPT ![t] = "commit"]
  /\ UNCHANGED <<clock, version, locked, cur, rv, wv, logvars, held, body>>

CommitDone(t) ==
  /\ pc[t] = "commit"
  /\ todo[t] = {}
  /\ pc' = [pc EXCEPT ![t] = "committed"]
  /\ UNCHANGED <<shared, cur, rv, wv, logvars, todo, held, body>>

\* ~LockGuard: unlocks in the reverse of the order of acquisition.
UnlockLast(t) ==
  /\ pc[t] \in {"committed", "aborted"}
  /\ \E a \in held[t] :
       /\ \A b \in held[t] : b <= a
       /\ Unlock(Index(a))
       /\ held' = [held EXCEPT ![t] = @ \ {a}]
       /\ owner' = [owner EXCEPT ![t] = @ \ {a}]
  /\ UNCHANGED <<clock, version, mem, pc, cur, rv, wv, reads, wset, todo, body>>

\* try_commit() returned true: end_transaction() and return to the caller.
Return(t) ==
  /\ pc[t] = "committed"
  /\ held[t] = {}
  /\ EndTransaction(t)
  /\ UNCHANGED <<shared, cur, todo, held, txns>>

\* try_commit() returned false: restore the arguments and run the body again.
Retry(t) ==
  /\ pc[t] = "aborted"
  /\ held[t] = {}
  /\ StartTransaction(t)
  /\ UNCHANGED <<shared, cur, todo, held, txns>>

----------------------------------------------------------------------------
\* The stripes whose lock bit t's next access has to find clear.
Awaited(t) ==
  CASE pc[t] = "sample" -> {Index(cur[t])}
    [] pc[t] = "load" /\ cur[t] \notin Trivial -> {Index(cur[t])}
    [] pc[t] = "lock" ->
         {Index(a) : a \in {b \in todo[t] : NextLoc(t, b)}} \ HeldStripes(t)
    [] pc[t] \in {"validate", "commit"} ->
         {Index(a) : a \in {b \in todo[t] : NextLoc(t, b) /\ ~MayAccess(t, b)}}
    [] OTHER -> {}

\* One fruitless turn of a loop of version_lock.h that yields and tries again.
Spin(t) ==
  /\ \E s \in Awaited(t) : locked[s]
  /\ UNCHANGED vars

Step(t) ==
  \/ Begin(t)
  \/ \E a \in Addr : RegisterRead(t, a)
  \/ SampleVersion(t)
  \/ LoadTrivial(t)
  \/ LockForCopy(t)
  \/ CopyAndUnlock(t)
  \/ CopyThrows(t)
  \/ CopyCaught(t)
  \/ \E a \in Addr, v \in Val : Write(t, a, v)
  \/ Throw(t)
  \/ TryCommit(t)
  \/ LockNext(t)
  \/ GuardThrows(t)
  \/ IncrVersion(t)
  \/ ValidateNext(t)
  \/ Validated(t)
  \/ SetVersion(t)
  \/ Move(t)
  \/ CommitDone(t)
  \/ UnlockLast(t)
  \/ Return(t)
  \/ Retry(t)
  \/ Spin(t)

AllDone == \A t \in Thread : pc[t] = "idle" /\ txns[t] = MaxTxns

\* Every thread has made its calls: the system may stop here and only here.
Finished == AllDone /\ UNCHANGED vars

Next == (\E t \in Thread : Step(t)) \/ Finished

Spec == Init /\ [][Next]_vars

\* The operating system keeps running every thread that can take a step.
FairSpec == Spec /\ \A t \in Thread : WF_vars(Step(t))
=============================================================================
