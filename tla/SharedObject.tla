---------------------------- MODULE SharedObject ----------------------------
(***************************************************************************)
(* What the containers of zoo/, of the benchmarks and of the bank example  *)
(* have in common: threads that call operations on one shared object, the  *)
(* memory the object lives in, its mutexes, and, for the ones that are     *)
(* built on the STM, transactions.  One action per shared location that an *)
(* operation reads, so the operations of different threads interleave at   *)
(* every access.  Of the STM the module takes what TL2 is shown to         *)
(* guarantee: a body reads whatever is committed at that moment, and it    *)
(* commits in one step, if nothing it has read was committed to since.     *)
(***************************************************************************)
EXTENDS Integers, Sequences, FiniteSets, Override

CONSTANTS
  Thread,
  Kinds,      \* the containers that a run looks at
  Node,       \* bound: the nodes the heap has room for
  head, tail, \* the sentinels of the lists, and the first dummy of the queue
  Key, Val,   \* keys of items (or names of accounts), and values (amounts)
  none,       \* nullptr, std::nullopt, "no thread"
  Capacity,   \* of the ring buffers
  MaxCalls    \* bound: calls of operations

ASSUME ObjectAssumption ==
  /\ Kinds \subseteq {"ordered", "coarse", "fine", "lockfree", "bounded", "batch",
                      "queue", "stack", "bank"}
  /\ Key \subseteq Nat /\ Val \subseteq Nat
  /\ IsFiniteSet(Node)
  /\ {head, tail, none} \cap Node = {}
  /\ head # tail /\ head # none /\ tail # none
  /\ Capacity \in Nat \ {0}
  /\ MaxCalls \in Nat

VARIABLES
  kind,    \* which container the object is
  mem,     \* mem[x]: the value of location x; of a TVar, the committed one
  owner,   \* owner[l]: the thread that holds mutex l
  used,    \* nodes that are allocated
  th,      \* th[t]: the local state of thread t
  calls    \* calls made so far

state == <<kind, mem, owner, used, th, calls>>

next(n) == <<"next", n>>
key(n) == <<"key", n>>
value(n) == <<"value", n>>
NodeOrSentinel == Node \cup {head, tail}
KeyOf(n) == mem[key(n)]

Yes == <<"true">>
No == <<"false">>
Void == <<"void">>
Bool(b) == IF b THEN Yes ELSE No

\* Of a thread: where it is, what it has called, the local variables of the
\* operation, the node it has allocated, its read set, its staged values,
\* whether another thread has committed to something in the read set, and the
\* result variable of the operation.
Idle ==
  [pc |-> "idle", call |-> none, loc |-> << >>, node |-> none, rd |-> {},
   wr |-> << >>, stale |-> FALSE, ret |-> none]
Begin(r) == [Idle EXCEPT !.pc = "begin", !.call = r, !.ret = No]

Op(t) == IF th[t].call = none THEN none ELSE th[t].call.op
AtPc(t, where) == th[t].pc = where
Become(t, new) == th' = [th EXCEPT ![t] = new]

\* A step that changes nothing but the local state of t.
Local(t, where, new) ==
  /\ AtPc(t, where)
  /\ Become(t, new)
  /\ UNCHANGED <<mem, owner, used, calls>>

Call(t, Request) ==
  /\ AtPc(t, "idle")
  /\ calls < MaxCalls
  /\ calls' = calls + 1
  /\ \E r \in Request : th' = [th EXCEPT ![t] = Begin(r)]
  /\ UNCHANGED <<mem, owner, used>>

Return(t) ==
  /\ AtPc(t, "return")
  /\ th' = [th EXCEPT ![t] = [Idle EXCEPT !.ret = th[t].ret]]
  /\ UNCHANGED <<mem, owner, used, calls>>

----------------------------------------------------------------------------
(* Transactions.                                                           *)

Value(t, x) == IF x \in DOMAIN th[t].wr THEN th[t].wr[x] ELSE mem[x]

\* A body reads TVar x and goes on.
Read(t, where, x, new) ==
  Local(t, where, [new EXCEPT !.rd = @ \cup {x}])

\* The same, and it stages the writes w.
ReadWrite(t, where, x, w, new) ==
  Read(t, where, x, [new EXCEPT !.wr = w @@ @])

\* The same, after new Node: its fields f are no TVars, or are initialised
\* outside the STM.
ReadNew(t, where, x, n, f, w, new) ==
  /\ AtPc(t, where)
  /\ n \in Node \ used
  /\ used' = used \cup {n}
  /\ mem' = f @@ mem
  /\ Become(t, [new EXCEPT !.rd = @ \cup {x}, !.wr = w @@ @, !.node = n])
  /\ UNCHANGED <<owner, calls>>

Commit(t) ==
  LET w == th[t].wr IN
  /\ AtPc(t, "commit")
  /\ ~th[t].stale
  /\ mem' = w @@ mem
  /\ th' = [u \in Thread |->
             IF u = t THEN [th[u] EXCEPT !.pc = "return", !.rd = {}, !.wr = << >>]
             ELSE [th[u] EXCEPT !.stale = @ \/ th[u].rd \cap DOMAIN w # {}]]
  /\ UNCHANGED <<owner, used, calls>>

\* The attempt fails, on a stale read or because another thread has committed
\* to a location that shares a lock with one that was read, and the body runs
\* again.  A node allocated by the body is lost: nothing
\* points to it, so the heap may as well hand it out again.  The result
\* variable is captured by the body: it keeps its value when keeps holds.
Retry(t, keeps, drops) ==
  /\ AtPc(t, "commit")
  /\ th' = [th EXCEPT ![t] =
             [Begin(@.call) EXCEPT !.ret = IF keeps THEN th[t].ret ELSE No,
                                   !.node = IF drops THEN none ELSE th[t].node]]
  /\ used' = IF drops THEN used \ {th[t].node} ELSE used
  /\ UNCHANGED <<mem, owner, calls>>

=============================================================================
