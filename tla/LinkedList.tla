----------------------------- MODULE LinkedList -----------------------------
(***************************************************************************)
(* zoo::LinkedList, whose operations are transactions over the TVars of    *)
(* its nodes, with the allocation and deletion of the nodes around them.   *)
(* One action per TVar that a body reads.  Of the STM the module takes     *)
(* what TL2 is shown to guarantee: a body reads whatever is committed at   *)
(* that moment, and it commits in one step, if nothing it has read was     *)
(* committed to since (StaleReadsDetectable, CommittedReadsCurrent).       *)
(*                                                                         *)
(* zoo::HashMap is an array of such lists, with items compared by key; its *)
(* get() and contains() are get(), its set() is update() of one list; the  *)
(* list's own contains() is get() without its last read.                   *)
(***************************************************************************)
EXTENDS Integers, Sequences, FiniteSets, Override

CONSTANTS
  Thread,
  Node,       \* bound: the nodes the heap has room for
  Key, Val,   \* items have a key, by which they are compared, and a value
  none,       \* nullptr, and "no value"
  MaxCalls    \* bound: calls of operations

VARIABLES
  mem,       \* mem[x]: committed value of TVar x
  heap,      \* nodes that are allocated
  th,        \* th[t]: the local state of thread t
  calls,     \* calls made so far
  undefined  \* a body has used a node that is nullptr or deleted

vars == <<mem, heap, th, calls, undefined>>

m_head == <<"m_head">>
m_sz == <<"m_sz">>
item(n) == <<"item", n>>
next(n) == <<"next", n>>
TVar == {m_head, m_sz} \cup {item(n) : n \in Node} \cup {next(n) : n \in Node}

Item == [key : Key, val : Val]
Request ==
  [op : {"add"}, item : Item]
    \cup [op : {"remove", "get"}, key : Key]
    \cup [op : {"update"}, key : Key, item : Item]
    \cup [op : {"size"}]

ASSUME ListAssumption ==
  /\ IsFiniteSet(Node)
  /\ none \notin Node \cup Request
  /\ MaxCalls \in Nat

\* Of a thread: where it is, what it has called, the local variables head,
\* pred and curr of the bodies, the node it has allocated or will delete, its
\* read set, its staged values, whether another thread has committed to
\* something in the read set, and what the call will return.
Idle ==
  [pc |-> "idle", call |-> none, start |-> none, pred |-> none, curr |-> none,
   node |-> none, rd |-> {}, wr |-> << >>, stale |-> FALSE, ret |-> none]

Init ==
  /\ mem = [x \in TVar |-> IF x = m_sz THEN 0 ELSE none]
  /\ heap = {}
  /\ th = [t \in Thread |-> Idle]
  /\ calls = 0
  /\ undefined = FALSE

----------------------------------------------------------------------------
(* Transactions.                                                           *)

Value(t, x) == IF x \in DOMAIN th[t].wr THEN th[t].wr[x] ELSE mem[x]

\* The log after t has read TVar x and then staged the writes w.
Log(t, x, w) == [rd |-> th[t].rd \cup {x}, wr |-> w @@ th[t].wr]

Op(t) == IF th[t].call = none THEN none ELSE th[t].call.op
AtPc(t, where) == th[t].pc = where /\ ~undefined
Become(t, new) == th' = [th EXCEPT ![t] = new @@ @]

\* A step of the body that changes only what is t's own.
Local(t, where, new) ==
  /\ AtPc(t, where)
  /\ Become(t, new)
  /\ UNCHANGED <<mem, heap, calls, undefined>>

\* new Node(i): the TVars of the node are initialised outside the STM.
NewUninitialised(n, i) ==
  /\ n \in Node \ heap
  /\ heap' = heap \cup {n}
  /\ UNCHANGED mem
New(n, i) ==
  /\ n \in Node \ heap
  /\ heap' = heap \cup {n}
  /\ mem' = [mem EXCEPT ![item(n)] = i, ![next(n)] = none]

\* The body starts, or starts again, with an empty log.
Begin(r) ==
  [Idle EXCEPT !.pc = IF r.op = "size" THEN "size" ELSE "head", !.call = r]

----------------------------------------------------------------------------
(* The operations.                                                         *)

\* An operation is called; add() allocates its node before the transaction.
Call(t) ==
  /\ AtPc(t, "idle")
  /\ calls < MaxCalls
  /\ calls' = calls + 1
  /\ \E r \in Request :
       IF r.op = "add"
         THEN \E n \in Node : New(n, r.item) /\ Become(t, [node |-> n] @@ Begin(r))
         ELSE Become(t, Begin(r)) /\ UNCHANGED <<mem, heap>>
  /\ UNCHANGED undefined

\* The body of add() up to its use of m_sz.
PushDetached(t) == Log(t, m_head, m_head :> th[t].node)
PushFront(t) ==
  Log(t, m_head, next(th[t].node) :> Value(t, m_head) @@ m_head :> th[t].node)

Push(t) ==
  /\ Op(t) = "add"
  /\ Local(t, "head", [pc |-> "size"] @@ PushFront(t))

\* A search: static_cast<Node *>(m_head), then curr->item and curr->next.
ReadHead(t) ==
  LET h == Value(t, m_head) IN
  /\ Op(t) # "add"
  /\ Local(t, "head", [pc |-> IF h = none THEN "absent" ELSE "item",
                       start |-> h, curr |-> h] @@ Log(t, m_head, << >>))

ReadItem(t) ==
  LET x == item(th[t].curr) IN
  /\ th[t].curr \in heap
  /\ Local(t, "item",
       [pc |-> IF Value(t, x).key = th[t].call.key THEN "found" ELSE "next"]
         @@ Log(t, x, << >>))

ReadNext(t) ==
  LET x == next(th[t].curr) IN
  /\ th[t].curr \in heap
  /\ Local(t, "next",
       [pc |-> IF Value(t, x) = none THEN "absent" ELSE "item",
        pred |-> th[t].curr, curr |-> Value(t, x)] @@ Log(t, x, << >>))

\* A match: get() reads the item once more, update() overwrites it, remove()
\* goes on with the size.
GetFound(t) ==
  LET x == item(th[t].curr) IN
  /\ Op(t) = "get"
  /\ th[t].curr \in heap
  /\ Local(t, "found",
       [pc |-> "commit", ret |-> <<"item", Value(t, x)>>] @@ Log(t, x, << >>))

UpdateFound(t) ==
  /\ Op(t) = "update"
  /\ Local(t, "found", [pc |-> "commit",
       wr |-> item(th[t].curr) :> th[t].call.item @@ th[t].wr])

RemoveFound(t) ==
  /\ Op(t) = "remove"
  /\ Local(t, "found", [pc |-> "size", ret |-> <<"removed", TRUE>>])

\* No match: remove() and get() are done, update() calls add(), which
\* allocates inside the transaction and reads m_head once more.
Absent(t) ==
  /\ Op(t) \in {"remove", "get"}
  /\ Local(t, "absent", [pc |-> "commit",
       ret |-> IF Op(t) = "get" THEN <<"item", none>> ELSE <<"removed", FALSE>>])

NestedAdd(t) ==
  /\ AtPc(t, "absent")
  /\ Op(t) = "update"
  /\ \E n \in Node : New(n, th[t].call.item) /\ Become(t, [pc |-> "push", node |-> n])
  /\ UNCHANGED <<calls, undefined>>

NestedPush(t) == Local(t, "push", [pc |-> "size"] @@ PushFront(t))

\* m_sz: returned, incremented, or decremented.
SizeOf(t) ==
  /\ Op(t) = "size"
  /\ Local(t, "size", [pc |-> "commit", ret |-> <<"size", Value(t, m_sz)>>]
                        @@ Log(t, m_sz, << >>))

Grow(t) ==
  /\ Op(t) \in {"add", "update"}
  /\ Local(t, "size", [pc |-> "commit"] @@ Log(t, m_sz, m_sz :> Value(t, m_sz) + 1))

Shrink(t) ==
  /\ Op(t) = "remove"
  /\ Local(t, "size",
       [pc |-> IF th[t].curr = th[t].start THEN "oldhead" ELSE "unlink"]
         @@ Log(t, m_sz, m_sz :> Value(t, m_sz) - 1))

\* remove() of the first node reads m_head again; then curr->next goes where
\* curr hung.
ReadOldHead(t) ==
  Local(t, "oldhead", [pc |-> "unlink", pred |-> none, curr |-> Value(t, m_head)]
                        @@ Log(t, m_head, << >>))

Unlink(t) ==
  LET link == IF th[t].pred = none THEN m_head ELSE next(th[t].pred)
      x == next(th[t].curr)
  IN /\ th[t].curr \in heap
     /\ Local(t, "unlink", [pc |-> "commit", node |-> th[t].curr]
                             @@ Log(t, x, link :> Value(t, x)))

\* The body dereferences nullptr or a deleted node.
UseDead(t) ==
  /\ \/ \E where \in {"item", "next", "unlink"} : AtPc(t, where)
     \/ AtPc(t, "found") /\ Op(t) = "get"
  /\ th[t].curr \notin heap
  /\ undefined' = TRUE
  /\ UNCHANGED <<mem, heap, th, calls>>

----------------------------------------------------------------------------
(* How an operation ends.                                                  *)

ValidAlways(t) == TRUE
Valid(t) == ~th[t].stale

\* The transaction commits; a node that was added belongs to the list now.
Commit(t) ==
  /\ AtPc(t, "commit")
  /\ Valid(t)
  /\ mem' = [x \in TVar |-> Value(t, x)]
  /\ th' = [u \in Thread |->
       IF u = t
         THEN [Idle EXCEPT !.pc = "return", !.call = th[t].call, !.ret = th[t].ret,
                           !.node = IF Op(t) = "remove" THEN th[t].node ELSE none]
         ELSE [th[u] EXCEPT !.stale = @ \/ th[u].rd \cap DOMAIN th[t].wr # {}]]
  /\ UNCHANGED <<heap, calls, undefined>>

\* try_commit() fails, also on a conflict that only shares a stripe.  A node
\* that was allocated inside the body is forgotten.
Retry(t) ==
  Local(t, "commit", [node |-> IF Op(t) = "add" THEN th[t].node ELSE none]
                       @@ Begin(th[t].call))

\* remove() deletes its node, if it has one.
Return(t) ==
  /\ AtPc(t, "return")
  /\ heap' = heap \ {th[t].node}
  /\ Become(t, Idle)
  /\ UNCHANGED <<mem, calls, undefined>>

\* new throws inside update(): the exception ends the transaction.
AllocFails(t) ==
  /\ Op(t) = "update"
  /\ heap = Node
  /\ Local(t, "absent", Idle)

Body(t) ==
  \/ Push(t) \/ ReadHead(t) \/ ReadItem(t) \/ ReadNext(t)
  \/ GetFound(t) \/ UpdateFound(t) \/ RemoveFound(t)
  \/ Absent(t) \/ NestedAdd(t) \/ NestedPush(t) \/ AllocFails(t)
  \/ SizeOf(t) \/ Grow(t) \/ Shrink(t)
  \/ ReadOldHead(t) \/ Unlink(t)
  \/ UseDead(t)

\* All calls are made and over, or the program is past undefined behaviour.
Finished ==
  /\ undefined \/ (calls = MaxCalls /\ \A t \in Thread : th[t] = Idle)
  /\ UNCHANGED vars

Next ==
  \/ \E t \in Thread :
       Call(t) \/ Body(t) \/ Commit(t) \/ Retry(t) \/ Return(t)
  \/ Finished

Spec == Init /\ [][Next]_vars

----------------------------------------------------------------------------
\* The committed list: the i-th node behind m_head.
Chain[i \in 0 .. Cardinality(Node)] ==
  IF i = 0 THEN mem[m_head]
  ELSE IF Chain[i - 1] = none THEN none ELSE mem[next(Chain[i - 1])]
Linked == {Chain[i] : i \in DOMAIN Chain} \ {none}

\* The node that t's operation holds outside the list.
InHand(t) ==
  IF th[t].pc \notin {"idle", "return"} /\ Op(t) = "remove" THEN {}
  ELSE {th[t].node} \cap Node

\* The type of every variable.
TypeOK ==
  /\ DOMAIN mem = TVar
  /\ mem[m_sz] \in Nat
  /\ heap \subseteq Node
  /\ \A n \in heap : mem[item(n)] \in Item /\ mem[next(n)] \in Node \cup {none}
  /\ \A t \in Thread :
       /\ DOMAIN th[t] = DOMAIN Idle
       /\ th[t].call \in Request \cup {none}
       /\ {th[t].start, th[t].pred, th[t].curr, th[t].node} \subseteq Node \cup {none}
       /\ th[t].rd \cup DOMAIN th[t].wr \subseteq TVar
       /\ th[t].stale \in BOOLEAN
  /\ calls \in 0 .. MaxCalls
  /\ undefined \in BOOLEAN

\* The committed list ends, has m_sz nodes, and all of them are allocated: no
\* interleaving of transactions on neighbouring nodes loses or revives one
\* (linked_list.h).
ListIntact ==
  /\ Chain[Cardinality(Node)] = none
  /\ Linked \subseteq heap
  /\ mem[m_sz] = Cardinality(Linked)

\* A node that remove() is about to delete, or that add() has not published,
\* is allocated, out of the list, and in the hands of one thread only: it is
\* not deleted twice and not deleted under the list.
OneOwner ==
  /\ \A t \in Thread : InHand(t) \subseteq heap \ Linked
  /\ \A t, u \in Thread : t # u => InHand(t) \cap InHand(u) = {}

Abs == INSTANCE AtomicList WITH
  list <- [i \in 1 .. Cardinality(Linked) |-> mem[item(Chain[i - 1])]],
  phase <- [t \in Thread |-> IF th[t].pc = "idle" THEN "idle"
                             ELSE IF th[t].pc = "return" THEN "done" ELSE "called"],
  req <- [t \in Thread |-> th[t].call],
  answer <- [t \in Thread |-> IF th[t].pc = "return" THEN th[t].ret ELSE none]

\* Every operation takes effect in one step, with the answer a sequential list
\* would give at that moment, although its body runs in many.
ListLinearizable == Abs!ASpec

\* "maintains memory safety under concurrent execution" (main.tex): no body
\* follows a pointer to a deleted node, or a null pointer.
MemorySafe == ~undefined
=============================================================================
