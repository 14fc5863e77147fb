----------------------------- MODULE Containers -----------------------------
(***************************************************************************)
(* The shared containers, one of which the object is, and what they have   *)
(* to promise the threads that use them.                                   *)
(***************************************************************************)
EXTENDS RingQueue, LinkedQueue, LinkedStack, Bank, FineList, LockFreeList

VARIABLES
  could,    \* history: answers the call of a thread would have got, had it
            \* run alone at some moment since it began, and changed nothing
  changed,  \* history: the call of the thread has changed the object
  unsure    \* history: the answer of the call is not to be relied on

vars == <<kind, mem, owner, used, th, calls, could, changed, unsure>>

ListKinds == {"ordered", "coarse", "fine", "lockfree"}

----------------------------------------------------------------------------
(* The object that the memory stands for.                                  *)

\* The nodes that a walk from the first node n0 comes past.
NextNode(n) == IF kind = "lockfree" THEN Ptr(n) ELSE mem[next(n)]
Chain(n0) ==
  LET within[d \in Nat] ==
        IF d = 0 THEN {n0}
        ELSE LET w == within[d - 1] IN w \cup {NextNode(n) : n \in w \ {none}}
  IN  within[Cardinality(used) + 1] \ {none}

\* The values on the way from n to the end.
Values(n0) ==
  LET from[n \in NodeOrSentinel \cup {none}] ==
        IF n = none THEN << >> ELSE <<mem[value(n)]>> \o from[mem[next(n)]]
  IN  from[n0]

\* A node of the lock-free list that is marked and still linked.
HalfRemoved ==
  kind = "lockfree" /\ \E n \in Chain(head) : Marked(n)

object ==
  CASE kind \in ListKinds ->
         {KeyOf(n) : n \in {m \in Chain(head) \ {head, tail} :
                              kind = "lockfree" => ~Marked(m)}}
    [] kind \in {"bounded", "batch"} ->
         [i \in 1..(mem[ring_tail] - mem[ring_head]) |->
            mem[items(mem[ring_head] + i - 1)]]
    [] kind = "queue" -> Values(mem[next(mem[queue_head])])
    [] kind = "stack" -> Values(mem[top])
    [] kind = "bank" -> [n \in Key |-> mem[account(n)]]

Requests ==
  OrderedRequest \cup RingRequest \cup QueueRequest \cup StackRequest \cup BankRequest
ASSUME RequestAssumption == none \notin Requests

Atomic ==
  INSTANCE AtomicObject WITH
    Request <- Requests,
    request <- [t \in Thread |-> th[t].call],
    effect <- [t \in Thread |-> IF changed[t] THEN th[t].ret ELSE none],
    answer <- [t \in Thread |-> IF th[t].pc = "idle" THEN th[t].ret ELSE none]

\* What a ring promises if no captured result survives a retry.
Exact ==
  INSTANCE AtomicObject WITH
    Request <- Requests,
    unsure <- [t \in Thread |-> FALSE],
    request <- [t \in Thread |-> th[t].call],
    effect <- [t \in Thread |-> IF changed[t] THEN th[t].ret ELSE none],
    answer <- [t \in Thread |-> IF th[t].pc = "idle" THEN th[t].ret ELSE none]

----------------------------------------------------------------------------
(* The specification.                                                      *)

\* What a link to a node holds, in the lists with and without marks.
Plain == [n \in NodeOrSentinel |-> n]
Markable == [n \in NodeOrSentinel |-> Link(n)]

Init ==
  /\ kind \in Kinds
  /\ owner = IF kind = "coarse" THEN lock :> none
             ELSE IF kind = "fine" THEN [n \in NodeOrSentinel |-> none]
             ELSE << >>
  /\ CASE kind = "ordered" -> \E s \in SUBSET Key : NewList(s, Plain, none)
       [] kind \in {"coarse", "fine"} ->
            \E s \in SUBSET Key : NewList(s, Plain, tail)
       [] kind = "lockfree" ->
            \E s \in SUBSET Key : NewList(s, Markable, Link(tail))
       [] kind \in {"bounded", "batch"} ->
            /\ used = {}
            /\ \E n \in 0..Capacity : \E s \in [1..n -> Val] : NewRing(Capacity - 1, s)
       [] kind = "queue" -> used = {} /\ NewQueue
       [] kind = "stack" -> used = {} /\ NewStack
       [] kind = "bank" -> used = {} /\ NewBank
  /\ th = [t \in Thread |-> Idle]
  /\ calls = 0
  /\ could = [t \in Thread |-> {}]
  /\ changed = [t \in Thread |-> FALSE]
  /\ unsure = [t \in Thread |-> FALSE]

\* The answer of t is not to be relied on: contains() of the lock-free list,
\* once a removed node was still linked while it ran, and an operation of a
\* ring that begins again with the result of an attempt that failed.
Doubtful(t) ==
  \/ Op(t) = "contains" /\ HalfRemoved
  \/ kind \in {"bounded", "batch"} /\ AtPc(t, "begin") /\ th[t].ret # No

History(t) ==
  /\ \E o \in {object'} :
       /\ could' = Atomic!Widened(kind, o, [u \in Thread |-> th'[u].call])
       /\ changed' = [changed EXCEPT ![t] = th'[t].call # none /\ (@ \/ o # object)]
  /\ unsure' = [u \in Thread |->
                 th'[u].call # none /\ (unsure[u] \/ Doubtful(u)')]

Step(t) ==
  /\ \/ kind = "ordered" /\ OrderedStep(t)
     \/ kind = "coarse" /\ CoarseStep(t)
     \/ kind = "fine" /\ FineStep(t)
     \/ kind = "lockfree" /\ LockFreeStep(t)
     \/ kind \in {"bounded", "batch"} /\ RingStep(t)
     \/ kind = "queue" /\ QueueStep(t)
     \/ kind = "stack" /\ StackStep(t)
     \/ kind = "bank" /\ BankStep(t)
  /\ UNCHANGED kind
  /\ History(t)

Next == \E t \in Thread : Step(t)

\* Threads that hold no mutex and wait for none run on: the scheduler runs
\* every thread, and a mutex that is free goes to one of its waiters.
Spec == Init /\ [][Next]_vars /\ \A t \in Thread : WF_vars(Step(t))

----------------------------------------------------------------------------
(* Properties.                                                             *)

IsAnswer(a) ==
  \/ a \in {Yes, No, Void, none}
  \/ a[1] = "value" /\ a[2] \in Val
  \/ a[1] = "size" /\ a[2] \in Int

\* The variables of the containers have the types of their declarations, and
\* every answer is one its operation can give.
TypeOK ==
  /\ kind \in Kinds
  /\ used \subseteq Node
  /\ \A l \in DOMAIN owner : owner[l] \in Thread \cup {none}
  /\ \A t \in Thread :
       /\ th[t].call \in Requests \cup {none}
       /\ IsAnswer(th[t].ret)
       /\ th[t].stale \in BOOLEAN
       /\ th[t].node \in Node \cup {none}
  /\ calls \in 0..MaxCalls

\* The structures stay well formed at every step of every thread: a walk of a
\* list meets ever larger keys and ends in the tail sentinel (so a search ends,
\* whatever is added and removed before it); a ring never holds more than its
\* capacity or less than nothing; the tail of the linked queue is its last node.
WellFormed ==
  CASE kind \in ListKinds ->
         /\ tail \in Chain(head)
         /\ \A n \in Chain(head) \ {tail} : KeyOf(n) < KeyOf(NextNode(n))
    [] kind \in {"bounded", "batch"} -> mem[ring_tail] - mem[ring_head] \in 0..Capacity
    [] kind = "queue" ->
         /\ mem[queue_tail] \in Chain(mem[queue_head])
         /\ mem[next(mem[queue_tail])] = none
    [] OTHER -> TRUE

\* Every container is linearizable: each call takes effect in one step, as if
\* it ran alone, and answers what it would have been told at one moment of the
\* call, except for the two cases of Doubtful.
Linearizable == Atomic!ASpec

\* try_deq() and the other operations of the rings answer what they found in
\* the attempt that committed.
RingAnswersExact == Exact!ASpec

\* Every call on a list that uses mutexes, or none, returns: no deadlock of
\* threads that take node locks hand over hand, and no search that runs on.
\* Assumed: no `new Node` throws.  In FineList::add() it would leave the raw
\* mutexes of pred and curr locked for ever.
CallsReturn ==
  \A t \in Thread :
    (kind \in {"coarse", "fine", "lockfree"} /\ th[t].call # none) ~> th[t].pc = "idle"

=============================================================================
