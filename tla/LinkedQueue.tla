----------------------------- MODULE LinkedQueue -----------------------------
(***************************************************************************)
(* The STMQueue of queue.h: a chain of nodes behind a dummy node, with     *)
(* TVars for both ends and for the links.  Nodes are never deleted.        *)
(***************************************************************************)
EXTENDS SharedObject

queue_head == <<"head">>
queue_tail == <<"tail">>
QueueRequest == [op : {"enq"}, val : Val] \cup [op : {"deq"}]

\* The constructor: both ends point to the dummy.
NewQueue ==
  mem = (queue_head :> head) @@ (queue_tail :> head) @@ (next(head) :> none)

\* enqueue(): new Node(x) outside the transaction.
AllocateNode(t) ==
  LET n == CHOOSE m \in Node \ used : TRUE IN
  /\ AtPc(t, "begin") /\ Op(t) = "enq" /\ th[t].node = none
  /\ n \in Node \ used
  /\ used' = used \cup {n}
  /\ mem' = (value(n) :> th[t].call.val) @@ (next(n) :> none) @@ mem
  /\ Become(t, [th[t] EXCEPT !.node = n])
  /\ UNCHANGED <<owner, calls>>

LinkNodeUnread(t) ==
  /\ Op(t) = "enq" /\ th[t].node # none
  /\ Local(t, "begin",
       [th[t] EXCEPT !.pc = "commit", !.ret = Void,
                     !.wr = (next(Value(t, queue_tail)) :> th[t].node)
                              @@ (queue_tail :> th[t].node)])

LinkNode(t) ==
  /\ Op(t) = "enq" /\ th[t].node # none
  /\ ReadWrite(t, "begin", queue_tail,
       (next(Value(t, queue_tail)) :> th[t].node) @@ (queue_tail :> th[t].node),
       [th[t] EXCEPT !.pc = "commit", !.ret = Void])

ReadQueueHead(t) ==
  /\ Op(t) = "deq"
  /\ Read(t, "begin", queue_head,
          [th[t] EXCEPT !.pc = "next", !.loc = [h |-> Value(t, queue_head)]])

DequeueNode(t) ==
  LET x == next(th[t].loc.h)
      n == Value(t, x)
  IN  /\ AtPc(t, "next")
      /\ IF n = none
           THEN Read(t, "next", x, [th[t] EXCEPT !.pc = "commit", !.ret = No])
           ELSE ReadWrite(t, "next", x, queue_head :> n,
                          [th[t] EXCEPT !.pc = "commit",
                                        !.ret = <<"value", mem[value(n)]>>])

QueueStep(t) ==
  \/ Call(t, QueueRequest)
  \/ AllocateNode(t) \/ LinkNode(t)
  \/ ReadQueueHead(t) \/ DequeueNode(t)
  \/ Commit(t)
  \/ Retry(t, FALSE, FALSE)
  \/ Return(t)

=============================================================================
