------------------------------ MODULE RingQueue ------------------------------
(***************************************************************************)
(* The bounded queues of the benchmarks, ring buffers of TVars: the        *)
(* BoundedQueue of bounded_queue.h (kind "bounded") and the STMQueue of    *)
(* batch_bench.cc (kind "batch").  They differ in which operations leave   *)
(* their captured result variable alone when they find the queue full or   *)
(* empty, so that it keeps what a failed attempt has put there.            *)
(***************************************************************************)
EXTENDS SharedObject

ring_head == <<"head">>
ring_tail == <<"tail">>
items(i) == <<"items", i % Capacity>>

RingRequest ==
  [op : {"enq"}, val : Val] \cup [op : {"deq"}]
    \cup [op : {"both"}, val : Val] \cup [op : {"size"}]

\* The constructor, and after it any number of operations: h elements have
\* come and gone, and the ones of s are queued.
NewRing(h, s) ==
  mem = (ring_head :> h) @@ (ring_tail :> h + Len(s))
        @@ [x \in {items(i) : i \in 0..(Capacity - 1)} |->
             LET at == {i \in 1..Len(s) : items(h + i - 1) = x}
             IN  IF at = {} THEN none ELSE s[CHOOSE i \in at : TRUE]]

\* size_t h = static_cast<size_t>(head)
ReadRingHead(t) ==
  Read(t, "begin", ring_head,
       [th[t] EXCEPT !.pc = CASE Op(t) = "deq" -> "deq" [] Op(t) = "size" -> "size"
                              [] OTHER -> "enq",
                     !.loc = [h |-> Value(t, ring_head)]])

\* The rest of enq_tx().  A batch goes on with deq_tx().
AfterEnq(t, ok) ==
  IF Op(t) = "both" THEN [th[t] EXCEPT !.pc = "again"]
  ELSE [th[t] EXCEPT !.pc = "commit",
                     !.ret = IF ok THEN Yes ELSE IF kind = "batch" THEN th[t].ret ELSE No]
Full(t) == Value(t, ring_tail) - th[t].loc.h = Capacity
Enq(t) ==
  /\ ~Full(t)
  /\ ReadWrite(t, "enq", ring_tail,
       (items(Value(t, ring_tail)) :> th[t].call.val)
         @@ (ring_tail :> Value(t, ring_tail) + 1), AfterEnq(t, TRUE))
EnqRefused(t) ==
  /\ Full(t)
  /\ Read(t, "enq", ring_tail, AfterEnq(t, FALSE))

DeqAgain(t) ==
  Read(t, "again", ring_head,
       [th[t] EXCEPT !.pc = "deq", !.loc = [h |-> Value(t, ring_head)]])

\* The rest of deq_tx() and what its caller does with the pair.
Empty(t) == Value(t, ring_tail) = th[t].loc.h
DeqRefused(t) ==
  /\ Empty(t)
  /\ Read(t, "deq", ring_tail,
       [th[t] EXCEPT !.pc = "commit",
                     !.ret = IF Op(t) = "both" THEN Void ELSE th[t].ret])
DeqReadUnchecked(t) == Read(t, "deq", ring_tail, [th[t] EXCEPT !.pc = "item"])

DeqRead(t) ==
  /\ ~Empty(t)
  /\ Read(t, "deq", ring_tail, [th[t] EXCEPT !.pc = "item"])
DeqItem(t) ==
  LET x == items(th[t].loc.h) IN
  ReadWrite(t, "item", x, ring_head :> th[t].loc.h + 1,
    [th[t] EXCEPT !.pc = "commit",
                  !.ret = IF Op(t) = "both" THEN Void ELSE <<"value", Value(t, x)>>])

\* size() subtracts head from tail, and C++ leaves open which it reads first.
\* An attempt that reads the two around another's commit may get a difference
\* out of range, but does not commit.
ReadTailFirst(t) ==
  /\ Op(t) = "size"
  /\ Read(t, "begin", ring_tail,
          [th[t] EXCEPT !.pc = "size2", !.loc = [t |-> Value(t, ring_tail)]])
Size(t) ==
  \/ /\ AtPc(t, "size")
     /\ Read(t, "size", ring_tail,
          [th[t] EXCEPT !.pc = "commit",
                        !.ret = <<"size", Value(t, ring_tail) - th[t].loc.h>>])
  \/ /\ AtPc(t, "size2")
     /\ Read(t, "size2", ring_head,
          [th[t] EXCEPT !.pc = "commit",
                        !.ret = <<"size", th[t].loc.t - Value(t, ring_head)>>])

RingStep(t) ==
  \/ Call(t, {r \in RingRequest : r.op = "size" => kind = "bounded"})
  \/ ReadRingHead(t)
  \/ AtPc(t, "enq") /\ (Enq(t) \/ EnqRefused(t))
  \/ DeqAgain(t)
  \/ AtPc(t, "deq") /\ (DeqRefused(t) \/ DeqRead(t))
  \/ AtPc(t, "item") /\ DeqItem(t)
  \/ ReadTailFirst(t) \/ Size(t)
  \/ Commit(t)
  \/ Retry(t, Op(t) = "deq" \/ (kind = "batch" /\ Op(t) = "enq"), FALSE)
  \/ Return(t)

=============================================================================
