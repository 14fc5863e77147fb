------------------------------ MODULE FineList ------------------------------
(***************************************************************************)
(* The FineList of the list benchmark: a sorted list with a mutex in every *)
(* node, taken hand over hand; add(), remove() and contains() walk alike.  *)
(***************************************************************************)
EXTENDS CoarseList

Lock(t, n) ==
  /\ owner[n] = none
  /\ owner' = [owner EXCEPT ![n] = t]

\* pred = head; pred->lock.lock(); curr = pred->next
LockHead(t) ==
  /\ AtPc(t, "begin")
  /\ Lock(t, head)
  /\ Become(t, [th[t] EXCEPT !.pc = "lock",
                              !.loc = [pred |-> head, curr |-> mem[next(head)]]])
  /\ UNCHANGED <<mem, used, calls>>

\* curr->lock.lock()
LockCurr(t) ==
  /\ AtPc(t, "lock")
  /\ Lock(t, th[t].loc.curr)
  /\ Become(t, [th[t] EXCEPT !.pc = IF KeyOf(th[t].loc.curr) < th[t].call.key
                                         THEN "advance" ELSE "apply"])
  /\ UNCHANGED <<mem, used, calls>>

\* pred->lock.unlock(); pred = curr; curr = curr->next
Advance(t) ==
  LET curr == th[t].loc.curr IN
  /\ AtPc(t, "advance")
  /\ owner' = [owner EXCEPT ![th[t].loc.pred] = none]
  /\ Become(t, [th[t] EXCEPT !.pc = "lock",
                              !.loc = [pred |-> curr, curr |-> mem[next(curr)]]])
  /\ UNCHANGED <<mem, used, calls>>

\* The links are changed.  Assumed: `new Node` does not throw here, where
\* nothing would unlock pred and curr.
FineApply(t) ==
  /\ AtPc(t, "apply")
  /\ Apply(t, "unlock")
  /\ UNCHANGED <<owner, calls>>

UnlockCurrOnly(t) ==
  /\ AtPc(t, "unlock")
  /\ owner' = [owner EXCEPT ![th[t].loc.curr] = none]
  /\ Become(t, [th[t] EXCEPT !.pc = "return"])
  /\ UNCHANGED <<mem, used, calls>>

\* curr->lock.unlock(); pred->lock.unlock()
UnlockBoth(t) ==
  LET curr == th[t].loc.curr
      pred == th[t].loc.pred
  IN  /\ AtPc(t, "unlock")
      /\ IF owner[curr] = t
           THEN /\ owner' = [owner EXCEPT ![curr] = none]
                /\ UNCHANGED th
           ELSE /\ owner' = [owner EXCEPT ![pred] = none]
                /\ Become(t, [th[t] EXCEPT !.pc = "return"])
      /\ UNCHANGED <<mem, used, calls>>

FineStep(t) ==
  \/ Call(t, OrderedRequest)
  \/ LockHead(t) \/ LockCurr(t) \/ Advance(t) \/ FineApply(t) \/ UnlockBoth(t)
  \/ Return(t)

=============================================================================
