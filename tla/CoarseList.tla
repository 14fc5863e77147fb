----------------------------- MODULE CoarseList -----------------------------
(***************************************************************************)
(* The CoarseList of the list benchmark: a sorted list under one mutex.    *)
(***************************************************************************)
EXTENDS OrderedList

lock == <<"lock">>

\* std::lock_guard g(lock), and the first step of locate().
CoarseLock(t) ==
  /\ AtPc(t, "begin")
  /\ owner[lock] = none
  /\ owner' = [owner EXCEPT ![lock] = t]
  /\ Become(t, [th[t] EXCEPT !.pc = "walk",
                              !.loc = [pred |-> head, curr |-> mem[next(head)]]])
  /\ UNCHANGED <<mem, used, calls>>

\* while (curr->key < key)
CoarseWalk(t) ==
  LET curr == th[t].loc.curr IN
  /\ AtPc(t, "walk") /\ KeyOf(curr) < th[t].call.key
  /\ Local(t, "walk", [th[t] EXCEPT !.loc = [pred |-> curr, curr |-> mem[next(curr)]]])

\* What add() and remove() do between two adjacent nodes, and the answer.
LinkBetween(t, n) ==
  LET curr == th[t].loc.curr IN
  /\ n \in Node \ used
  /\ used' = used \cup {n}
  /\ mem' = [x \in {next(th[t].loc.pred)} |-> n]
            @@ (next(n) :> curr) @@ (key(n) :> th[t].call.key) @@ mem
UnlinkCurr(t) ==
  /\ used' = used
  /\ mem' = [mem EXCEPT ![next(th[t].loc.pred)] = mem[next(th[t].loc.curr)]]
Apply(t, then) ==
  /\ CASE Op(t) = "add" /\ ~Found(t) -> LinkBetween(t, CHOOSE n \in Node \ used : TRUE)
       [] Op(t) = "remove" /\ Found(t) -> UnlinkCurr(t)
       [] OTHER -> UNCHANGED <<mem, used>>
  /\ Become(t, [th[t] EXCEPT !.pc = then,
                              !.ret = IF Op(t) = "add" THEN Bool(~Found(t)) ELSE Bool(Found(t))])

\* The rest of the operation, and the destructor of the guard.
CoarseApply(t) ==
  /\ AtPc(t, "walk") /\ KeyOf(th[t].loc.curr) >= th[t].call.key
  /\ Apply(t, "return")
  /\ owner' = [owner EXCEPT ![lock] = none]
  /\ UNCHANGED calls

CoarseStep(t) ==
  \/ Call(t, OrderedRequest)
  \/ CoarseLock(t) \/ CoarseWalk(t) \/ CoarseApply(t)
  \/ Return(t)

=============================================================================
