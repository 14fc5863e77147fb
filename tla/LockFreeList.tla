---------------------------- MODULE LockFreeList ----------------------------
(***************************************************************************)
(* The LockFreeList of the list benchmark: a sorted list whose links carry *)
(* a mark.  remove() marks the link of its node and then tries once to     *)
(* unlink it; searches of add() and remove() unlink what they find marked. *)
(***************************************************************************)
EXTENDS OrderedList

\* AMR: the pair that pack() makes one word of, so that it is read, written
\* and compared in one step.
Link(ptr) == <<ptr, FALSE>>
Ptr(n) == mem[next(n)][1]
Marked(n) == mem[next(n)][2]
Linked(pred, curr) == mem[next(pred)] = <<curr, FALSE>>

\* compare_and_set(expected, new, false, mark) on the link of n.
CompareAndSet(n, expected, new, mark) ==
  /\ Linked(n, expected)
  /\ mem' = [mem EXCEPT ![next(n)] = <<new, mark>>]

Searching(t) == Op(t) \in {"add", "remove"}
Restart(t, where) == Local(t, where, [th[t] EXCEPT !.pc = "begin"])

\* locate(): pred = start; curr = pred->next.get(marked)
StartLocate(t) ==
  /\ Searching(t)
  /\ Local(t, "begin", [th[t] EXCEPT !.pc = "succ",
                                     !.loc = [pred |-> head, curr |-> Ptr(head)]])

\* succ = curr->next.get(marked), and the three ways to go on.
ReadSucc(t) ==
  LET curr == th[t].loc.curr
      pred == th[t].loc.pred
  IN  /\ AtPc(t, "succ")
      /\ Local(t, "succ",
           IF Marked(curr)
             THEN [th[t] EXCEPT !.pc = "unlink",
                                !.loc = [pred |-> pred, curr |-> curr, succ |-> Ptr(curr)]]
           ELSE IF KeyOf(curr) >= th[t].call.key
             THEN [th[t] EXCEPT !.pc = IF Op(t) = "add" THEN "link" ELSE "found"]
           ELSE [th[t] EXCEPT !.loc = [pred |-> curr, curr |-> Ptr(curr)]])

\* pred->next.compare_and_set(curr, succ, false, false), and from the start
\* again when it fails.
Unlink(t) ==
  LET l == th[t].loc IN
  /\ AtPc(t, "unlink")
  /\ \/ /\ CompareAndSet(l.pred, l.curr, l.succ, FALSE)
        /\ Become(t, [th[t] EXCEPT !.pc = "succ",
                                 !.loc = [pred |-> l.pred, curr |-> l.succ]])
        /\ UNCHANGED <<owner, used, calls>>
     \/ ~Linked(l.pred, l.curr) /\ Restart(t, "unlink")

\* add(): the key is there, or the new node is linked in, or all over again.
AddFound(t) ==
  /\ AtPc(t, "link") /\ Found(t)
  /\ Local(t, "link", [th[t] EXCEPT !.pc = "return", !.ret = No])
AddLinkUnchecked(t) ==
  LET l == th[t].loc
      n == CHOOSE m \in Node \ used : TRUE
  IN  /\ AtPc(t, "link") /\ ~Found(t)
      /\ n \in Node \ used
      /\ used' = used \cup {n}
      /\ mem' = (next(l.pred) :> Link(n)) @@ (next(n) :> Link(l.curr))
                @@ (key(n) :> th[t].call.key) @@ mem
      /\ Become(t, [th[t] EXCEPT !.pc = "return", !.ret = Yes])
      /\ UNCHANGED <<owner, calls>>

AddLink(t) ==
  LET l == th[t].loc
      n == CHOOSE m \in Node \ used : TRUE
  IN  /\ AtPc(t, "link") /\ ~Found(t)
      /\ \/ /\ Linked(l.pred, l.curr)
            /\ n \in Node \ used
            /\ used' = used \cup {n}
            /\ mem' = (next(l.pred) :> Link(n)) @@ (next(n) :> Link(l.curr))
                      @@ (key(n) :> th[t].call.key) @@ mem
            /\ Become(t, [th[t] EXCEPT !.pc = "return", !.ret = Yes])
            /\ UNCHANGED <<owner, calls>>
         \/ ~Linked(l.pred, l.curr) /\ Restart(t, "link")

\* remove(): no such key, or succ = curr->next.get(marked) of the node found.
RemoveRead(t) ==
  LET curr == th[t].loc.curr IN
  /\ AtPc(t, "found")
  /\ Local(t, "found",
       IF ~Found(t) THEN [th[t] EXCEPT !.pc = "return", !.ret = No]
       ELSE IF Marked(curr) THEN [th[t] EXCEPT !.pc = "begin"]
       ELSE [th[t] EXCEPT !.pc = "mark",
                          !.loc = [pred |-> th[t].loc.pred, curr |-> curr, succ |-> Ptr(curr)]])

Mark(t) ==
  LET l == th[t].loc IN
  /\ AtPc(t, "mark")
  /\ \/ /\ CompareAndSet(l.curr, l.succ, l.succ, TRUE)
        /\ Become(t, [th[t] EXCEPT !.pc = "detach", !.ret = Yes])
        /\ UNCHANGED <<owner, used, calls>>
     \/ ~Linked(l.curr, l.succ) /\ Restart(t, "mark")

\* The result of the last compare_and_set is ignored.
Detach(t) ==
  LET l == th[t].loc IN
  /\ AtPc(t, "detach")
  /\ CompareAndSet(l.pred, l.curr, l.succ, FALSE) \/ (~Linked(l.pred, l.curr) /\ UNCHANGED mem)
  /\ Become(t, [th[t] EXCEPT !.pc = "return"])
  /\ UNCHANGED <<owner, used, calls>>

\* contains(): next = curr->next.get(marked); the key is compared only when
\* the link followed was not marked.
StartContains(t) ==
  /\ Op(t) = "contains"
  /\ Local(t, "begin", [th[t] EXCEPT !.pc = "follow", !.loc = [curr |-> head]])
Follow(t) ==
  LET curr == th[t].loc.curr
      n == Ptr(curr)
  IN  /\ AtPc(t, "follow")
      /\ Local(t, "follow",
           IF ~Marked(curr) /\ KeyOf(n) >= th[t].call.key
             THEN [th[t] EXCEPT !.loc = [curr |-> n], !.pc = "return",
                                !.ret = Bool(KeyOf(n) = th[t].call.key)]
             ELSE [th[t] EXCEPT !.loc = [curr |-> n]])

LockFreeStep(t) ==
  \/ Call(t, OrderedRequest)
  \/ StartLocate(t) \/ ReadSucc(t) \/ Unlink(t)
  \/ AddFound(t) \/ AddLink(t)
  \/ RemoveRead(t) \/ Mark(t) \/ Detach(t)
  \/ StartContains(t) \/ Follow(t)
  \/ Return(t)

=============================================================================
