----------------------------- MODULE LinkedStack -----------------------------
(***************************************************************************)
(* The StackSTM of coarse_stack.h: one TVar, the top; the links and values *)
(* of the nodes are set before the node is published and never change, and *)
(* popped nodes are not freed.                                             *)
(***************************************************************************)
EXTENDS SharedObject

top == <<"top">>
StackRequest == [op : {"push"}, val : Val] \cup [op : {"pop", "empty"}]

NewStack == mem = (top :> none)

Push(t) ==
  LET n == CHOOSE m \in Node \ used : TRUE IN
  /\ Op(t) = "push"
  /\ ReadNew(t, "begin", top, n,
       (value(n) :> th[t].call.val) @@ (next(n) :> Value(t, top)), top :> n,
       [th[t] EXCEPT !.pc = "commit", !.ret = Void])

TryPop(t) ==
  LET n == Value(t, top) IN
  /\ Op(t) = "pop"
  /\ IF n = none
       THEN Read(t, "begin", top, [th[t] EXCEPT !.pc = "commit", !.ret = No])
       ELSE ReadWrite(t, "begin", top, top :> mem[next(n)],
                      [th[t] EXCEPT !.pc = "commit", !.ret = <<"value", mem[value(n)]>>])

IsEmpty(t) ==
  /\ Op(t) = "empty"
  /\ Read(t, "begin", top,
          [th[t] EXCEPT !.pc = "commit", !.ret = Bool(Value(t, top) = none)])

StackStep(t) ==
  \/ Call(t, StackRequest)
  \/ Push(t) \/ TryPop(t) \/ IsEmpty(t)
  \/ Commit(t)
  \/ Retry(t, FALSE, th[t].node # none)
  \/ Return(t)

=============================================================================
