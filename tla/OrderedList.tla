----------------------------- MODULE OrderedList -----------------------------
(***************************************************************************)
(* zoo::OrderedLinkedList, a set of items sorted by key between a head and *)
(* a tail sentinel.  The links are TVars; the keys are not, and are set    *)
(* before a node is linked.  A search reads only TVars that it follows.    *)
(***************************************************************************)
EXTENDS SharedObject

OrderedRequest == [op : {"add", "remove", "contains"}, key : Key]

\* INT_MAX, the key of the tail sentinel, is above every key, and there is
\* room for a list of all keys.
ASSUME KeyAssumption ==
  /\ \E k \in Key : \A j \in Key : j <= k
  /\ \E f \in [Key -> Node] : \A i, j \in Key : i # j => f[i] # f[j]
Above == 1 + CHOOSE k \in Key : \A j \in Key : j <= k

\* The constructor, and after it any number of add() calls: a list with the
\* items of s, each in a node of its own; link[n] is what a link to n holds.
NewList(s, link, last) ==
  LET at == CHOOSE f \in [Key -> Node] : \A i, j \in Key : i # j => f[i] # f[j]
      after(k) == LET more == {j \in s : k < j}
                  IN  IF more = {} THEN tail
                      ELSE at[CHOOSE j \in more : \A i \in more : j <= i]
  IN  /\ used = {at[k] : k \in s}
      /\ mem = [x \in {next(at[k]) : k \in s} |->
                 link[after(CHOOSE k \in s : x = next(at[k]))]]
               @@ [x \in {key(at[k]) : k \in s} |-> CHOOSE k \in s : x = key(at[k])]
               @@ next(head) :> link[after(-1)] @@ next(tail) :> last
               @@ key(head) :> -1 @@ key(tail) :> Above

\* locate(): pred = start; curr = pred->next; while (curr->key < key) ...
\* contains() starts at m_head itself, and so reads the same links.
Locate(t) ==
  LET pred == IF AtPc(t, "begin") THEN head ELSE th[t].loc.curr
      curr == Value(t, next(pred))
  IN  \E where \in {"begin", "walk"} :
        Read(t, where, next(pred),
             [th[t] EXCEPT
                !.pc = IF KeyOf(curr) < th[t].call.key THEN "walk" ELSE "located",
                !.loc = [pred |-> pred, curr |-> curr]])

\* curr->key == key: add() is refused, remove() finds its node, contains()
\* has its answer.
Found(t) == KeyOf(th[t].loc.curr) = th[t].call.key

OrderedNoChange(t) ==
  /\ AtPc(t, "located")
  /\ \/ Op(t) = "contains"
     \/ Op(t) = "add" /\ Found(t)
     \/ Op(t) = "remove" /\ ~Found(t)
  /\ Local(t, "located",
       [th[t] EXCEPT !.pc = "commit",
                     !.ret = IF Op(t) = "contains" THEN Bool(Found(t)) ELSE No])

OrderedAdd(t) ==
  LET pred == th[t].loc.pred
      curr == th[t].loc.curr
      n == CHOOSE m \in Node \ used : TRUE
  IN  /\ AtPc(t, "located") /\ Op(t) = "add" /\ ~Found(t)
      /\ ReadNew(t, "located", next(pred), n,
                 next(n) :> curr @@ key(n) :> th[t].call.key,
                 next(pred) :> n, [th[t] EXCEPT !.pc = "commit", !.ret = Yes])

\* pred->next = static_cast<Node *>(curr->next)
OrderedUnlink(t) ==
  LET pred == th[t].loc.pred
      curr == th[t].loc.curr
  IN  /\ AtPc(t, "located") /\ Op(t) = "remove" /\ Found(t)
      /\ ReadWrite(t, "located", next(curr), next(pred) :> Value(t, next(curr)),
                   [th[t] EXCEPT !.pc = "commit", !.ret = Yes])

OrderedStep(t) ==
  \/ Call(t, OrderedRequest)
  \/ Locate(t) \/ OrderedNoChange(t) \/ OrderedAdd(t) \/ OrderedUnlink(t)
  \/ Commit(t)
  \/ Retry(t, FALSE, th[t].node # none)
  \/ Return(t)

=============================================================================
