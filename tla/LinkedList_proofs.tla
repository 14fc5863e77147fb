-------------------------- MODULE LinkedList_proofs --------------------------
(***************************************************************************)
(* The transactional list stays a list and is linearizable, for any number *)
(* of threads, nodes, keys and calls.                                      *)
(*                                                                         *)
(* The invariant speaks of the committed list as a sequence L of k nodes,  *)
(* which m_head and the next fields determine.  A body whose read set is   *)
(* not stale has followed the list as it still is: Reached says how far.   *)
(***************************************************************************)
EXTENDS LinkedList, FunctionTheorems, FiniteSetTheorems, SequenceTheorems,
        WellFoundedInduction, TLAPS

Fields ==
  {"pc", "call", "start", "pred", "curr", "node", "rd", "wr", "stale", "ret"}

PC ==
  {"idle", "head", "item", "next", "found", "absent", "push", "size",
   "oldhead", "unlink", "commit", "return"}

----------------------------------------------------------------------------
(* The inductive invariant.                                                *)

\* m_head and next lead through the different nodes L[1], ..., L[k] and end.
Path(k, L) ==
  /\ k \in Nat
  /\ L \in [1 .. k -> Node]
  /\ \A i, j \in 1 .. k : L[i] = L[j] => i = j
  /\ mem[m_head] = IF k = 0 THEN none ELSE L[1]
  /\ \A i \in 1 .. k : mem[next(L[i])] = IF i = k THEN none ELSE L[i + 1]

Whole(k, L) ==
  /\ Path(k, L)
  /\ \A i \in 1 .. k : L[i] \in heap
  /\ mem[m_sz] = k

\* t has read the links and items of the first i nodes, and none matches.
Passed(t, L, i) ==
  /\ m_head \in th[t].rd
  /\ \A j \in 1 .. i :
       /\ {next(L[j]), item(L[j])} \subseteq th[t].rd
       /\ mem[item(L[j])].key # th[t].call.key

\* t is at the i-th node.
Reached(t, L, i) ==
  /\ Passed(t, L, i - 1)
  /\ th[t].curr = L[i]
  /\ th[t].start = L[1]
  /\ th[t].pred = IF i = 1 THEN none ELSE L[i - 1]

\* t has read the item of the i-th node, and it matches, or it does not.
Found(t, L, i) ==
  /\ Reached(t, L, i)
  /\ item(L[i]) \in th[t].rd
  /\ mem[item(L[i])].key = th[t].call.key

Missed(t, L, i) ==
  /\ Reached(t, L, i)
  /\ item(L[i]) \in th[t].rd
  /\ mem[item(L[i])].key # th[t].call.key

\* The body of a remove() that has found its node has decremented m_sz.
Shrunk(t, k, L, i) ==
  /\ Found(t, L, i)
  /\ m_sz \in th[t].rd
  /\ th[t].wr[m_sz] = k - 1
  /\ th[t].ret = <<"removed", TRUE>>

\* add(), and update() of a key that is not there, has linked its node.
Pushed(t, k, L) ==
  /\ m_head \in th[t].rd
  /\ th[t].wr[m_head] = th[t].node
  /\ th[t].wr[next(th[t].node)] = mem[m_head]
  /\ Op(t) = "update" => Passed(t, L, k)
  /\ th[t].ret = none

\* What a body may be about to commit: nothing, with an answer that is true
\* now; a new first node; a new item; or the removal of a node.
Answers(t, k, L) ==
  /\ th[t].wr = << >>
  /\ th[t].node = none
  /\ \/ /\ Op(t) = "size"
        /\ m_sz \in th[t].rd
        /\ th[t].ret = <<"size", k>>
     \/ /\ Op(t) \in {"get", "remove"}
        /\ Passed(t, L, k)
        /\ th[t].ret = IF Op(t) = "get" THEN <<"item", none>> ELSE <<"removed", FALSE>>
     \/ /\ Op(t) = "get"
        /\ \E i \in 1 .. k : /\ Found(t, L, i)
                             /\ th[t].ret = <<"item", mem[item(L[i])]>>

Prepends(t, k, L) ==
  /\ Op(t) \in {"add", "update"}
  /\ th[t].node \in Node
  /\ Pushed(t, k, L)
  /\ m_sz \in th[t].rd
  /\ DOMAIN th[t].wr = {m_head, m_sz, next(th[t].node)}
  /\ th[t].wr[m_sz] = k + 1

Overwrites(t, k, L) ==
  /\ Op(t) = "update"
  /\ th[t].node = none
  /\ th[t].ret = none
  /\ \E i \in 1 .. k :
       /\ Found(t, L, i)
       /\ DOMAIN th[t].wr = {item(L[i])}
       /\ th[t].wr[item(L[i])] = th[t].call.item

Link(t) == IF th[t].pred = none THEN m_head ELSE next(th[t].pred)

Unlinks(t, k, L) ==
  /\ Op(t) = "remove"
  /\ \E i \in 1 .. k :
       /\ Shrunk(t, k, L, i)
       /\ next(L[i]) \in th[t].rd
       /\ th[t].node = L[i]
       /\ DOMAIN th[t].wr = {m_sz, Link(t)}
       /\ th[t].wr[Link(t)] = mem[next(L[i])]

\* What is true of a body whose read set is not stale.
Fresh(t, k, L) ==
  /\ th[t].pc = "item" => \E i \in 1 .. k : Reached(t, L, i)
  /\ th[t].pc = "next" => \E i \in 1 .. k : Missed(t, L, i)
  /\ th[t].pc = "found" => \E i \in 1 .. k : Found(t, L, i)
  /\ th[t].pc \in {"absent", "push"} => Passed(t, L, k)
  /\ th[t].pc = "size" /\ Op(t) = "remove" =>
       /\ \E i \in 1 .. k : Found(t, L, i)
       /\ th[t].ret = <<"removed", TRUE>>
  /\ th[t].pc = "size" /\ Op(t) \in {"add", "update"} => Pushed(t, k, L)
  /\ th[t].pc \in {"oldhead", "unlink"} => \E i \in 1 .. k : Shrunk(t, k, L, i)
  /\ th[t].pc = "oldhead" => th[t].curr = th[t].start
  /\ th[t].pc = "commit" => \/ Answers(t, k, L) \/ Prepends(t, k, L)
                            \/ Overwrites(t, k, L) \/ Unlinks(t, k, L)

\* What is true of every thread, whatever the others have committed.
Shape(t) ==
  /\ DOMAIN th[t] = Fields
  /\ th[t].pc \in PC
  /\ th[t].pc # "idle" => th[t].call \in Request
  /\ th[t].pc = "idle" => th[t].call = none /\ th[t].node = none
  /\ th[t].pc \in {"head", "item", "next", "found", "absent", "push", "return"} =>
       th[t].wr = << >>
  /\ th[t].pc \in {"item", "next", "found"} => th[t].curr \in Node
  /\ th[t].pc \in {"item", "next", "found", "absent"} =>
       Op(t) \in {"remove", "get", "update"}
  /\ th[t].pc = "head" => Op(t) # "size" /\ th[t].pred = none
  /\ th[t].pc = "push" => Op(t) = "update"
  /\ th[t].pc = "size" =>
       /\ Op(t) \in {"add", "update", "remove", "size"}
       /\ Op(t) \in {"add", "update"} =>
            DOMAIN th[t].wr = {m_head, next(th[t].node)}
       /\ Op(t) \in {"remove", "size"} => th[t].wr = << >>
  /\ th[t].pc \in {"oldhead", "unlink"} =>
       Op(t) = "remove" /\ DOMAIN th[t].wr = {m_sz}
  /\ th[t].pc \notin {"idle", "return"} =>
       /\ Op(t) = "add" => th[t].node \in Node
       /\ Op(t) = "update" /\ th[t].pc \in {"push", "size"} => th[t].node \in Node
       /\ th[t].node # none =>
            Op(t) = "add" \/ th[t].pc \in {"push", "size", "commit"}
       /\ Op(t) = "remove" /\ th[t].pc # "commit" => th[t].node = none
       /\ Op(t) \in {"get", "size"} => th[t].node = none
  /\ th[t].pc \in {"head", "item", "next", "found", "absent", "push"} =>
       th[t].ret = none
  /\ th[t].pc = "return" /\ Op(t) # "remove" => th[t].node = none

\* A node in the hands of a thread is out of the list and nobody else's.
Hands(k, L) ==
  /\ \A t \in Thread : InHand(t) \subseteq heap \ {L[i] : i \in 1 .. k}
  /\ \A t, u \in Thread : t # u => InHand(t) \cap InHand(u) = {}

\* A node that is to be added holds the item of the call.
Carry(t) ==
  th[t].pc \notin {"idle", "return"} /\ Op(t) \in {"add", "update"}
    /\ th[t].node \in Node =>
  mem[item(th[t].node)] = th[t].call.item

Inv(k, L) ==
  /\ TypeOK
  /\ DOMAIN th = Thread
  /\ Whole(k, L)
  /\ Hands(k, L)
  /\ \A t \in Thread : Shape(t) /\ Carry(t)
  /\ \A t \in Thread : ~th[t].stale => Fresh(t, k, L)

IInv == \E k \in Nat : \E L \in [1 .. k -> Node] : Inv(k, L)

----------------------------------------------------------------------------
(* The records and functions of the model.                                 *)

\* What TypeOK says of one thread.
Typed(t) ==
  /\ th[t].call \in Request \cup {none}
  /\ {th[t].start, th[t].pred, th[t].curr, th[t].node} \subseteq Node \cup {none}
  /\ th[t].rd \cup DOMAIN th[t].wr \subseteq TVar
  /\ th[t].stale \in BOOLEAN

\* The fields of a thread's record.
LEMMA IdleFields == DOMAIN Idle = Fields
  BY DEF Idle, Fields

\* Different TVars of the list have different names.
LEMMA TVarsDiffer ==
  /\ m_head # m_sz
  /\ \A n : /\ item(n) # m_head /\ item(n) # m_sz
            /\ next(n) # m_head /\ next(n) # m_sz
  /\ \A m, n : item(m) # next(n)
  /\ \A m, n : item(m) = item(n) => m = n
  /\ \A m, n : next(m) = next(n) => m = n
  BY DEF m_head, m_sz, item, next

\* Names of the TVars are TVars.
LEMMA TVarsNamed ==
  /\ m_head \in TVar /\ m_sz \in TVar
  /\ \A n \in Node : item(n) \in TVar /\ next(n) \in TVar
  BY DEF TVar

\* A step that overrides some fields of t's record leaves the others alone.
LEMMA BecomeFields ==
  ASSUME NEW t \in Thread, NEW new, DOMAIN th = Thread, DOMAIN th[t] = Fields,
         DOMAIN new \subseteq Fields, Become(t, new)
  PROVE  /\ DOMAIN th' = Thread
         /\ DOMAIN th'[t] = Fields
         /\ \A x \in Fields :
              th'[t][x] = IF x \in DOMAIN new THEN new[x] ELSE th[t][x]
         /\ \A u \in Thread : u # t => th'[u] = th[u]
  BY DEF Become, @@

\* The fields that no Log touches.
Plain == Fields \ {"rd", "wr"}

\* A step that reads TVar x, stages w, and sets some other fields.
LEMMA LogFields ==
  ASSUME NEW t \in Thread, NEW f, NEW x, NEW w,
         DOMAIN th = Thread, DOMAIN th[t] = Fields,
         DOMAIN f \subseteq Plain, Become(t, f @@ Log(t, x, w))
  PROVE  /\ DOMAIN th' = Thread
         /\ DOMAIN th'[t] = Fields
         /\ \A y \in Plain : th'[t][y] = IF y \in DOMAIN f THEN f[y] ELSE th[t][y]
         /\ th'[t].rd = th[t].rd \cup {x}
         /\ th'[t].wr = w @@ th[t].wr
         /\ \A u \in Thread : u # t => th'[u] = th[u]
<1> DEFINE new == f @@ Log(t, x, w)
<1>1. /\ DOMAIN Log(t, x, w) = {"rd", "wr"}
      /\ Log(t, x, w).rd = th[t].rd \cup {x}
      /\ Log(t, x, w).wr = w @@ th[t].wr
  BY DEF Log
<1>2. /\ DOMAIN new = DOMAIN f \cup {"rd", "wr"}
      /\ \A y \in DOMAIN f : new[y] = f[y]
      /\ new.rd = th[t].rd \cup {x}
      /\ new.wr = w @@ th[t].wr
  BY <1>1 DEF @@, Plain
<1>3. DOMAIN new \subseteq Fields /\ {"rd", "wr"} \subseteq Fields
  BY <1>2 DEF Plain, Fields
<1> HIDE DEF new
<1>4. Become(t, new)
  BY DEF new
<1>5. /\ DOMAIN th' = Thread
      /\ DOMAIN th'[t] = Fields
      /\ \A y \in Fields :
           th'[t][y] = IF y \in DOMAIN new THEN new[y] ELSE th[t][y]
      /\ \A u \in Thread : u # t => th'[u] = th[u]
  BY <1>3, <1>4, BecomeFields
<1> QED
  BY <1>2, <1>3, <1>5 DEF Plain

\* What a body stages on top of what it has staged.
LEMMA Staged ==
  ASSUME NEW w, NEW x, NEW v
  PROVE  /\ << >> @@ << >> = << >>
         /\ DOMAIN (<< >> @@ w) = DOMAIN w
         /\ \A y \in DOMAIN w : (<< >> @@ w)[y] = w[y]
         /\ DOMAIN (x :> v @@ w) = DOMAIN w \cup {x}
         /\ (x :> v @@ w)[x] = v
         /\ \A y \in DOMAIN w : y # x => (x :> v @@ w)[y] = w[y]
  BY DEF @@, :>

\* A step of t in which no other thread sees a change: what t may do to the
\* memory is initialise a node, and to the heap, take one or give one back.
Own(t) ==
  /\ DOMAIN th' = Thread
  /\ \A u \in Thread : u # t => th'[u] = th[u]
  /\ DOMAIN mem' = TVar
  /\ mem'[m_head] = mem[m_head] /\ mem'[m_sz] = mem[m_sz]
  /\ \A n \in heap : mem'[item(n)] = mem[item(n)] /\ mem'[next(n)] = mem[next(n)]
  /\ heap' \subseteq Node
  /\ heap \subseteq heap' \cup InHand(t)
  /\ \A n \in heap' \ heap : /\ mem'[item(n)] \in Item
                             /\ mem'[next(n)] \in Node \cup {none}
  /\ InHand(t)' \subseteq heap'
  /\ InHand(t)' \subseteq InHand(t) \cup (heap' \ heap)
  /\ calls' \in 0 .. MaxCalls
  /\ undefined' \in BOOLEAN

\* A step that leaves u's record alone, or only tells u that it is stale.
SameBody(u) ==
  /\ th'[u].pc = th[u].pc /\ th'[u].call = th[u].call
  /\ th'[u].start = th[u].start /\ th'[u].pred = th[u].pred
  /\ th'[u].curr = th[u].curr /\ th'[u].node = th[u].node
  /\ th'[u].rd = th[u].rd /\ th'[u].wr = th[u].wr /\ th'[u].ret = th[u].ret

\* What Fresh says of u is only about u and about the TVars of the list that u
\* has read.
LEMMA FreshStays ==
  ASSUME NEW k \in Nat, NEW L \in [1 .. k -> Node], NEW u \in Thread,
         SameBody(u), m_head \in th[u].rd => mem'[m_head] = mem[m_head],
         \A i \in 1 .. k :
           /\ item(L[i]) \in th[u].rd => mem'[item(L[i])] = mem[item(L[i])]
           /\ next(L[i]) \in th[u].rd => mem'[next(L[i])] = mem[next(L[i])],
         Fresh(u, k, L)
  PROVE  Fresh(u, k, L)'
<1> USE DEF SameBody
<1>1. Op(u)' = Op(u) /\ Link(u)' = Link(u)
  BY DEF Op, Link
<1>2. \A i \in 0 .. k : Passed(u, L, i) => Passed(u, L, i)'
  BY DEF Passed
<1>3. \A i \in 1 .. k : Reached(u, L, i) => Reached(u, L, i)'
  BY <1>2 DEF Reached
<1>4. \A i \in 1 .. k : /\ Found(u, L, i) => Found(u, L, i)'
                        /\ Missed(u, L, i) => Missed(u, L, i)'
  BY <1>3 DEF Found, Missed
<1>5. \A i \in 1 .. k : Shrunk(u, k, L, i) => Shrunk(u, k, L, i)'
  BY <1>4 DEF Shrunk
<1>6. Pushed(u, k, L) => Pushed(u, k, L)'
  BY <1>1, <1>2 DEF Pushed
<1>7. Answers(u, k, L) => Answers(u, k, L)'
  <2>1. Passed(u, L, k) => Passed(u, L, k)'
    BY <1>2
  <2>2. \A i \in 1 .. k : Found(u, L, i) => mem'[item(L[i])] = mem[item(L[i])]
    BY DEF Found
  <2> QED
    BY <1>1, <1>4, <2>1, <2>2 DEF Answers
<1>8. Prepends(u, k, L) => Prepends(u, k, L)'
  BY <1>1, <1>6 DEF Prepends
<1>9. Overwrites(u, k, L) => Overwrites(u, k, L)'
  BY <1>1, <1>4 DEF Overwrites
<1>10. Unlinks(u, k, L) => Unlinks(u, k, L)'
  BY <1>1, <1>5 DEF Unlinks
<1>11. /\ th[u].pc = "item" => \E i \in 1 .. k : Reached(u, L, i)'
       /\ th[u].pc = "next" => \E i \in 1 .. k : Missed(u, L, i)'
       /\ th[u].pc = "found" => \E i \in 1 .. k : Found(u, L, i)'
  BY <1>3, <1>4 DEF Fresh
<1>12. th[u].pc \in {"absent", "push"} => Passed(u, L, k)'
  BY <1>2 DEF Fresh
<1>13. th[u].pc = "size" /\ Op(u) = "remove" => \E i \in 1 .. k : Found(u, L, i)'
  BY <1>4 DEF Fresh
<1>14. th[u].pc \in {"oldhead", "unlink"} => \E i \in 1 .. k : Shrunk(u, k, L, i)'
  BY <1>5 DEF Fresh
<1> QED
  BY <1>1, <1>6, <1>7, <1>8, <1>9, <1>10, <1>11, <1>12, <1>13, <1>14 DEF Fresh

\* A step of t's own keeps the invariant, if t's own part of it is kept.
LEMMA OwnKeepsInv ==
  ASSUME NEW k \in Nat, NEW L \in [1 .. k -> Node], NEW t \in Thread,
         Inv(k, L), Own(t),
         Shape(t)', Typed(t)', Carry(t)', ~th'[t].stale => Fresh(t, k, L)'
  PROVE  Inv(k, L)'
<1>1. \A i \in 1 .. k : L[i] \in heap /\ L[i] \notin InHand(t) /\ L[i] \in heap'
  BY DEF Inv, Whole, Hands, Own
<1>2. \A i \in 1 .. k : /\ mem'[item(L[i])] = mem[item(L[i])]
                        /\ mem'[next(L[i])] = mem[next(L[i])]
  BY <1>1 DEF Own
<1>3. Whole(k, L)'
  <2>1. Path(k, L)'
    BY <1>2, SMTT(30) DEF Inv, Whole, Path, Own
  <2> QED
    BY <2>1, <1>1 DEF Inv, Whole, Own
<1>4. \A u \in Thread : u # t => Shape(u)' /\ Typed(u)' /\ InHand(u)' = InHand(u)
  <2> SUFFICES ASSUME NEW u \in Thread, u # t
               PROVE  Shape(u)' /\ Typed(u)' /\ InHand(u)' = InHand(u)
    OBVIOUS
  <2>1. th'[u] = th[u] /\ Op(u)' = Op(u)
    BY DEF Own, Op
  <2>2. Shape(u) /\ Typed(u)
    BY DEF Inv, TypeOK, Typed
  <2> QED
    BY <2>1, <2>2 DEF Shape, Typed, InHand
<1>5. TypeOK'
  <2>1. \A u \in Thread : Shape(u)' /\ Typed(u)'
    BY <1>4
  <2>2. \A u \in Thread : DOMAIN th'[u] = Fields
    BY <2>1 DEF Shape
  <2>3. \A n \in heap' : mem'[item(n)] \in Item /\ mem'[next(n)] \in Node \cup {none}
    BY DEF Inv, TypeOK, Own
  <2> QED
    BY <2>1, <2>2, <2>3, IdleFields DEF Inv, TypeOK, Typed, Own
<1>6. Hands(k, L)'
  <2>1. \A u \in Thread : u # t => InHand(u) \subseteq heap' /\ InHand(u)' = InHand(u)
    BY <1>4 DEF Inv, Hands, Own
  <2> HIDE DEF InHand
  <2>2. \A u \in Thread : InHand(u)' \subseteq heap' \ {L[i] : i \in 1 .. k}
    BY <2>1, <1>1 DEF Inv, Hands, Own
  <2>3. \A u \in Thread : u # t => InHand(u)' \cap InHand(t)' = {}
    BY <2>1 DEF Inv, Hands, Own
  <2> QED
    BY <2>1, <2>2, <2>3 DEF Inv, Hands
<1>7. ASSUME NEW u \in Thread, u # t, ~th'[u].stale PROVE Fresh(u, k, L)'
  <2>1. SameBody(u) /\ ~th[u].stale
    BY <1>7 DEF Own, SameBody
  <2>2. mem'[m_head] = mem[m_head] /\ Fresh(u, k, L)
    BY <2>1 DEF Own, Inv
  <2> QED
    BY <2>1, <2>2, <1>2, FreshStays
<1>8. ASSUME NEW u \in Thread, u # t PROVE Carry(u)'
  <2>1. th'[u] = th[u] /\ Op(u)' = Op(u) /\ Carry(u)
    BY <1>8 DEF Own, Op, Inv
  <2>2. th[u].pc \notin {"idle", "return"} /\ Op(u) \in {"add", "update"}
          /\ th[u].node \in Node =>
        th[u].node \in heap
    BY DEF Inv, Hands, InHand
  <2>3. \A n \in heap : mem'[item(n)] = mem[item(n)]
    BY DEF Own
  <2> QED
    BY <2>1, <2>2, <2>3 DEF Carry
<1> QED
  BY <1>3, <1>4, <1>5, <1>6, <1>7, <1>8 DEF Inv, Own

\* The same for the steps that change nothing but t's record.
LEMMA LocalKeepsInv ==
  ASSUME NEW k \in Nat, NEW L \in [1 .. k -> Node], NEW t \in Thread,
         Inv(k, L), DOMAIN th' = Thread, \A u \in Thread : u # t => th'[u] = th[u],
         UNCHANGED <<mem, heap, calls, undefined>>,
         Shape(t)', Typed(t)', Carry(t)', InHand(t)' \subseteq InHand(t),
         ~th'[t].stale => Fresh(t, k, L)'
  PROVE  Inv(k, L)'
<1> HIDE DEF InHand
<1>1. Own(t)
  BY DEF Own, Inv, TypeOK, Hands
<1> QED
  BY <1>1, OwnKeepsInv

\* What the invariant says of the thread that takes the step.
LEMMA Here ==
  ASSUME NEW k \in Nat, NEW L \in [1 .. k -> Node], NEW t \in Thread, Inv(k, L)
  PROVE  /\ DOMAIN th = Thread /\ DOMAIN th[t] = Fields
         /\ Shape(t) /\ Typed(t) /\ Carry(t)
         /\ ~th[t].stale => Fresh(t, k, L)
         /\ th[t].wr = << >> => \A x : Value(t, x) = mem[x]
  BY DEF Inv, TypeOK, Shape, Typed, Value

\* A step inside a call, which a caller does not see.
Stays(t) ==
  /\ DOMAIN th' = Thread /\ \A u \in Thread : u # t => th'[u] = th[u]
  /\ th[t].pc \notin {"idle", "return"} /\ th'[t].pc \notin {"idle", "return"}
  /\ th'[t].call = th[t].call

----------------------------------------------------------------------------
(* The steps of a search.                                                  *)

\* _locate() starts at m_head: it has passed no node of the list.
LEMMA ReadHeadKeepsInv ==
  ASSUME NEW k \in Nat, NEW L \in [1 .. k -> Node], NEW t \in Thread,
         Inv(k, L), ReadHead(t)
  PROVE  Inv(k, L)' /\ Stays(t)
<1> DEFINE h == mem[m_head]
           f == [pc |-> IF h = none THEN "absent" ELSE "item", start |-> h, curr |-> h]
<1>1. /\ DOMAIN th = Thread /\ DOMAIN th[t] = Fields
      /\ Shape(t) /\ Typed(t) /\ th[t].pc = "head" /\ th[t].wr = << >>
      /\ Op(t) \in {"remove", "get", "update"} /\ th[t].call \in Request
      /\ Value(t, m_head) = h
  BY Here, ListAssumption DEF Shape, ReadHead, Local, AtPc, Op, Request
<1>2. /\ h = IF k = 0 THEN none ELSE L[1]
      /\ h \in Node \cup {none} /\ (k = 0 <=> h = none)
  BY ListAssumption DEF Inv, Whole, Path
<1>3. DOMAIN f = {"pc", "start", "curr"} /\ DOMAIN f \subseteq Plain
  BY DEF Plain, Fields
<1>4. Become(t, f @@ Log(t, m_head, << >>)) /\ UNCHANGED <<mem, heap, calls, undefined>>
  BY <1>1 DEF ReadHead, Local
<1>5. /\ DOMAIN th' = Thread /\ DOMAIN th'[t] = Fields
      /\ \A y \in Plain : th'[t][y] = IF y \in DOMAIN f THEN f[y] ELSE th[t][y]
      /\ th'[t].rd = th[t].rd \cup {m_head}
      /\ th'[t].wr = << >> @@ th[t].wr
      /\ \A u \in Thread : u # t => th'[u] = th[u]
  <2> HIDE DEF f
  <2> QED BY <1>1, <1>3, <1>4, LogFields
<1>6. /\ th'[t].pc = IF h = none THEN "absent" ELSE "item"
      /\ th'[t].start = h /\ th'[t].curr = h /\ th'[t].wr = << >>
      /\ th'[t].call = th[t].call /\ th'[t].pred = th[t].pred
      /\ th'[t].node = th[t].node /\ th'[t].stale = th[t].stale
      /\ th'[t].ret = th[t].ret
      /\ Op(t)' = Op(t)
  BY <1>1, <1>5, Staged DEF Plain, Fields, Op
<1> HIDE DEF f
<1>7. Shape(t)'
  BY <1>1, <1>5, <1>6, <1>2 DEF Shape, PC
<1>8. Typed(t)'
  BY <1>1, <1>5, <1>6, <1>2, TVarsNamed DEF Typed
<1>9. InHand(t)' \subseteq InHand(t)
  BY <1>1, <1>6 DEF InHand
<1>10. Fresh(t, k, L)'
  <2>1. CASE k = 0
    <3>1. Passed(t, L, k)'
      BY <2>1, <1>5 DEF Passed
    <3> QED
      BY <2>1, <1>2, <1>6, <3>1 DEF Fresh
  <2>2. CASE k # 0
    <3>1. Reached(t, L, 1)' /\ 1 \in 1 .. k
      BY <2>2, <1>1, <1>2, <1>5, <1>6 DEF Reached, Passed, Shape
    <3> QED
      BY <2>2, <1>2, <1>6, <3>1 DEF Fresh
  <2> QED BY <2>1, <2>2
<1>12. Carry(t)'
  BY <1>1, <1>4, <1>6, Here DEF Carry
<1>13. Stays(t)
  BY <1>1, <1>5, <1>6 DEF Stays
<1> QED
  BY <1>4, <1>5, <1>7, <1>8, <1>9, <1>10, <1>12, <1>13,
     LocalKeepsInv

\* A read set that grows still covers the part of the list it covered.
LEMMA ReadsOn ==
  ASSUME NEW k \in Nat, NEW L \in [1 .. k -> Node], NEW t \in Thread,
         UNCHANGED mem, th[t].rd \subseteq th'[t].rd, th'[t].call = th[t].call
  PROVE  /\ \A i \in 0 .. k : Passed(t, L, i) => Passed(t, L, i)'
         /\ Passed(t, L, k) => Passed(t, L, k)'
         /\ (/\ th'[t].curr = th[t].curr
             /\ th'[t].start = th[t].start
             /\ th'[t].pred = th[t].pred) =>
            \A i \in 1 .. k : /\ Reached(t, L, i) => Reached(t, L, i)'
                              /\ Found(t, L, i) => Found(t, L, i)'
                              /\ Missed(t, L, i) => Missed(t, L, i)'
<1>1. \A i \in 0 .. k : Passed(t, L, i) => Passed(t, L, i)'
  BY DEF Passed
<1>2. Passed(t, L, k) => Passed(t, L, k)'
  BY <1>1
<1>3. ASSUME th'[t].curr = th[t].curr, th'[t].start = th[t].start,
             th'[t].pred = th[t].pred, NEW i \in 1 .. k, Reached(t, L, i)
      PROVE  Reached(t, L, i)'
  BY <1>1, <1>3 DEF Reached
<1> QED
  BY <1>1, <1>2, <1>3 DEF Found, Missed

\* _locate() compares a node: a match that is not stale is the first one.
LEMMA ReadItemKeepsInv ==
  ASSUME NEW k \in Nat, NEW L \in [1 .. k -> Node], NEW t \in Thread,
         Inv(k, L), ReadItem(t)
  PROVE  Inv(k, L)' /\ Stays(t)
<1> DEFINE x == item(th[t].curr)
           f == [pc |-> IF mem[x].key = th[t].call.key THEN "found" ELSE "next"]
<1>1. /\ DOMAIN th = Thread /\ DOMAIN th[t] = Fields
      /\ Shape(t) /\ Typed(t) /\ th[t].pc = "item" /\ th[t].wr = << >>
      /\ Op(t) \in {"remove", "get", "update"} /\ th[t].call \in Request
      /\ th[t].curr \in Node /\ Value(t, x) = mem[x]
      /\ ~th[t].stale => Fresh(t, k, L)
  BY Here DEF Shape, ReadItem, Local, AtPc
<1>2. DOMAIN f = {"pc"} /\ DOMAIN f \subseteq Plain
  BY DEF Plain, Fields
<1>3. Become(t, f @@ Log(t, x, << >>)) /\ UNCHANGED <<mem, heap, calls, undefined>>
  BY <1>1 DEF ReadItem, Local
<1>4. /\ DOMAIN th' = Thread /\ DOMAIN th'[t] = Fields
      /\ \A y \in Plain : th'[t][y] = IF y \in DOMAIN f THEN f[y] ELSE th[t][y]
      /\ th'[t].rd = th[t].rd \cup {x}
      /\ th'[t].wr = << >> @@ th[t].wr
      /\ \A u \in Thread : u # t => th'[u] = th[u]
  <2> HIDE DEF f, x
  <2> QED BY <1>1, <1>2, <1>3, LogFields
<1>5. /\ th'[t].pc = IF mem[x].key = th[t].call.key THEN "found" ELSE "next"
      /\ th'[t].start = th[t].start /\ th'[t].curr = th[t].curr /\ th'[t].wr = << >>
      /\ th'[t].call = th[t].call /\ th'[t].pred = th[t].pred
      /\ th'[t].node = th[t].node /\ th'[t].stale = th[t].stale
      /\ th'[t].ret = th[t].ret
      /\ Op(t)' = Op(t)
  BY <1>1, <1>4, Staged DEF Plain, Fields, Op
<1>6. Shape(t)'
  BY <1>1, <1>4, <1>5 DEF Shape, PC
<1>7. Typed(t)'
  BY <1>1, <1>4, <1>5, TVarsNamed DEF Typed
<1>8. InHand(t)' \subseteq InHand(t)
  BY <1>1, <1>5 DEF InHand
<1>9. ASSUME ~th[t].stale PROVE Fresh(t, k, L)'
  <2>1. PICK i \in 1 .. k : Reached(t, L, i)
    BY <1>1, <1>9 DEF Fresh
  <2>2. Reached(t, L, i)' /\ x = item(L[i])
    BY <2>1, <1>3, <1>4, <1>5, ReadsOn DEF Reached
  <2>3. IF th'[t].pc = "found" THEN Found(t, L, i)' ELSE Missed(t, L, i)'
    BY <2>2, <1>3, <1>4, <1>5 DEF Found, Missed
  <2> QED
    BY <2>3, <1>5 DEF Fresh
<1>12. Carry(t)'
  BY <1>1, <1>3, <1>5, Here DEF Carry
<1>13. Stays(t)
  BY <1>1, <1>4, <1>5 DEF Stays
<1> QED
  BY <1>3, <1>4, <1>5, <1>6, <1>7, <1>8, <1>9, <1>12, <1>13,
     LocalKeepsInv

\* _locate() moves on: the next node of a fresh search is the next of the list.
LEMMA ReadNextKeepsInv ==
  ASSUME NEW k \in Nat, NEW L \in [1 .. k -> Node], NEW t \in Thread,
         Inv(k, L), ReadNext(t)
  PROVE  Inv(k, L)' /\ Stays(t)
<1> DEFINE x == next(th[t].curr)
           f == [pc |-> IF mem[x] = none THEN "absent" ELSE "item",
                 pred |-> th[t].curr, curr |-> mem[x]]
<1>1. /\ DOMAIN th = Thread /\ DOMAIN th[t] = Fields
      /\ Shape(t) /\ Typed(t) /\ th[t].pc = "next" /\ th[t].wr = << >>
      /\ Op(t) \in {"remove", "get", "update"} /\ th[t].call \in Request
      /\ th[t].curr \in Node /\ Value(t, x) = mem[x]
      /\ ~th[t].stale => Fresh(t, k, L)
  BY Here DEF Shape, ReadNext, Local, AtPc
<1>2. DOMAIN f = {"pc", "pred", "curr"} /\ DOMAIN f \subseteq Plain
  BY DEF Plain, Fields
<1>3. Become(t, f @@ Log(t, x, << >>)) /\ UNCHANGED <<mem, heap, calls, undefined>>
  BY <1>1 DEF ReadNext, Local
<1>4. /\ DOMAIN th' = Thread /\ DOMAIN th'[t] = Fields
      /\ \A y \in Plain : th'[t][y] = IF y \in DOMAIN f THEN f[y] ELSE th[t][y]
      /\ th'[t].rd = th[t].rd \cup {x}
      /\ th'[t].wr = << >> @@ th[t].wr
      /\ \A u \in Thread : u # t => th'[u] = th[u]
  <2> HIDE DEF f, x
  <2> QED BY <1>1, <1>2, <1>3, LogFields
<1>5. /\ th'[t].pc = IF mem[x] = none THEN "absent" ELSE "item"
      /\ th'[t].start = th[t].start /\ th'[t].curr = mem[x] /\ th'[t].wr = << >>
      /\ th'[t].call = th[t].call /\ th'[t].pred = th[t].curr
      /\ th'[t].node = th[t].node /\ th'[t].stale = th[t].stale
      /\ th'[t].ret = th[t].ret
      /\ Op(t)' = Op(t)
  BY <1>1, <1>4, Staged DEF Plain, Fields, Op
<1>6. mem[x] \in Node \cup {none}
  BY DEF Inv, TypeOK, ReadNext
<1>7. Shape(t)'
  BY <1>1, <1>4, <1>5, <1>6 DEF Shape, PC
<1>8. Typed(t)'
  BY <1>1, <1>4, <1>5, <1>6, TVarsNamed DEF Typed
<1>9. InHand(t)' \subseteq InHand(t)
  BY <1>1, <1>5 DEF InHand
<1>10. ASSUME ~th[t].stale PROVE Fresh(t, k, L)'
  <2>1. PICK i \in 1 .. k : Missed(t, L, i)
    BY <1>1, <1>10 DEF Fresh
  <2>2. x = next(L[i]) /\ mem[x] = IF i = k THEN none ELSE L[i + 1]
    BY <2>1 DEF Missed, Reached, Inv, Whole, Path
  <2>3. Passed(t, L, i)'
    <3>1. Passed(t, L, i - 1) /\ item(L[i]) \in th[t].rd
          /\ mem[item(L[i])].key # th[t].call.key
      BY <2>1 DEF Missed, Reached
    <3> QED
      BY <3>1, <2>2, <1>3, <1>4, <1>5 DEF Passed
  <2>4. CASE i = k
    BY <2>2, <2>3, <2>4, <1>5 DEF Fresh
  <2>5. CASE i # k
    <3>1. i + 1 \in 1 .. k /\ (i + 1) - 1 = i /\ L[i + 1] # none
      BY <2>5, ListAssumption
    <3>2. Reached(t, L, i + 1)'
      BY <2>1, <2>2, <2>3, <2>5, <1>5, <3>1 DEF Reached, Missed
    <3> QED
      BY <3>1, <3>2, <2>2, <2>5, <1>5 DEF Fresh
  <2> QED BY <2>4, <2>5
<1>12. Carry(t)'
  BY <1>1, <1>3, <1>5, Here DEF Carry
<1>13. Stays(t)
  BY <1>1, <1>4, <1>5 DEF Stays
<1> QED
  BY <1>3, <1>4, <1>5, <1>7, <1>8, <1>9, <1>10, <1>12, <1>13,
     LocalKeepsInv

\* get() and contains() answer with the item they found.
LEMMA GetFoundKeepsInv ==
  ASSUME NEW k \in Nat, NEW L \in [1 .. k -> Node], NEW t \in Thread,
         Inv(k, L), GetFound(t)
  PROVE  Inv(k, L)' /\ Stays(t)
<1> DEFINE x == item(th[t].curr)
           f == [pc |-> "commit", ret |-> <<"item", mem[x]>>]
<1>1. /\ DOMAIN th = Thread /\ DOMAIN th[t] = Fields
      /\ Shape(t) /\ Typed(t) /\ th[t].pc = "found" /\ th[t].wr = << >>
      /\ Op(t) = "get" /\ th[t].call \in Request
      /\ th[t].curr \in Node /\ Value(t, x) = mem[x] /\ th[t].node = none
      /\ ~th[t].stale => Fresh(t, k, L)
  BY Here DEF Shape, GetFound, Local, AtPc
<1>2. DOMAIN f = {"pc", "ret"} /\ DOMAIN f \subseteq Plain
  BY DEF Plain, Fields
<1>3. Become(t, f @@ Log(t, x, << >>)) /\ UNCHANGED <<mem, heap, calls, undefined>>
  BY <1>1 DEF GetFound, Local
<1>4. /\ DOMAIN th' = Thread /\ DOMAIN th'[t] = Fields
      /\ \A y \in Plain : th'[t][y] = IF y \in DOMAIN f THEN f[y] ELSE th[t][y]
      /\ th'[t].rd = th[t].rd \cup {x}
      /\ th'[t].wr = << >> @@ th[t].wr
      /\ \A u \in Thread : u # t => th'[u] = th[u]
  <2> HIDE DEF f, x
  <2> QED BY <1>1, <1>2, <1>3, LogFields
<1>5. /\ th'[t].pc = "commit"
      /\ th'[t].start = th[t].start /\ th'[t].curr = th[t].curr /\ th'[t].wr = << >>
      /\ th'[t].call = th[t].call /\ th'[t].pred = th[t].pred
      /\ th'[t].node = th[t].node /\ th'[t].stale = th[t].stale
      /\ th'[t].ret = <<"item", mem[x]>>
      /\ Op(t)' = Op(t)
  BY <1>1, <1>4, Staged DEF Plain, Fields, Op
<1>6. Shape(t)'
  BY <1>1, <1>4, <1>5 DEF Shape, PC
<1>7. Typed(t)'
  BY <1>1, <1>4, <1>5, TVarsNamed DEF Typed
<1>8. InHand(t)' \subseteq InHand(t)
  BY <1>1, <1>5 DEF InHand
<1>9. ASSUME ~th[t].stale PROVE Fresh(t, k, L)'
  <2>1. PICK i \in 1 .. k : Found(t, L, i)
    BY <1>1, <1>9 DEF Fresh
  <2>2. Found(t, L, i)' /\ x = item(L[i])
    BY <2>1, <1>3, <1>4, <1>5, ReadsOn DEF Found, Reached
  <2>3. Answers(t, k, L)'
    BY <2>2, <1>1, <1>3, <1>5 DEF Answers
  <2> QED
    BY <2>3, <1>5 DEF Fresh
<1>12. Carry(t)'
  BY <1>1, <1>3, <1>5, Here DEF Carry
<1>13. Stays(t)
  BY <1>1, <1>4, <1>5 DEF Stays
<1> QED
  BY <1>3, <1>4, <1>5, <1>6, <1>7, <1>8, <1>9, <1>12, <1>13,
     LocalKeepsInv

\* update() stages the new item in the node it found.
LEMMA UpdateFoundKeepsInv ==
  ASSUME NEW k \in Nat, NEW L \in [1 .. k -> Node], NEW t \in Thread,
         Inv(k, L), UpdateFound(t)
  PROVE  Inv(k, L)' /\ Stays(t)
<1> DEFINE w == item(th[t].curr) :> th[t].call.item @@ th[t].wr
           f == [pc |-> "commit", wr |-> w]
<1>1. /\ DOMAIN th = Thread /\ DOMAIN th[t] = Fields
      /\ Shape(t) /\ Typed(t) /\ th[t].pc = "found" /\ th[t].wr = << >>
      /\ Op(t) = "update" /\ th[t].call \in Request
      /\ th[t].curr \in Node /\ th[t].node = none /\ th[t].ret = none
      /\ ~th[t].stale => Fresh(t, k, L)
  BY Here DEF Shape, UpdateFound, Local, AtPc
<1>2. DOMAIN f = {"pc", "wr"} /\ DOMAIN f \subseteq Fields
  BY DEF Fields
<1>3. Become(t, f) /\ UNCHANGED <<mem, heap, calls, undefined>>
  BY DEF UpdateFound, Local
<1>4. /\ DOMAIN th' = Thread /\ DOMAIN th'[t] = Fields
      /\ \A y \in Fields : th'[t][y] = IF y \in DOMAIN f THEN f[y] ELSE th[t][y]
      /\ \A u \in Thread : u # t => th'[u] = th[u]
  <2> HIDE DEF f
  <2> QED BY <1>1, <1>2, <1>3, BecomeFields
<1>5. /\ th'[t].pc = "commit" /\ th'[t].wr = w
      /\ th'[t].start = th[t].start /\ th'[t].curr = th[t].curr
      /\ th'[t].call = th[t].call /\ th'[t].pred = th[t].pred
      /\ th'[t].node = th[t].node /\ th'[t].stale = th[t].stale
      /\ th'[t].ret = th[t].ret /\ th'[t].rd = th[t].rd
      /\ Op(t)' = Op(t)
  BY <1>2, <1>4 DEF Fields, Op
<1>6. /\ DOMAIN th'[t].wr = {item(th[t].curr)}
      /\ th'[t].wr[item(th[t].curr)] = th[t].call.item
  <2>1. DOMAIN w = DOMAIN th[t].wr \cup {item(th[t].curr)}
        /\ w[item(th[t].curr)] = th[t].call.item
    BY DEF @@, :>
  <2> HIDE DEF w
  <2> QED BY <2>1, <1>1, <1>5
<1> HIDE DEF w
<1>7. Shape(t)'
  BY <1>1, <1>4, <1>5 DEF Shape, PC
<1>8. Typed(t)'
  BY <1>1, <1>5, <1>6, TVarsNamed DEF Typed
<1>9. InHand(t)' \subseteq InHand(t)
  BY <1>1, <1>5 DEF InHand
<1>10. ASSUME ~th[t].stale PROVE Fresh(t, k, L)'
  <2>1. PICK i \in 1 .. k : Found(t, L, i)
    BY <1>1, <1>10 DEF Fresh
  <2>2. Found(t, L, i)' /\ item(th[t].curr) = item(L[i])
    BY <2>1, <1>3, <1>5, ReadsOn DEF Found, Reached
  <2>3. Overwrites(t, k, L)'
    BY <2>2, <1>1, <1>5, <1>6 DEF Overwrites
  <2> QED
    BY <2>3, <1>5 DEF Fresh
<1>12. Carry(t)'
  BY <1>1, <1>3, <1>5, Here DEF Carry
<1>13. Stays(t)
  BY <1>1, <1>4, <1>5 DEF Stays
<1> QED
  BY <1>3, <1>4, <1>5, <1>7, <1>8, <1>9, <1>10, <1>12, <1>13,
     LocalKeepsInv

\* remove() has found its node and goes on to m_sz.
LEMMA RemoveFoundKeepsInv ==
  ASSUME NEW k \in Nat, NEW L \in [1 .. k -> Node], NEW t \in Thread,
         Inv(k, L), RemoveFound(t)
  PROVE  Inv(k, L)' /\ Stays(t)
<1> DEFINE f == [pc |-> "size", ret |-> <<"removed", TRUE>>]
<1>1. /\ DOMAIN th = Thread /\ DOMAIN th[t] = Fields
      /\ Shape(t) /\ Typed(t) /\ th[t].pc = "found"
      /\ th[t].wr = << >> /\ th[t].node = none
      /\ Op(t) = "remove" /\ th[t].call \in Request
      /\ ~th[t].stale => Fresh(t, k, L)
  BY Here DEF Shape, RemoveFound, Local, AtPc
<1>2. DOMAIN f = {"pc", "ret"} /\ DOMAIN f \subseteq Fields
  BY DEF Fields
<1>3. Become(t, f) /\ UNCHANGED <<mem, heap, calls, undefined>>
  BY <1>1 DEF RemoveFound, Local
<1>4. /\ DOMAIN th' = Thread /\ DOMAIN th'[t] = Fields
      /\ \A y \in Fields : th'[t][y] = IF y \in DOMAIN f THEN f[y] ELSE th[t][y]
      /\ \A u \in Thread : u # t => th'[u] = th[u]
  <2> HIDE DEF f
  <2> QED BY <1>1, <1>2, <1>3, BecomeFields
<1>5. /\ th'[t].pc = "size" /\ th'[t].call = th[t].call
      /\ th'[t].start = th[t].start /\ th'[t].pred = th[t].pred
      /\ th'[t].curr = th[t].curr /\ th'[t].node = th[t].node
      /\ th'[t].stale = th[t].stale /\ th'[t].ret = <<"removed", TRUE>>
      /\ th'[t].rd = th[t].rd /\ th'[t].wr = th[t].wr /\ Op(t)' = Op(t)
  BY <1>2, <1>4 DEF Plain, Fields, Op
<1> HIDE DEF f
<1>7. Shape(t)'
  BY <1>1, <1>4, <1>5 DEF Shape, PC
<1>8. Typed(t)'
  BY <1>1, <1>4, <1>5, TVarsNamed DEF Typed
<1>9. InHand(t)' \subseteq InHand(t)
  BY <1>1, <1>5 DEF InHand
<1>10. ASSUME ~th[t].stale PROVE Fresh(t, k, L)'
  <2>1. PICK i \in 1 .. k : Found(t, L, i)
    BY <1>1, <1>10 DEF Fresh
  <2>2. Found(t, L, i)'
    BY <2>1, <1>3, <1>5, ReadsOn
  <2> QED
    BY <2>2, <1>1, <1>5 DEF Fresh
<1>12. Carry(t)'
  BY <1>1, <1>3, <1>5, Here DEF Carry
<1>13. Stays(t)
  BY <1>1, <1>4, <1>5 DEF Stays
<1> QED
  BY <1>3, <1>4, <1>5, <1>7, <1>8, <1>9, <1>10, <1>12, <1>13,
     LocalKeepsInv

\* A search that came to the end of the list answers so.
LEMMA AbsentKeepsInv ==
  ASSUME NEW k \in Nat, NEW L \in [1 .. k -> Node], NEW t \in Thread,
         Inv(k, L), Absent(t)
  PROVE  Inv(k, L)' /\ Stays(t)
<1> DEFINE a == IF Op(t) = "get" THEN <<"item", none>> ELSE <<"removed", FALSE>>
           f == [pc |-> "commit", ret |-> a]
<1>1. /\ DOMAIN th = Thread /\ DOMAIN th[t] = Fields
      /\ Shape(t) /\ Typed(t) /\ th[t].pc = "absent"
      /\ th[t].wr = << >> /\ th[t].node = none
      /\ Op(t) \in {"remove", "get"} /\ th[t].call \in Request
      /\ ~th[t].stale => Fresh(t, k, L)
  BY Here DEF Shape, Absent, Local, AtPc
<1>2. DOMAIN f = {"pc", "ret"} /\ DOMAIN f \subseteq Fields
  BY DEF Fields
<1>3. Become(t, f) /\ UNCHANGED <<mem, heap, calls, undefined>>
  BY <1>1 DEF Absent, Local
<1>4. /\ DOMAIN th' = Thread /\ DOMAIN th'[t] = Fields
      /\ \A y \in Fields : th'[t][y] = IF y \in DOMAIN f THEN f[y] ELSE th[t][y]
      /\ \A u \in Thread : u # t => th'[u] = th[u]
  <2> HIDE DEF f
  <2> QED BY <1>1, <1>2, <1>3, BecomeFields
<1>5. /\ th'[t].pc = "commit" /\ th'[t].call = th[t].call
      /\ th'[t].start = th[t].start /\ th'[t].pred = th[t].pred
      /\ th'[t].curr = th[t].curr /\ th'[t].node = th[t].node
      /\ th'[t].stale = th[t].stale /\ th'[t].ret = a /\ th'[t].rd = th[t].rd
      /\ th'[t].wr = th[t].wr /\ Op(t)' = Op(t)
  BY <1>2, <1>4 DEF Plain, Fields, Op
<1> HIDE DEF f
<1>7. Shape(t)'
  BY <1>1, <1>4, <1>5 DEF Shape, PC
<1>8. Typed(t)'
  BY <1>1, <1>4, <1>5, TVarsNamed DEF Typed
<1>9. InHand(t)' \subseteq InHand(t)
  BY <1>1, <1>5 DEF InHand
<1>10. ASSUME ~th[t].stale PROVE Fresh(t, k, L)'
  <2>1. Passed(t, L, k)'
    BY <1>1, <1>3, <1>5, <1>10, ReadsOn DEF Fresh
  <2>2. Answers(t, k, L)'
    BY <2>1, <1>1, <1>5 DEF Answers
  <2> QED
    BY <2>2, <1>5 DEF Fresh
<1>12. Carry(t)'
  BY <1>1, <1>3, <1>5, Here DEF Carry
<1>13. Stays(t)
  BY <1>1, <1>4, <1>5 DEF Stays
<1> QED
  BY <1>3, <1>4, <1>5, <1>7, <1>8, <1>9, <1>10, <1>12, <1>13,
     LocalKeepsInv

\* size() reads m_sz.
LEMMA SizeOfKeepsInv ==
  ASSUME NEW k \in Nat, NEW L \in [1 .. k -> Node], NEW t \in Thread,
         Inv(k, L), SizeOf(t)
  PROVE  Inv(k, L)' /\ Stays(t)
<1> DEFINE f == [pc |-> "commit", ret |-> <<"size", mem[m_sz]>>]
<1>1. /\ DOMAIN th = Thread /\ DOMAIN th[t] = Fields
      /\ Shape(t) /\ Typed(t) /\ th[t].pc = "size"
      /\ th[t].wr = << >> /\ th[t].node = none
      /\ Op(t) = "size" /\ th[t].call \in Request
      /\ Value(t, m_sz) = mem[m_sz]
      /\ ~th[t].stale => Fresh(t, k, L)
  BY Here DEF Shape, SizeOf, Local, AtPc
<1>2. DOMAIN f = {"pc", "ret"} /\ DOMAIN f \subseteq Plain
  BY DEF Plain, Fields
<1>3. Become(t, f @@ Log(t, m_sz, << >>)) /\ UNCHANGED <<mem, heap, calls, undefined>>
  BY <1>1 DEF SizeOf, Local
<1>4. /\ DOMAIN th' = Thread /\ DOMAIN th'[t] = Fields
      /\ \A y \in Plain : th'[t][y] = IF y \in DOMAIN f THEN f[y] ELSE th[t][y]
      /\ th'[t].rd = th[t].rd \cup {m_sz}
      /\ th'[t].wr = << >> @@ th[t].wr
      /\ \A u \in Thread : u # t => th'[u] = th[u]
  <2> HIDE DEF f
  <2> QED BY <1>1, <1>2, <1>3, LogFields
<1>5. /\ th'[t].pc = "commit" /\ th'[t].call = th[t].call
      /\ th'[t].start = th[t].start /\ th'[t].pred = th[t].pred
      /\ th'[t].curr = th[t].curr /\ th'[t].node = th[t].node
      /\ th'[t].stale = th[t].stale /\ th'[t].ret = <<"size", mem[m_sz]>>
      /\ Op(t)' = Op(t)
  BY <1>2, <1>4 DEF Plain, Fields, Op
<1> HIDE DEF f
<1>6. th'[t].wr = << >>
  BY <1>1, <1>4, Staged
<1>7. Shape(t)'
  BY <1>1, <1>4, <1>5, <1>6 DEF Shape, PC
<1>8. Typed(t)'
  BY <1>1, <1>4, <1>5, <1>6, TVarsNamed DEF Typed
<1>9. InHand(t)' \subseteq InHand(t)
  BY <1>1, <1>5 DEF InHand
<1>10. ASSUME ~th[t].stale PROVE Fresh(t, k, L)'
  <2>1. mem[m_sz] = k /\ m_sz \in th'[t].rd
    BY <1>4 DEF Inv, Whole
  <2>2. Answers(t, k, L)'
    BY <2>1, <1>1, <1>5, <1>6 DEF Answers
  <2> QED
    BY <2>2, <1>5 DEF Fresh
<1>12. Carry(t)'
  BY <1>1, <1>3, <1>5, Here DEF Carry
<1>13. Stays(t)
  BY <1>1, <1>4, <1>5 DEF Stays
<1> QED
  BY <1>3, <1>4, <1>5, <1>7, <1>8, <1>9, <1>10, <1>12, <1>13,
     LocalKeepsInv

----------------------------------------------------------------------------
(* The steps that change m_head, a next field, or m_sz.                    *)

\* add() reads m_head and puts its node in front.
LEMMA PushKeepsInv ==
  ASSUME NEW k \in Nat, NEW L \in [1 .. k -> Node], NEW t \in Thread,
         Inv(k, L), Push(t)
  PROVE  Inv(k, L)' /\ Stays(t)
<1> DEFINE w == next(th[t].node) :> mem[m_head] @@ m_head :> th[t].node
           f == [pc |-> "size"]
<1>1. /\ DOMAIN th = Thread /\ DOMAIN th[t] = Fields
      /\ Shape(t) /\ Typed(t) /\ th[t].pc = "head"
      /\ Op(t) = "add" /\ th[t].call \in Request
      /\ th[t].node \in Node /\ th[t].wr = << >> /\ Value(t, m_head) = mem[m_head]
      /\ th[t].ret = none
      /\ ~th[t].stale => Fresh(t, k, L)
  BY Here DEF Shape, Push, Local, AtPc
<1>2. DOMAIN f = {"pc"} /\ DOMAIN f \subseteq Plain
  BY DEF Plain, Fields
<1>3. Become(t, f @@ Log(t, m_head, w)) /\ UNCHANGED <<mem, heap, calls, undefined>>
  BY <1>1 DEF Push, Local, PushFront
<1>4. /\ DOMAIN th' = Thread /\ DOMAIN th'[t] = Fields
      /\ \A y \in Plain : th'[t][y] = IF y \in DOMAIN f THEN f[y] ELSE th[t][y]
      /\ th'[t].rd = th[t].rd \cup {m_head}
      /\ th'[t].wr = (w) @@ th[t].wr
      /\ \A u \in Thread : u # t => th'[u] = th[u]
  <2> HIDE DEF f
  <2> QED BY <1>1, <1>2, <1>3, LogFields
<1>5. /\ th'[t].pc = "size" /\ th'[t].call = th[t].call
      /\ th'[t].start = th[t].start /\ th'[t].pred = th[t].pred
      /\ th'[t].curr = th[t].curr /\ th'[t].node = th[t].node
      /\ th'[t].stale = th[t].stale /\ th'[t].ret = th[t].ret /\ Op(t)' = Op(t)
  BY <1>2, <1>4 DEF Plain, Fields, Op
<1> HIDE DEF f
<1>6. /\ DOMAIN th'[t].wr = {m_head, next(th[t].node)}
      /\ th'[t].wr[m_head] = th[t].node
      /\ th'[t].wr[next(th[t].node)] = mem[m_head]
  BY <1>1, <1>4, TVarsDiffer DEF @@, :>
<1>7. Shape(t)'
  BY <1>1, <1>4, <1>5, <1>6 DEF Shape, PC
<1>8. Typed(t)'
  BY <1>1, <1>4, <1>5, <1>6, TVarsNamed DEF Typed
<1>9. InHand(t)' \subseteq InHand(t)
  BY <1>1, <1>5 DEF InHand
<1>10. ASSUME ~th[t].stale PROVE Fresh(t, k, L)'
  <2>1. Pushed(t, k, L)'
    BY <1>1, <1>3, <1>4, <1>5, <1>6 DEF Pushed
  <2> QED
    BY <2>1, <1>1, <1>5 DEF Fresh
<1>12. Carry(t)'
  BY <1>1, <1>3, <1>5, Here DEF Carry
<1>13. Stays(t)
  BY <1>1, <1>4, <1>5 DEF Stays
<1> QED
  BY <1>3, <1>4, <1>5, <1>7, <1>8, <1>9, <1>10, <1>12, <1>13,
     LocalKeepsInv

\* The add() inside update() puts its node in front.
LEMMA NestedPushKeepsInv ==
  ASSUME NEW k \in Nat, NEW L \in [1 .. k -> Node], NEW t \in Thread,
         Inv(k, L), NestedPush(t)
  PROVE  Inv(k, L)' /\ Stays(t)
<1> DEFINE w == next(th[t].node) :> mem[m_head] @@ m_head :> th[t].node
           f == [pc |-> "size"]
<1>1. /\ DOMAIN th = Thread /\ DOMAIN th[t] = Fields
      /\ Shape(t) /\ Typed(t) /\ th[t].pc = "push"
      /\ Op(t) = "update" /\ th[t].call \in Request
      /\ th[t].node \in Node /\ th[t].wr = << >> /\ Value(t, m_head) = mem[m_head]
      /\ th[t].ret = none
      /\ ~th[t].stale => Fresh(t, k, L)
  BY Here DEF Shape, NestedPush, Local, AtPc
<1>2. DOMAIN f = {"pc"} /\ DOMAIN f \subseteq Plain
  BY DEF Plain, Fields
<1>3. Become(t, f @@ Log(t, m_head, w)) /\ UNCHANGED <<mem, heap, calls, undefined>>
  BY <1>1 DEF NestedPush, Local, PushFront
<1>4. /\ DOMAIN th' = Thread /\ DOMAIN th'[t] = Fields
      /\ \A y \in Plain : th'[t][y] = IF y \in DOMAIN f THEN f[y] ELSE th[t][y]
      /\ th'[t].rd = th[t].rd \cup {m_head}
      /\ th'[t].wr = (w) @@ th[t].wr
      /\ \A u \in Thread : u # t => th'[u] = th[u]
  <2> HIDE DEF f
  <2> QED BY <1>1, <1>2, <1>3, LogFields
<1>5. /\ th'[t].pc = "size" /\ th'[t].call = th[t].call
      /\ th'[t].start = th[t].start /\ th'[t].pred = th[t].pred
      /\ th'[t].curr = th[t].curr /\ th'[t].node = th[t].node
      /\ th'[t].stale = th[t].stale /\ th'[t].ret = th[t].ret /\ Op(t)' = Op(t)
  BY <1>2, <1>4 DEF Plain, Fields, Op
<1> HIDE DEF f
<1>6. /\ DOMAIN th'[t].wr = {m_head, next(th[t].node)}
      /\ th'[t].wr[m_head] = th[t].node
      /\ th'[t].wr[next(th[t].node)] = mem[m_head]
  BY <1>1, <1>4, TVarsDiffer DEF @@, :>
<1>7. Shape(t)'
  BY <1>1, <1>4, <1>5, <1>6 DEF Shape, PC
<1>8. Typed(t)'
  BY <1>1, <1>4, <1>5, <1>6, TVarsNamed DEF Typed
<1>9. InHand(t)' \subseteq InHand(t)
  BY <1>1, <1>5 DEF InHand
<1>10. ASSUME ~th[t].stale PROVE Fresh(t, k, L)'
  <2>1. Passed(t, L, k)'
    BY <1>1, <1>3, <1>4, <1>5, <1>10, ReadsOn DEF Fresh
  <2>2. Pushed(t, k, L)'
    BY <2>1, <1>1, <1>3, <1>4, <1>5, <1>6 DEF Pushed
  <2> QED
    BY <2>2, <1>1, <1>5 DEF Fresh
<1>12. Carry(t)'
  BY <1>1, <1>3, <1>5, Here DEF Carry
<1>13. Stays(t)
  BY <1>1, <1>4, <1>5 DEF Stays
<1> QED
  BY <1>3, <1>4, <1>5, <1>7, <1>8, <1>9, <1>10, <1>12, <1>13,
     LocalKeepsInv

\* add() counts its node.
LEMMA GrowKeepsInv ==
  ASSUME NEW k \in Nat, NEW L \in [1 .. k -> Node], NEW t \in Thread,
         Inv(k, L), Grow(t)
  PROVE  Inv(k, L)' /\ Stays(t)
<1> DEFINE f == [pc |-> "commit"]
<1>1. /\ DOMAIN th = Thread /\ DOMAIN th[t] = Fields
      /\ Shape(t) /\ Typed(t) /\ th[t].pc = "size"
      /\ Op(t) \in {"add", "update"} /\ th[t].call \in Request
      /\ th[t].node \in Node /\ DOMAIN th[t].wr = {m_head, next(th[t].node)}
      /\ ~th[t].stale => Fresh(t, k, L)
  BY Here DEF Shape, Grow, Local, AtPc
<1>2. DOMAIN f = {"pc"} /\ DOMAIN f \subseteq Plain
  BY DEF Plain, Fields
<1>3. Become(t, f @@ Log(t, m_sz, m_sz :> mem[m_sz] + 1)) /\ UNCHANGED <<mem, heap, calls, undefined>>
  BY <1>1, TVarsDiffer DEF Grow, Local, Value
<1>4. /\ DOMAIN th' = Thread /\ DOMAIN th'[t] = Fields
      /\ \A y \in Plain : th'[t][y] = IF y \in DOMAIN f THEN f[y] ELSE th[t][y]
      /\ th'[t].rd = th[t].rd \cup {m_sz}
      /\ th'[t].wr = (m_sz :> mem[m_sz] + 1) @@ th[t].wr
      /\ \A u \in Thread : u # t => th'[u] = th[u]
  <2> HIDE DEF f
  <2> QED BY <1>1, <1>2, <1>3, LogFields
<1>5. /\ th'[t].pc = "commit" /\ th'[t].call = th[t].call
      /\ th'[t].start = th[t].start /\ th'[t].pred = th[t].pred
      /\ th'[t].curr = th[t].curr /\ th'[t].node = th[t].node
      /\ th'[t].stale = th[t].stale /\ th'[t].ret = th[t].ret /\ Op(t)' = Op(t)
  BY <1>2, <1>4 DEF Plain, Fields, Op
<1> HIDE DEF f
<1>6. /\ DOMAIN th'[t].wr = {m_head, m_sz, next(th[t].node)}
      /\ th'[t].wr[m_sz] = mem[m_sz] + 1
      /\ th'[t].wr[m_head] = th[t].wr[m_head]
      /\ th'[t].wr[next(th[t].node)] = th[t].wr[next(th[t].node)]
  BY <1>1, <1>4, TVarsDiffer DEF @@, :>
<1>7. Shape(t)'
  BY <1>1, <1>4, <1>5, <1>6 DEF Shape, PC
<1>8. Typed(t)'
  BY <1>1, <1>4, <1>5, <1>6, TVarsNamed DEF Typed
<1>9. InHand(t)' \subseteq InHand(t)
  BY <1>1, <1>5 DEF InHand
<1>10. ASSUME ~th[t].stale PROVE Fresh(t, k, L)'
  <2>1. mem[m_sz] = k /\ m_sz \in th'[t].rd /\ m_head \in th'[t].rd
    BY <1>1, <1>4, <1>10 DEF Inv, Whole, Fresh, Pushed
  <2>2. Pushed(t, k, L)
    BY <1>1, <1>10 DEF Fresh
  <2>3. Op(t) = "update" => Passed(t, L, k)'
    BY <2>2, <1>3, <1>4, <1>5, ReadsOn DEF Pushed
  <2>4. Pushed(t, k, L)'
    BY <2>1, <2>2, <2>3, <1>1, <1>3, <1>5, <1>6 DEF Pushed
  <2>5. Prepends(t, k, L)'
    BY <2>1, <2>4, <1>1, <1>5, <1>6 DEF Prepends
  <2> QED
    BY <2>5, <1>5 DEF Fresh
<1>12. Carry(t)'
  BY <1>1, <1>3, <1>5, Here DEF Carry
<1>13. Stays(t)
  BY <1>1, <1>4, <1>5 DEF Stays
<1> QED
  BY <1>3, <1>4, <1>5, <1>7, <1>8, <1>9, <1>10, <1>12, <1>13,
     LocalKeepsInv

\* remove() counts its node out.
LEMMA ShrinkKeepsInv ==
  ASSUME NEW k \in Nat, NEW L \in [1 .. k -> Node], NEW t \in Thread,
         Inv(k, L), Shrink(t)
  PROVE  Inv(k, L)' /\ Stays(t)
<1> DEFINE where == IF th[t].curr = th[t].start THEN "oldhead" ELSE "unlink"
           f == [pc |-> where]
<1>1. /\ DOMAIN th = Thread /\ DOMAIN th[t] = Fields
      /\ Shape(t) /\ Typed(t) /\ th[t].pc = "size"
      /\ Op(t) = "remove" /\ th[t].call \in Request
      /\ th[t].node = none /\ th[t].wr = << >> /\ Value(t, m_sz) = mem[m_sz]
      /\ ~th[t].stale => Fresh(t, k, L)
  BY Here DEF Shape, Shrink, Local, AtPc
<1>2. DOMAIN f = {"pc"} /\ DOMAIN f \subseteq Plain
  BY DEF Plain, Fields
<1>3. Become(t, f @@ Log(t, m_sz, m_sz :> mem[m_sz] - 1)) /\ UNCHANGED <<mem, heap, calls, undefined>>
  BY <1>1 DEF Shrink, Local
<1>4. /\ DOMAIN th' = Thread /\ DOMAIN th'[t] = Fields
      /\ \A y \in Plain : th'[t][y] = IF y \in DOMAIN f THEN f[y] ELSE th[t][y]
      /\ th'[t].rd = th[t].rd \cup {m_sz}
      /\ th'[t].wr = (m_sz :> mem[m_sz] - 1) @@ th[t].wr
      /\ \A u \in Thread : u # t => th'[u] = th[u]
  <2> HIDE DEF f
  <2> QED BY <1>1, <1>2, <1>3, LogFields
<1>5. /\ th'[t].pc = where /\ th'[t].call = th[t].call
      /\ th'[t].start = th[t].start /\ th'[t].pred = th[t].pred
      /\ th'[t].curr = th[t].curr /\ th'[t].node = th[t].node
      /\ th'[t].stale = th[t].stale /\ th'[t].ret = th[t].ret /\ Op(t)' = Op(t)
  BY <1>2, <1>4 DEF Plain, Fields, Op
<1> HIDE DEF f
<1>6. DOMAIN th'[t].wr = {m_sz} /\ th'[t].wr[m_sz] = mem[m_sz] - 1
  BY <1>1, <1>4 DEF @@, :>
<1>7. Shape(t)'
  BY <1>1, <1>4, <1>5, <1>6 DEF Shape, PC
<1>8. Typed(t)'
  BY <1>1, <1>4, <1>5, <1>6, TVarsNamed DEF Typed
<1>9. InHand(t)' \subseteq InHand(t)
  BY <1>1, <1>5 DEF InHand
<1>10. ASSUME ~th[t].stale PROVE Fresh(t, k, L)'
  <2>1. PICK i \in 1 .. k : Found(t, L, i)
    BY <1>1, <1>10 DEF Fresh
  <2>2. Found(t, L, i)'
    BY <2>1, <1>3, <1>4, <1>5, ReadsOn
  <2>3. mem[m_sz] = k /\ m_sz \in th'[t].rd /\ th'[t].ret = <<"removed", TRUE>>
    BY <1>1, <1>4, <1>5, <1>10 DEF Inv, Whole, Fresh
  <2>4. Shrunk(t, k, L, i)'
    BY <2>2, <2>3, <1>6 DEF Shrunk
  <2> QED
    BY <2>4, <1>5 DEF Fresh
<1>12. Carry(t)'
  BY <1>1, <1>3, <1>5, Here DEF Carry
<1>13. Stays(t)
  BY <1>1, <1>4, <1>5 DEF Stays
<1> QED
  BY <1>3, <1>4, <1>5, <1>7, <1>8, <1>9, <1>10, <1>12, <1>13,
     LocalKeepsInv

\* remove() of the first node reads m_head again.
LEMMA ReadOldHeadKeepsInv ==
  ASSUME NEW k \in Nat, NEW L \in [1 .. k -> Node], NEW t \in Thread,
         Inv(k, L), ReadOldHead(t)
  PROVE  Inv(k, L)' /\ Stays(t)
<1> DEFINE f == [pc |-> "unlink", pred |-> none, curr |-> mem[m_head]]
<1>1. /\ DOMAIN th = Thread /\ DOMAIN th[t] = Fields
      /\ Shape(t) /\ Typed(t) /\ th[t].pc = "oldhead"
      /\ Op(t) = "remove" /\ th[t].call \in Request
      /\ th[t].node = none /\ DOMAIN th[t].wr = {m_sz}
      /\ ~th[t].stale => Fresh(t, k, L)
  BY Here DEF Shape, ReadOldHead, Local, AtPc
<1>2. DOMAIN f = {"pc", "pred", "curr"} /\ DOMAIN f \subseteq Plain
  BY DEF Plain, Fields
<1>3. Become(t, f @@ Log(t, m_head, << >>)) /\ UNCHANGED <<mem, heap, calls, undefined>>
  BY <1>1, TVarsDiffer DEF ReadOldHead, Local, Value
<1>4. /\ DOMAIN th' = Thread /\ DOMAIN th'[t] = Fields
      /\ \A y \in Plain : th'[t][y] = IF y \in DOMAIN f THEN f[y] ELSE th[t][y]
      /\ th'[t].rd = th[t].rd \cup {m_head}
      /\ th'[t].wr = << >> @@ th[t].wr
      /\ \A u \in Thread : u # t => th'[u] = th[u]
  <2> HIDE DEF f
  <2> QED BY <1>1, <1>2, <1>3, LogFields
<1>5. /\ th'[t].pc = "unlink" /\ th'[t].call = th[t].call
      /\ th'[t].start = th[t].start /\ th'[t].pred = none
      /\ th'[t].curr = mem[m_head] /\ th'[t].node = th[t].node
      /\ th'[t].stale = th[t].stale /\ th'[t].ret = th[t].ret /\ Op(t)' = Op(t)
  BY <1>2, <1>4 DEF Plain, Fields, Op
<1> HIDE DEF f
<1>6. DOMAIN th'[t].wr = {m_sz} /\ th'[t].wr[m_sz] = th[t].wr[m_sz]
  BY <1>1, <1>4 DEF @@
<1>11. mem[m_head] \in Node \cup {none}
  BY DEF Inv, Whole, Path
<1>7. Shape(t)'
  BY <1>1, <1>4, <1>5, <1>6, <1>11 DEF Shape, PC
<1>8. Typed(t)'
  BY <1>1, <1>4, <1>5, <1>6, <1>11, TVarsNamed DEF Typed
<1>9. InHand(t)' \subseteq InHand(t)
  BY <1>1, <1>5 DEF InHand
<1>10. ASSUME ~th[t].stale PROVE Fresh(t, k, L)'
  <2>1. PICK i \in 1 .. k : Shrunk(t, k, L, i)
    BY <1>1, <1>10 DEF Fresh
  <2>2. th[t].curr = th[t].start
    BY <1>1, <1>10 DEF Fresh
  <2>3. i = 1 /\ mem[m_head] = L[1]
    <3>1. L[i] = L[1]
      BY <2>1, <2>2 DEF Shrunk, Found, Reached
    <3>2. 1 \in 1 .. k /\ k # 0
      OBVIOUS
    <3> QED
      BY <3>1, <3>2 DEF Inv, Whole, Path
  <2>4. Passed(t, L, 0)'
    BY <2>1, <1>4 DEF Shrunk, Found, Reached, Passed
  <2>5. Reached(t, L, 1)'
    BY <2>1, <2>3, <2>4, <1>5 DEF Shrunk, Found, Reached
  <2>6. Found(t, L, 1)'
    BY <2>1, <2>3, <2>5, <1>3, <1>4, <1>5 DEF Shrunk, Found
  <2>7. Shrunk(t, k, L, 1)'
    BY <2>1, <2>6, <1>4, <1>5, <1>6 DEF Shrunk
  <2> QED
    BY <2>1, <2>3, <2>7, <1>5 DEF Fresh
<1>12. Carry(t)'
  BY <1>1, <1>3, <1>5, Here DEF Carry
<1>13. Stays(t)
  BY <1>1, <1>4, <1>5 DEF Stays
<1> QED
  BY <1>3, <1>4, <1>5, <1>7, <1>8, <1>9, <1>10, <1>12, <1>13,
     LocalKeepsInv

\* remove() stages the link around its node.
LEMMA UnlinkKeepsInv ==
  ASSUME NEW k \in Nat, NEW L \in [1 .. k -> Node], NEW t \in Thread,
         Inv(k, L), Unlink(t)
  PROVE  Inv(k, L)' /\ Stays(t)
<1> DEFINE x == next(th[t].curr)
           link == IF th[t].pred = none THEN m_head ELSE next(th[t].pred)
           f == [pc |-> "commit", node |-> th[t].curr]
<1>1. /\ DOMAIN th = Thread /\ DOMAIN th[t] = Fields
      /\ Shape(t) /\ Typed(t) /\ th[t].pc = "unlink"
      /\ Op(t) = "remove" /\ th[t].call \in Request
      /\ DOMAIN th[t].wr = {m_sz}
      /\ th[t].curr \in heap
      /\ ~th[t].stale => Fresh(t, k, L)
  BY Here DEF Shape, Unlink, Local, AtPc
<1>2. DOMAIN f = {"pc", "node"} /\ DOMAIN f \subseteq Plain
  BY DEF Plain, Fields
<1>3. Become(t, f @@ Log(t, x, link :> mem[x])) /\ UNCHANGED <<mem, heap, calls, undefined>>
  BY <1>1, TVarsDiffer DEF Unlink, Local, Value
<1>4. /\ DOMAIN th' = Thread /\ DOMAIN th'[t] = Fields
      /\ \A y \in Plain : th'[t][y] = IF y \in DOMAIN f THEN f[y] ELSE th[t][y]
      /\ th'[t].rd = th[t].rd \cup {x}
      /\ th'[t].wr = (link :> mem[x]) @@ th[t].wr
      /\ \A u \in Thread : u # t => th'[u] = th[u]
  <2> HIDE DEF f
  <2> QED BY <1>1, <1>2, <1>3, LogFields
<1>5. /\ th'[t].pc = "commit" /\ th'[t].call = th[t].call
      /\ th'[t].start = th[t].start /\ th'[t].pred = th[t].pred
      /\ th'[t].curr = th[t].curr /\ th'[t].node = th[t].curr
      /\ th'[t].stale = th[t].stale /\ th'[t].ret = th[t].ret /\ Op(t)' = Op(t)
  BY <1>2, <1>4 DEF Plain, Fields, Op
<1> HIDE DEF f
<1>6. /\ Link(t)' = link /\ link # m_sz
      /\ DOMAIN th'[t].wr = {m_sz, link}
      /\ th'[t].wr[link] = mem[x]
      /\ th'[t].wr[m_sz] = th[t].wr[m_sz]
  <2>1. Link(t)' = link /\ link # m_sz
    BY <1>5, TVarsDiffer DEF Link
  <2> HIDE DEF link
  <2> QED
    BY <2>1, <1>1, <1>4 DEF @@, :>
<1>11. link \in TVar /\ x \in TVar /\ th[t].curr \in Node
  BY <1>1, TVarsNamed DEF Typed, Inv, TypeOK
<1>7. Shape(t)'
  BY <1>1, <1>4, <1>5, <1>6, <1>11 DEF Shape, PC
<1>8. Typed(t)'
  BY <1>1, <1>4, <1>5, <1>6, <1>11, TVarsNamed DEF Typed
<1>9. InHand(t)' \subseteq InHand(t)
  BY <1>1, <1>5 DEF InHand
<1>10. ASSUME ~th[t].stale PROVE Fresh(t, k, L)'
  <2>1. PICK i \in 1 .. k : Shrunk(t, k, L, i)
    BY <1>1, <1>10 DEF Fresh
  <2>2. Found(t, L, i)' /\ x = next(L[i]) /\ th[t].curr = L[i]
    BY <2>1, <1>3, <1>4, <1>5, ReadsOn DEF Shrunk, Found, Reached
  <2>3. Shrunk(t, k, L, i)'
    BY <2>1, <2>2, <1>4, <1>5, <1>6 DEF Shrunk
  <2>4. Unlinks(t, k, L)'
    BY <2>2, <2>3, <1>1, <1>3, <1>4, <1>5, <1>6 DEF Unlinks
  <2> QED
    BY <2>4, <1>5 DEF Fresh
<1>12. Carry(t)'
  BY <1>1, <1>3, <1>5, Here DEF Carry
<1>13. Stays(t)
  BY <1>1, <1>4, <1>5 DEF Stays
<1> QED
  BY <1>3, <1>4, <1>5, <1>7, <1>8, <1>9, <1>10, <1>12, <1>13,
     LocalKeepsInv

----------------------------------------------------------------------------
(* How a call begins, and how it ends without an effect.                   *)

\* The record of a body that starts.
LEMMA BeginFields ==
  ASSUME NEW r, NEW n, NEW b, b = [node |-> n] @@ Begin(r)
  PROVE  /\ DOMAIN b = Fields /\ DOMAIN Begin(r) = Fields
         /\ b.pc = IF r.op = "size" THEN "size" ELSE "head"
         /\ b.call = r /\ b.start = none /\ b.pred = none /\ b.curr = none
         /\ b.node = n /\ b.rd = {} /\ b.wr = << >> /\ b.stale \in BOOLEAN /\ ~b.stale /\ b.ret = none
         /\ \A y \in Fields \ {"node"} : b[y] = Begin(r)[y]
         /\ Begin(r).node = none
<1>1. /\ DOMAIN Begin(r) = Fields
      /\ Begin(r).pc = IF r.op = "size" THEN "size" ELSE "head"
      /\ Begin(r).call = r /\ Begin(r).start = none /\ Begin(r).pred = none
      /\ Begin(r).curr = none /\ Begin(r).node = none /\ Begin(r).rd = {}
      /\ Begin(r).wr = << >> /\ Begin(r).stale \in BOOLEAN /\ ~Begin(r).stale /\ Begin(r).ret = none
  BY DEF Begin, Idle, Fields
<1> HIDE DEF Begin
<1> QED
  BY <1>1 DEF @@, Fields

\* A body that starts with the node it should have.
LEMMA BeginShape ==
  ASSUME NEW t \in Thread, NEW r \in Request, NEW n, NEW b,
         b = [node |-> n] @@ Begin(r), DOMAIN th = Thread, DOMAIN th[t] = Fields,
         Become(t, b),
         IF r.op = "add" THEN n \in Node ELSE n = none
  PROVE  /\ DOMAIN th' = Thread /\ \A u \in Thread : u # t => th'[u] = th[u]
         /\ th'[t].call = r /\ th'[t].node = n
         /\ th'[t].pc = IF r.op = "size" THEN "size" ELSE "head"
         /\ Shape(t)' /\ Typed(t)' /\ \A k, L : Fresh(t, k, L)'
         /\ InHand(t)' = IF r.op = "add" THEN {n} ELSE {}
         /\ (r.op = "add" => mem'[item(n)] = r.item) => Carry(t)'
<1>1. /\ DOMAIN b = Fields
      /\ b.pc = IF r.op = "size" THEN "size" ELSE "head"
      /\ b.call = r /\ b.start = none /\ b.pred = none /\ b.curr = none
      /\ b.node = n /\ b.rd = {} /\ b.wr = << >> /\ b.stale \in BOOLEAN /\ ~b.stale /\ b.ret = none
  BY BeginFields
<1>2. /\ DOMAIN th' = Thread /\ DOMAIN th'[t] = Fields
      /\ \A y \in Fields : th'[t][y] = b[y]
      /\ \A u \in Thread : u # t => th'[u] = th[u]
  BY <1>1, BecomeFields
<1>3. /\ th'[t].pc = IF r.op = "size" THEN "size" ELSE "head"
      /\ th'[t].call = r /\ th'[t].start = none /\ th'[t].pred = none
      /\ th'[t].curr = none /\ th'[t].node = n /\ th'[t].rd = {}
      /\ th'[t].wr = << >> /\ th'[t].stale \in BOOLEAN /\ ~th'[t].stale /\ th'[t].ret = none
  BY <1>1, <1>2 DEF Fields
<1>4. r # none /\ Op(t)' = r.op /\ r.op \in {"add", "remove", "get", "update", "size"}
  BY <1>3, ListAssumption DEF Op, Request
<1>5. Shape(t)'
  BY <1>2, <1>3, <1>4 DEF Shape, PC
<1>6. Typed(t)'
  BY <1>3 DEF Typed
<1>7. ASSUME NEW k, NEW L PROVE Fresh(t, k, L)'
  BY <1>3, <1>4 DEF Fresh
<1>8. InHand(t)' = IF r.op = "add" THEN {n} ELSE {}
  BY <1>3, <1>4, ListAssumption DEF InHand
<1>9. (r.op = "add" => mem'[item(n)] = r.item) => Carry(t)'
  BY <1>3, <1>4, ListAssumption DEF Carry
<1> QED
  BY <1>2, <1>3, <1>5, <1>6, <1>7, <1>8, <1>9

\* A thread that leaves its call.
LEMMA IdleShape ==
  ASSUME NEW t \in Thread, DOMAIN th = Thread, DOMAIN th[t] = Fields, Become(t, Idle)
  PROVE  /\ DOMAIN th' = Thread /\ \A u \in Thread : u # t => th'[u] = th[u]
         /\ th'[t] = Idle /\ Shape(t)' /\ Typed(t)' /\ Carry(t)'
         /\ \A k, L : Fresh(t, k, L)'
         /\ InHand(t)' = {}
<1>1. /\ DOMAIN th' = Thread /\ \A u \in Thread : u # t => th'[u] = th[u]
  BY IdleFields, BecomeFields
<1>2. th'[t] = Idle
  BY IdleFields DEF Become, @@, Idle, Fields
<1>3. /\ Idle.pc = "idle" /\ Idle.call = none /\ Idle.start = none /\ Idle.pred = none
      /\ Idle.curr = none /\ Idle.node = none /\ Idle.rd = {} /\ Idle.wr = << >>
      /\ Idle.stale \in BOOLEAN /\ ~Idle.stale /\ Idle.ret = none
  BY DEF Idle
<1>4. Shape(t)' /\ Typed(t)' /\ Carry(t)'
  BY <1>2, <1>3, IdleFields DEF Shape, PC, Typed, Carry
<1>6. ASSUME NEW k, NEW L PROVE Fresh(t, k, L)'
  BY <1>2, <1>3 DEF Fresh
<1>5. InHand(t)' = {}
  BY <1>2, <1>3, ListAssumption DEF InHand
<1> QED
  BY <1>1, <1>2, <1>4, <1>5, <1>6

\* A node that is allocated is nobody's and in no list.
LEMMA NewNode ==
  ASSUME TypeOK, NEW n, NEW i \in Item, New(n, i)
  PROVE  /\ n \in Node \ heap /\ heap' = heap \cup {n} /\ DOMAIN mem' = TVar
         /\ mem'[m_head] = mem[m_head] /\ mem'[m_sz] = mem[m_sz]
         /\ \A m \in heap : mem'[item(m)] = mem[item(m)] /\ mem'[next(m)] = mem[next(m)]
         /\ mem'[item(n)] = i /\ mem'[next(n)] = none
<1>1. /\ DOMAIN mem = TVar /\ n \in Node \ heap
      /\ mem' = [mem EXCEPT ![item(n)] = i, ![next(n)] = none]
  BY DEF TypeOK, New
<1> QED
  BY <1>1, TVarsDiffer, TVarsNamed DEF New, TypeOK

\* A call begins, with a new node in its hands if it is an add().
LEMMA CallKeepsInv ==
  ASSUME NEW k \in Nat, NEW L \in [1 .. k -> Node], NEW t \in Thread,
         Inv(k, L), Call(t)
  PROVE  Inv(k, L)'
<1>1. /\ DOMAIN th = Thread /\ DOMAIN th[t] = Fields /\ TypeOK
      /\ calls' \in 0 .. MaxCalls /\ undefined' \in BOOLEAN
  BY Here, ListAssumption DEF Call, Inv, TypeOK
<1>2. PICK r \in Request :
        IF r.op = "add"
          THEN \E n \in Node : New(n, r.item) /\ Become(t, [node |-> n] @@ Begin(r))
          ELSE Become(t, Begin(r)) /\ UNCHANGED <<mem, heap>>
  BY DEF Call
<1>3. CASE r.op = "add"
  <2>1. PICK n \in Node : New(n, r.item) /\ Become(t, [node |-> n] @@ Begin(r))
    BY <1>2, <1>3
  <2>2. r.item \in Item
    BY <1>3 DEF Request
  <2>3. /\ DOMAIN th' = Thread /\ \A u \in Thread : u # t => th'[u] = th[u]
        /\ Shape(t)' /\ Typed(t)' /\ Fresh(t, k, L)' /\ InHand(t)' = {n}
        /\ mem'[item(n)] = r.item => Carry(t)'
    BY <1>1, <1>3, <2>1, BeginShape
  <2>4. /\ n \in Node \ heap /\ heap' = heap \cup {n} /\ DOMAIN mem' = TVar
        /\ mem'[m_head] = mem[m_head] /\ mem'[m_sz] = mem[m_sz]
        /\ \A m \in heap : mem'[item(m)] = mem[item(m)] /\ mem'[next(m)] = mem[next(m)]
        /\ mem'[item(n)] = r.item /\ mem'[next(n)] = none
    BY <1>1, <2>1, <2>2, NewNode
  <2>5. Own(t)
    BY <1>1, <2>2, <2>3, <2>4 DEF Own, TypeOK
  <2> QED
    BY <2>3, <2>4, <2>5, OwnKeepsInv
<1>4. CASE r.op # "add"
  <2> DEFINE b == [node |-> none] @@ Begin(r)
  <2>1. Become(t, b) /\ UNCHANGED <<mem, heap>>
    <3>1. b = Begin(r)
      <4>1. Begin(r) = [y \in Fields |-> Begin(r)[y]]
        BY DEF Begin, Idle, Fields
      <4>2. DOMAIN b = Fields /\ \A y \in Fields : b[y] = Begin(r)[y]
        BY BeginFields
      <4>3. b = [y \in DOMAIN b |-> b[y]]
        BY DEF @@
      <4> QED BY <4>1, <4>2, <4>3
    <3> QED BY <3>1, <1>2, <1>4
  <2>2. /\ DOMAIN th' = Thread /\ \A u \in Thread : u # t => th'[u] = th[u]
        /\ Shape(t)' /\ Typed(t)' /\ Fresh(t, k, L)' /\ InHand(t)' = {}
        /\ Carry(t)'
    BY <1>1, <1>4, <2>1, BeginShape
  <2>3. Own(t)
    BY <1>1, <2>1, <2>2 DEF Own, TypeOK
  <2> QED
    BY <2>2, <2>3, OwnKeepsInv
<1> QED BY <1>3, <1>4

\* update() has not found its key and allocates the node to add.
LEMMA NestedAddKeepsInv ==
  ASSUME NEW k \in Nat, NEW L \in [1 .. k -> Node], NEW t \in Thread,
         Inv(k, L), NestedAdd(t)
  PROVE  Inv(k, L)' /\ Stays(t)
<1>1. /\ DOMAIN th = Thread /\ DOMAIN th[t] = Fields /\ TypeOK
      /\ Shape(t) /\ Typed(t) /\ th[t].pc = "absent" /\ th[t].wr = << >>
      /\ Op(t) = "update" /\ th[t].call \in Request /\ th[t].node = none
      /\ th[t].ret = none
      /\ calls' \in 0 .. MaxCalls /\ undefined' \in BOOLEAN
      /\ ~th[t].stale => Fresh(t, k, L)
  BY Here DEF NestedAdd, Inv, TypeOK, Shape, AtPc
<1>2. PICK n \in Node : /\ New(n, th[t].call.item)
                        /\ Become(t, [pc |-> "push", node |-> n])
  BY DEF NestedAdd
<1>3. th[t].call.item \in Item
  BY <1>1, ListAssumption DEF Op, Request
<1>4. /\ DOMAIN th' = Thread /\ DOMAIN th'[t] = Fields
      /\ \A u \in Thread : u # t => th'[u] = th[u]
      /\ th'[t].pc = "push" /\ th'[t].node = n
      /\ \A y \in Fields \ {"pc", "node"} : th'[t][y] = th[t][y]
  <2> DEFINE f == [pc |-> "push", node |-> n]
  <2>1. /\ DOMAIN f = {"pc", "node"} /\ DOMAIN f \subseteq Fields
        /\ f.pc = "push" /\ f.node = n
    BY DEF Fields
  <2> HIDE DEF f
  <2>2. Become(t, f)
    BY <1>2 DEF f
  <2>3. /\ DOMAIN th' = Thread /\ DOMAIN th'[t] = Fields
        /\ \A y \in Fields : th'[t][y] = IF y \in DOMAIN f THEN f[y] ELSE th[t][y]
        /\ \A u \in Thread : u # t => th'[u] = th[u]
    BY <1>1, <2>1, <2>2, BecomeFields
  <2> QED BY <2>1, <2>3
<1>5. /\ th'[t].start = th[t].start /\ th'[t].curr = th[t].curr
      /\ th'[t].pred = th[t].pred /\ th'[t].call = th[t].call
      /\ th'[t].rd = th[t].rd /\ th'[t].wr = th[t].wr
      /\ th'[t].stale = th[t].stale /\ th'[t].ret = th[t].ret
      /\ Op(t)' = Op(t)
  BY <1>4 DEF Fields, Op
<1>6. /\ n \in Node \ heap /\ heap' = heap \cup {n} /\ DOMAIN mem' = TVar
      /\ mem'[m_head] = mem[m_head] /\ mem'[m_sz] = mem[m_sz]
      /\ \A m \in heap : mem'[item(m)] = mem[item(m)] /\ mem'[next(m)] = mem[next(m)]
      /\ mem'[item(n)] = th[t].call.item /\ mem'[next(n)] = none
  BY <1>1, <1>2, <1>3, NewNode
<1>7. Shape(t)'
  BY <1>1, <1>4, <1>5 DEF Shape, PC
<1>8. Typed(t)'
  BY <1>1, <1>4, <1>5 DEF Typed
<1>9. InHand(t)' = {n}
  BY <1>1, <1>4, <1>5 DEF InHand
<1>10. Own(t)
  <2> HIDE DEF InHand
  <2> QED BY <1>1, <1>3, <1>4, <1>6, <1>9 DEF Own, TypeOK
<1>11. ASSUME ~th[t].stale PROVE Fresh(t, k, L)'
  <2>1. Passed(t, L, k)
    BY <1>1, <1>11 DEF Fresh
  <2>2. \A i \in 1 .. k : mem'[item(L[i])] = mem[item(L[i])]
    BY <1>6 DEF Inv, Whole
  <2>3. Passed(t, L, k)'
    BY <2>1, <2>2, <1>5 DEF Passed
  <2> QED
    BY <2>3, <1>4 DEF Fresh
<1>12. Carry(t)'
  BY <1>4, <1>5, <1>6 DEF Carry
<1>13. Stays(t)
  BY <1>1, <1>4, <1>5 DEF Stays
<1> QED
  BY <1>5, <1>7, <1>8, <1>10, <1>11, <1>12, <1>13, OwnKeepsInv

\* The allocation of a node throws, and the call is over.
LEMMA AllocFailsKeepsInv ==
  ASSUME NEW k \in Nat, NEW L \in [1 .. k -> Node], NEW t \in Thread,
         Inv(k, L), AllocFails(t)
  PROVE  Inv(k, L)'
<1>1. /\ DOMAIN th = Thread /\ DOMAIN th[t] = Fields
      /\ Become(t, Idle) /\ UNCHANGED <<mem, heap, calls, undefined>>
  BY Here DEF AllocFails, Local
<1> QED
  BY <1>1, IdleShape, LocalKeepsInv

\* A body that has failed begins again with the node it had.
LEMMA RetryKeepsInv ==
  ASSUME NEW k \in Nat, NEW L \in [1 .. k -> Node], NEW t \in Thread,
         Inv(k, L), Retry(t)
  PROVE  Inv(k, L)' /\ Stays(t)
<1> DEFINE n == IF Op(t) = "add" THEN th[t].node ELSE none
<1>1. /\ DOMAIN th = Thread /\ DOMAIN th[t] = Fields
      /\ Shape(t) /\ th[t].pc = "commit" /\ th[t].call \in Request
      /\ Op(t) = "add" => th[t].node \in Node
      /\ Become(t, [node |-> n] @@ Begin(th[t].call))
      /\ UNCHANGED <<mem, heap, calls, undefined>>
  BY Here DEF Retry, Local, AtPc, Shape
<1>2. Op(t) = th[t].call.op
  BY <1>1, ListAssumption DEF Op
<1>3. /\ DOMAIN th' = Thread /\ \A u \in Thread : u # t => th'[u] = th[u]
      /\ Shape(t)' /\ Typed(t)' /\ Fresh(t, k, L)'
      /\ InHand(t)' = IF Op(t) = "add" THEN {n} ELSE {}
      /\ (Op(t) = "add" => mem'[item(n)] = th[t].call.item) => Carry(t)'
      /\ th'[t].call = th[t].call /\ th'[t].pc \in {"size", "head"}
  <2>1. IF th[t].call.op = "add" THEN n \in Node ELSE n = none
    BY <1>1, <1>2
  <2> HIDE DEF n
  <2> QED BY <1>1, <1>2, <2>1, BeginShape
<1>4. InHand(t)' \subseteq InHand(t)
  BY <1>1, <1>3 DEF InHand
<1>5. Carry(t)'
  BY <1>1, <1>3, Here DEF Carry
<1>6. Stays(t)
  BY <1>1, <1>3 DEF Stays
<1> QED
  BY <1>1, <1>3, <1>4, <1>5, <1>6, LocalKeepsInv

\* A call returns, and remove() deletes the node it has taken out of the list.
LEMMA ReturnKeepsInv ==
  ASSUME NEW k \in Nat, NEW L \in [1 .. k -> Node], NEW t \in Thread,
         Inv(k, L), Return(t)
  PROVE  Inv(k, L)'
<1>1. /\ DOMAIN th = Thread /\ DOMAIN th[t] = Fields /\ th[t].pc = "return"
      /\ TypeOK /\ Become(t, Idle) /\ heap' = heap \ {th[t].node}
      /\ UNCHANGED <<mem, calls, undefined>>
  BY Here DEF Return, AtPc, Inv
<1>2. /\ DOMAIN th' = Thread /\ \A u \in Thread : u # t => th'[u] = th[u]
      /\ Shape(t)' /\ Typed(t)' /\ Carry(t)' /\ Fresh(t, k, L)' /\ InHand(t)' = {}
  BY <1>1, IdleShape
<1>3. InHand(t) = {th[t].node} \cap Node
  BY <1>1 DEF InHand
<1>4. Own(t)
  BY <1>1, <1>2, <1>3 DEF Own, TypeOK
<1> QED
  BY <1>2, <1>4, OwnKeepsInv

\* A step that leaves the list and the threads alone.
LEMMA RestKeepsInv ==
  ASSUME NEW k \in Nat, NEW L \in [1 .. k -> Node],
         Inv(k, L), UNCHANGED <<mem, heap, th, calls>>, undefined' \in BOOLEAN
  PROVE  Inv(k, L)'
<1>1. \A t \in Thread : /\ Op(t)' = Op(t) /\ InHand(t)' = InHand(t)
                        /\ Shape(t) => Shape(t)'
                        /\ Carry(t) => Carry(t)'
  BY DEF Op, InHand, Shape, Carry
<1>2. \A t \in Thread : Fresh(t, k, L) => Fresh(t, k, L)'
  <2>1. \A t \in Thread : SameBody(t)
    BY DEF SameBody
  <2> QED BY <2>1, FreshStays
<1>3. Whole(k, L)' /\ TypeOK'
  BY DEF Inv, Whole, Path, TypeOK
<1>4. Hands(k, L)'
  BY <1>1 DEF Inv, Hands
<1> QED
  BY <1>1, <1>2, <1>3, <1>4 DEF Inv

----------------------------------------------------------------------------
(* Commits.                                                                *)

\* What every commit does to the threads.
LEMMA CommitThreads ==
  ASSUME NEW k \in Nat, NEW L \in [1 .. k -> Node], NEW t \in Thread,
         Inv(k, L), Commit(t)
  PROVE  /\ DOMAIN th' = Thread
         /\ Shape(t)' /\ Typed(t)' /\ \A k2, L2 : Fresh(t, k2, L2)'
         /\ InHand(t)' = IF Op(t) = "remove" THEN {th[t].node} \cap Node ELSE {}
         /\ \A u \in Thread \ {t} :
              /\ SameBody(u) /\ Shape(u)' /\ Typed(u)' /\ InHand(u)' = InHand(u)
              /\ ~th'[u].stale => ~th[u].stale /\ th[u].rd \cap DOMAIN th[t].wr = {}
         /\ th'[t].pc = "return" /\ th'[t].call = th[t].call /\ th'[t].ret = th[t].ret
<1> DEFINE new == [Idle EXCEPT !.pc = "return", !.call = th[t].call, !.ret = th[t].ret,
                               !.node = IF Op(t) = "remove" THEN th[t].node ELSE none]
           told(u) == [th[u] EXCEPT
                         !.stale = @ \/ th[u].rd \cap DOMAIN th[t].wr # {}]
<1>1. /\ DOMAIN th' = Thread
      /\ th'[t] = new
      /\ \A u \in Thread \ {t} : th'[u] = told(u)
  BY DEF Commit
<1>2. /\ Shape(t) /\ Typed(t) /\ th[t].pc = "commit" /\ th[t].call \in Request
  BY Here DEF Commit, AtPc, Shape
<1>3. /\ DOMAIN th'[t] = Fields /\ th'[t].pc = "return" /\ th'[t].call = th[t].call
      /\ th'[t].ret = th[t].ret
      /\ th'[t].node = IF Op(t) = "remove" THEN th[t].node ELSE none
      /\ th'[t].start = none /\ th'[t].pred = none /\ th'[t].curr = none
      /\ th'[t].rd = {} /\ th'[t].wr = << >>
      /\ th'[t].stale \in BOOLEAN
      /\ Op(t)' = Op(t)
  BY <1>1 DEF Idle, Fields, Op
<1>4. Shape(t)' /\ Typed(t)'
  BY <1>2, <1>3 DEF Shape, PC, Typed
<1>5. ASSUME NEW k2, NEW L2 PROVE Fresh(t, k2, L2)'
  BY <1>3 DEF Fresh
<1>6. InHand(t)' = IF Op(t) = "remove" THEN {th[t].node} \cap Node ELSE {}
  BY <1>3, ListAssumption DEF InHand
<1> HIDE DEF new
<1>7. ASSUME NEW u \in Thread \ {t}
      PROVE  /\ SameBody(u) /\ Shape(u)' /\ Typed(u)' /\ InHand(u)' = InHand(u)
             /\ ~th'[u].stale => ~th[u].stale /\ th[u].rd \cap DOMAIN th[t].wr = {}
  <2>1. Shape(u) /\ Typed(u) /\ DOMAIN th[u] = Fields
    BY Here
  <2>2. /\ DOMAIN th'[u] = Fields /\ th'[u].stale \in BOOLEAN
        /\ ~th'[u].stale => ~th[u].stale /\ th[u].rd \cap DOMAIN th[t].wr = {}
    BY <2>1, <1>1 DEF Fields, Typed
  <2>3. SameBody(u) /\ Op(u)' = Op(u)
    BY <2>1, <1>1 DEF Fields, SameBody, Op
  <2>4. Shape(u)'
    BY <2>1, <2>2, <2>3 DEF Shape, SameBody
  <2>5. Typed(u)'
    BY <2>1, <2>2, <2>3 DEF Typed, SameBody
  <2>6. InHand(u)' = InHand(u)
    BY <2>3 DEF InHand, SameBody
  <2> QED BY <2>2, <2>3, <2>4, <2>5, <2>6
<1> QED
  BY <1>1, <1>3, <1>4, <1>5, <1>6, <1>7

\* A commit keeps the invariant, if what it makes of the list is a list, and
\* what its fresh readers have seen of the old one is true of the new one.
LEMMA CommitKeeps ==
  ASSUME NEW k \in Nat, NEW L \in [1 .. k -> Node], NEW t \in Thread,
         Inv(k, L), Commit(t),
         NEW k2 \in Nat, NEW L2 \in [1 .. k2 -> Node],
         Path(k2, L2)', mem'[m_sz] = k2,
         \A i \in 1 .. k2 : L2[i] \in heap /\ L2[i] \notin InHand(t)',
         \A n \in heap : mem'[item(n)] \in Item /\ mem'[next(n)] \in Node \cup {none},
         \A n \in heap \ {L[i] : i \in 1 .. k} : mem'[item(n)] = mem[item(n)],
         \A u \in Thread \ {t} : \A i \in 1 .. k2 : L2[i] \notin InHand(u),
         \A u \in Thread \ {t} : InHand(u) \cap InHand(t)' = {},
         InHand(t)' \subseteq heap,
         \A u \in Thread \ {t} :
           SameBody(u) /\ Fresh(u, k, L) /\ th[u].rd \cap DOMAIN th[t].wr = {} =>
             Fresh(u, k2, L2)'
  PROVE  Inv(k2, L2)'
<1>1. /\ DOMAIN th' = Thread
      /\ Shape(t)' /\ Typed(t)' /\ Fresh(t, k2, L2)'
      /\ \A u \in Thread \ {t} :
           /\ SameBody(u) /\ Shape(u)' /\ Typed(u)' /\ InHand(u)' = InHand(u)
           /\ ~th'[u].stale => ~th[u].stale /\ th[u].rd \cap DOMAIN th[t].wr = {}
  BY CommitThreads
<1>2. heap' = heap /\ calls' = calls /\ undefined' = undefined /\ DOMAIN mem' = TVar
  BY DEF Commit
<1>3. \A u \in Thread : ~th'[u].stale => Fresh(u, k2, L2)'
  BY <1>1 DEF Inv
<1>4. \A u \in Thread : Shape(u)' /\ Typed(u)'
  BY <1>1
<1>5. TypeOK'
  <2>1. \A u \in Thread : DOMAIN th'[u] = DOMAIN Idle
    BY <1>4, IdleFields DEF Shape
  <2> QED
    BY <1>2, <1>4, <2>1 DEF Inv, TypeOK, Typed
<1>6. Whole(k2, L2)'
  BY <1>2 DEF Whole
<1>7. Hands(k2, L2)'
  <2> HIDE DEF InHand
  <2>1. \A u \in Thread \ {t} : InHand(u) \subseteq heap
    BY DEF Inv, Hands
  <2> QED
    BY <1>1, <1>2, <2>1 DEF Inv, Hands
<1>8. ASSUME NEW u \in Thread PROVE Carry(u)'
  <2>1. CASE u = t
    BY <2>1, CommitThreads DEF Carry
  <2>2. CASE u # t
    <3>1. SameBody(u) /\ Op(u)' = Op(u) /\ Carry(u)
      BY <1>1, <2>2 DEF SameBody, Op, Inv
    <3>2. th[u].pc \notin {"idle", "return"} /\ Op(u) \in {"add", "update"}
            /\ th[u].node \in Node =>
          th[u].node \in heap \ {L[i] : i \in 1 .. k}
      BY DEF Inv, Hands, InHand
    <3> QED
      BY <3>1, <3>2 DEF Carry, SameBody
  <2> QED BY <2>1, <2>2
<1> QED
  BY <1>1, <1>3, <1>4, <1>5, <1>6, <1>7, <1>8 DEF Inv

\* What every commit does to the memory.
LEMMA CommitMem ==
  ASSUME NEW t \in Thread, Commit(t), NEW x \in TVar
  PROVE  mem'[x] = IF x \in DOMAIN th[t].wr THEN th[t].wr[x] ELSE mem[x]
  BY DEF Commit, Value

\* The list with n in front, and without its i-th node.
Front(n, k, L) == [j \in 1 .. k + 1 |-> IF j = 1 THEN n ELSE L[j - 1]]
Drop(k, L, i) == [j \in 1 .. k - 1 |-> IF j < i THEN L[j] ELSE L[j + 1]]

\* The commit of a body that has staged nothing keeps the list.
LEMMA CommitAnswers ==
  ASSUME NEW k \in Nat, NEW L \in [1 .. k -> Node], NEW t \in Thread,
         Inv(k, L), Commit(t), Answers(t, k, L)
  PROVE  Inv(k, L)'
<1>1. \A x \in TVar : mem'[x] = mem[x]
  BY CommitMem DEF Answers
<1>2. /\ \A i \in 1 .. k : L[i] \in heap /\ L[i] \in Node
      /\ heap \subseteq Node /\ heap' = heap
  BY DEF Inv, Whole, TypeOK, Commit
<1>3. /\ mem'[m_head] = mem[m_head] /\ mem'[m_sz] = mem[m_sz]
      /\ \A n \in Node : mem'[item(n)] = mem[item(n)] /\ mem'[next(n)] = mem[next(n)]
  BY <1>1, TVarsNamed
<1>4. Path(k, L)' /\ mem'[m_sz] = k
  BY <1>2, <1>3 DEF Inv, Whole, Path
<1>5. InHand(t)' = {}
  <2>1. th[t].node = none
    BY DEF Answers
  <2> QED BY <2>1, CommitThreads, ListAssumption
<1>6. \A u \in Thread \ {t} : SameBody(u) /\ Fresh(u, k, L) => Fresh(u, k, L)'
  BY <1>2, <1>3, FreshStays
<1>7. \A n \in heap : mem'[item(n)] \in Item /\ mem'[next(n)] \in Node \cup {none}
  BY <1>2, <1>3 DEF Inv, TypeOK
<1>8. \A u \in Thread \ {t} : \A i \in 1 .. k : L[i] \notin InHand(u)
  BY DEF Inv, Hands
<1> HIDE DEF InHand
<1>14. \A n \in heap \ {L[j] : j \in 1 .. k} : mem'[item(n)] = mem[item(n)]
  BY <1>2, <1>3
<1> QED
  BY <1>2, <1>4, <1>5, <1>6, <1>7, <1>8, <1>14, CommitKeeps

\* The commit of an update() keeps the nodes of the list.
LEMMA CommitOverwrites ==
  ASSUME NEW k \in Nat, NEW L \in [1 .. k -> Node], NEW t \in Thread,
         Inv(k, L), Commit(t), Overwrites(t, k, L)
  PROVE  Inv(k, L)'
<1>1. PICK i \in 1 .. k : /\ Found(t, L, i)
                          /\ DOMAIN th[t].wr = {item(L[i])}
                          /\ th[t].wr[item(L[i])] = th[t].call.item
  BY DEF Overwrites
<1>2. /\ \A j \in 1 .. k : L[j] \in heap /\ L[j] \in Node
      /\ heap \subseteq Node /\ heap' = heap
  BY DEF Inv, Whole, TypeOK, Commit
<1>3. /\ mem'[m_head] = mem[m_head] /\ mem'[m_sz] = mem[m_sz]
      /\ \A n \in Node : mem'[next(n)] = mem[next(n)]
      /\ \A n \in Node : n # L[i] => mem'[item(n)] = mem[item(n)]
      /\ mem'[item(L[i])] = th[t].call.item
  BY <1>1, <1>2, CommitMem, TVarsNamed, TVarsDiffer
<1>4. th[t].call.item \in Item
  <2>1. Op(t) = "update" /\ th[t].call \in Request
    BY Here DEF Overwrites, Commit, AtPc, Shape
  <2> QED BY <2>1, ListAssumption DEF Op, Request
<1>5. Path(k, L)' /\ mem'[m_sz] = k
  BY <1>2, <1>3 DEF Inv, Whole, Path
<1>6. InHand(t)' = {}
  <2>1. th[t].node = none
    BY DEF Overwrites
  <2> QED BY <2>1, CommitThreads, ListAssumption
<1>7. ASSUME NEW u \in Thread \ {t}, SameBody(u), Fresh(u, k, L),
             th[u].rd \cap DOMAIN th[t].wr = {}
      PROVE  Fresh(u, k, L)'
  <2>1. item(L[i]) \notin th[u].rd
    BY <1>1, <1>7
  <2>2. \A j \in 1 .. k : item(L[j]) \in th[u].rd => mem'[item(L[j])] = mem[item(L[j])]
    BY <1>2, <1>3, <2>1
  <2> QED
    BY <1>2, <1>3, <1>7, <2>2, FreshStays
<1>8. \A n \in heap : mem'[item(n)] \in Item /\ mem'[next(n)] \in Node \cup {none}
  BY <1>2, <1>3, <1>4 DEF Inv, TypeOK
<1>9. \A u \in Thread \ {t} : \A j \in 1 .. k : L[j] \notin InHand(u)
  BY DEF Inv, Hands
<1> HIDE DEF InHand
<1>14. \A n \in heap \ {L[j] : j \in 1 .. k} : mem'[item(n)] = mem[item(n)]
  BY <1>2, <1>3
<1> QED
  BY <1>2, <1>5, <1>6, <1>7, <1>8, <1>9, <1>14, CommitKeeps

\* A fresh body that has read neither m_head nor m_sz has not begun to depend
\* on the list.
LEMMA NothingRead ==
  ASSUME NEW k \in Nat, NEW L \in [1 .. k -> Node], NEW u \in Thread,
         NEW k2, NEW L2, Fresh(u, k, L), SameBody(u),
         m_head \notin th[u].rd, m_sz \notin th[u].rd
  PROVE  Fresh(u, k2, L2)'
<1>1. \A i : ~Passed(u, L, i)
  BY DEF Passed
<1>2. \A i : ~Reached(u, L, i) /\ ~Found(u, L, i) /\ ~Missed(u, L, i)
             /\ ~Shrunk(u, k, L, i)
  BY <1>1 DEF Reached, Found, Missed, Shrunk
<1>3. ~Pushed(u, k, L)
  BY DEF Pushed
<1>4. ~Answers(u, k, L) /\ ~Prepends(u, k, L) /\ ~Overwrites(u, k, L)
      /\ ~Unlinks(u, k, L)
  BY <1>1, <1>2, <1>3 DEF Answers, Prepends, Overwrites, Unlinks
<1>5. th'[u].pc = th[u].pc /\ Op(u)' = Op(u)
  BY DEF SameBody, Op
<1>6. /\ th[u].pc \notin {"item", "next", "found", "absent", "push", "oldhead",
                          "unlink", "commit"}
      /\ ~(th[u].pc = "size" /\ Op(u) \in {"add", "update", "remove"})
  BY <1>1, <1>2, <1>3, <1>4 DEF Fresh
<1> QED
  BY <1>5, <1>6 DEF Fresh

\* The commit of an add() makes its node the first of the list.
LEMMA CommitPrepends ==
  ASSUME NEW k \in Nat, NEW L \in [1 .. k -> Node], NEW t \in Thread,
         Inv(k, L), Commit(t), Prepends(t, k, L),
         NEW n, n = th[t].node, NEW L2, L2 = Front(n, k, L)
  PROVE  Inv(k + 1, L2)'
<1>1. /\ n \in Node /\ DOMAIN th[t].wr = {m_head, m_sz, next(n)}
      /\ th[t].wr[m_head] = n /\ th[t].wr[next(n)] = mem[m_head]
      /\ th[t].wr[m_sz] = k + 1 /\ Op(t) \in {"add", "update"}
  BY DEF Prepends, Pushed
<1>2. /\ \A j \in 1 .. k : L[j] \in heap /\ L[j] \in Node
      /\ heap \subseteq Node /\ heap' = heap /\ th[t].pc = "commit"
  BY DEF Inv, Whole, TypeOK, Commit, AtPc
<1>3. InHand(t) = {n}
  BY <1>1, <1>2 DEF InHand
<1>4. n \in heap /\ \A j \in 1 .. k : L[j] # n
  BY <1>3 DEF Inv, Hands
<1>5. /\ mem'[m_head] = n /\ mem'[m_sz] = k + 1 /\ mem'[next(n)] = mem[m_head]
      /\ \A m \in Node : mem'[item(m)] = mem[item(m)]
      /\ \A m \in Node : m # n => mem'[next(m)] = mem[next(m)]
  BY <1>1, CommitMem, TVarsNamed, TVarsDiffer
<1>6. /\ k + 1 \in Nat /\ L2 \in [1 .. k + 1 -> Node]
      /\ L2[1] = n /\ \A j \in 1 .. k : L2[j + 1] = L[j]
      /\ \A j \in 2 .. k + 1 : L2[j] = L[j - 1]
  BY <1>1 DEF Front
<1>7. Path(k + 1, L2)'
  <2>1. \A i, j \in 1 .. k + 1 : L2[i] = L2[j] => i = j
    <3> SUFFICES ASSUME NEW i \in 1 .. k + 1, NEW j \in 1 .. k + 1, L2[i] = L2[j]
                 PROVE  i = j
      OBVIOUS
    <3>1. CASE i = 1 /\ j # 1
      BY <3>1, <1>4, <1>6
    <3>2. CASE i # 1 /\ j = 1
      BY <3>2, <1>4, <1>6
    <3>3. CASE i # 1 /\ j # 1
      <4>1. i - 1 \in 1 .. k /\ j - 1 \in 1 .. k /\ L[i - 1] = L[j - 1]
        BY <3>3, <1>6
      <4> QED BY <4>1 DEF Inv, Whole, Path
    <3> QED BY <3>1, <3>2, <3>3
  <2>2. mem'[next(n)] = IF 1 = k + 1 THEN none ELSE L2[2]
    <3>1. mem[m_head] = IF k = 0 THEN none ELSE L[1]
      BY DEF Inv, Whole, Path
    <3> QED BY <3>1, <1>5, <1>6
  <2>3. \A i \in 2 .. k + 1 : mem'[next(L2[i])] = IF i = k + 1 THEN none ELSE L2[i + 1]
    <3> SUFFICES ASSUME NEW i \in 2 .. k + 1
                 PROVE  mem'[next(L2[i])] = IF i = k + 1 THEN none ELSE L2[i + 1]
      OBVIOUS
    <3>1. i - 1 \in 1 .. k /\ L2[i] = L[i - 1] /\ (i # k + 1 => L2[i + 1] = L[i])
      BY <1>6
    <3>2. mem[next(L[i - 1])] = IF i - 1 = k THEN none ELSE L[(i - 1) + 1]
      BY <3>1 DEF Inv, Whole, Path
    <3>3. mem'[next(L[i - 1])] = mem[next(L[i - 1])]
      BY <3>1, <1>2, <1>4, <1>5
    <3> QED BY <3>1, <3>2, <3>3
  <2> QED
    BY <2>1, <2>2, <2>3, <1>5, <1>6, SMTT(30) DEF Path
<1>8. InHand(t)' = {}
  BY <1>1, CommitThreads
<1>9. ASSUME NEW u \in Thread \ {t}, SameBody(u), Fresh(u, k, L),
             th[u].rd \cap DOMAIN th[t].wr = {}
      PROVE  Fresh(u, k + 1, L2)'
  BY <1>1, <1>9, NothingRead
<1>10. \A m \in heap : mem'[item(m)] \in Item /\ mem'[next(m)] \in Node \cup {none}
  <2>1. mem[m_head] \in Node \cup {none}
    BY DEF Inv, Whole, Path
  <2> QED BY <2>1, <1>2, <1>5 DEF Inv, TypeOK
<1>11. ASSUME NEW j \in 1 .. k + 1 PROVE L2[j] \in heap
  <2>1. CASE j = 1
    BY <2>1, <1>4, <1>6
  <2>2. CASE j # 1
    <3>1. j \in 2 .. k + 1 /\ j - 1 \in 1 .. k
      BY <2>2
    <3> QED BY <3>1, <1>2, <1>6
  <2> QED BY <2>1, <2>2
<1>12. \A u \in Thread \ {t} : \A j \in 1 .. k + 1 : L2[j] \notin InHand(u)
  <2>1. \A u \in Thread \ {t} : n \notin InHand(u) /\ \A j \in 1 .. k : L[j] \notin InHand(u)
    BY <1>3 DEF Inv, Hands
  <2> QED BY <2>1, <1>6
<1> HIDE DEF InHand
<1>14. \A d \in heap \ {L[j] : j \in 1 .. k} : mem'[item(d)] = mem[item(d)]
  BY <1>2, <1>5
<1> QED
  BY <1>5, <1>6, <1>7, <1>8, <1>9, <1>10, <1>11, <1>12, <1>14, CommitKeeps, ZenonT(40)

\* What Unlinks says of the node it removes.
UnlinksAt(t, k, L, i) ==
  /\ Shrunk(t, k, L, i)
  /\ next(L[i]) \in th[t].rd
  /\ th[t].node = L[i]
  /\ DOMAIN th[t].wr = {m_sz, Link(t)}
  /\ th[t].wr[Link(t)] = mem[next(L[i])]

\* A fresh body that has read neither m_sz nor the link to the i-th node is
\* somewhere before that node.
LEMMA ReadBefore ==
  ASSUME NEW k \in Nat, NEW L \in [1 .. k -> Node], NEW u \in Thread,
         NEW i \in 2 .. k, next(L[i - 1]) \notin th[u].rd
  PROVE  /\ \A j \in 0 .. k : Passed(u, L, j) => j < i - 1
         /\ \A j \in 1 .. k : Reached(u, L, j) \/ Found(u, L, j) \/ Missed(u, L, j) => j < i
<1>1. \A j \in 0 .. k : Passed(u, L, j) => j < i - 1
  BY DEF Passed
<1>2. \A j \in 1 .. k : Reached(u, L, j) => j < i
  <2> SUFFICES ASSUME NEW j \in 1 .. k, Reached(u, L, j) PROVE j < i
    OBVIOUS
  <2>1. j - 1 \in 0 .. k /\ Passed(u, L, j - 1)
    BY DEF Reached
  <2>2. j - 1 < i - 1
    BY <1>1, <2>1
  <2> QED BY <2>2
<1> QED
  BY <1>1, <1>2 DEF Found, Missed

\* What such a body knows is true of the list without the i-th node as well.
LEMMA FreshBefore ==
  ASSUME NEW k \in Nat, NEW L \in [1 .. k -> Node], NEW u \in Thread,
         NEW i \in 2 .. k, NEW L2, L2 = Drop(k, L, i),
         next(L[i - 1]) \notin th[u].rd, m_sz \notin th[u].rd,
         SameBody(u), Fresh(u, k, L), mem'[m_head] = mem[m_head],
         \A j \in 1 .. k : mem'[item(L[j])] = mem[item(L[j])]
  PROVE  Fresh(u, k - 1, L2)'
<1> USE DEF SameBody
<1>1. /\ \A j \in 1 .. i - 1 : L2[j] = L[j] /\ j \in 1 .. k - 1 /\ j \in 1 .. k
      /\ k - 1 \in Nat
  BY DEF Drop
<1>2. Op(u)' = Op(u) /\ ~Passed(u, L, k)
  BY ReadBefore DEF Op
<1>3. \A j \in 0 .. k : Passed(u, L, j) => Passed(u, L2, j)'
  <2> SUFFICES ASSUME NEW j \in 0 .. k, Passed(u, L, j) PROVE Passed(u, L2, j)'
    OBVIOUS
  <2>1. j < i - 1
    BY ReadBefore
  <2> QED
    BY <2>1, <1>1 DEF Passed
<1>4. ASSUME NEW j \in 1 .. k, Reached(u, L, j)
      PROVE  Reached(u, L2, j)' /\ j \in 1 .. k - 1 /\ L2[j] = L[j]
             /\ mem'[item(L2[j])] = mem[item(L[j])]
  <2>1. j < i
    BY <1>4, ReadBefore
  <2>2. j \in 1 .. i - 1 /\ 1 \in 1 .. i - 1 /\ j - 1 \in 0 .. k
        /\ (j # 1 => j - 1 \in 1 .. i - 1)
    BY <2>1
  <2>3. L2[j] = L[j] /\ L2[1] = L[1] /\ (j # 1 => L2[j - 1] = L[j - 1])
    BY <2>2, <1>1
  <2>4. Passed(u, L2, j - 1)'
    BY <1>3, <1>4, <2>2 DEF Reached
  <2> QED
    BY <1>1, <1>4, <2>2, <2>3, <2>4 DEF Reached
<1>5. ASSUME NEW j \in 1 .. k
      PROVE  /\ Found(u, L, j) => /\ Found(u, L2, j)' /\ j \in 1 .. k - 1
                                  /\ L2[j] = L[j]
                                  /\ mem'[item(L2[j])] = mem[item(L[j])]
             /\ Missed(u, L, j) => Missed(u, L2, j)' /\ j \in 1 .. k - 1
  BY <1>4 DEF Found, Missed
<1>6. \A j : ~Shrunk(u, k, L, j)
  BY DEF Shrunk
<1>7. Pushed(u, k, L) => Pushed(u, k - 1, L2)'
  BY <1>2 DEF Pushed
<1>8. ~Prepends(u, k, L) /\ ~Unlinks(u, k, L)
  BY <1>6 DEF Prepends, Unlinks
<1>9. Answers(u, k, L) => Answers(u, k - 1, L2)'
  BY <1>2, <1>5 DEF Answers
<1>10. Overwrites(u, k, L) => Overwrites(u, k - 1, L2)'
  BY <1>2, <1>5 DEF Overwrites
<1>11. /\ th[u].pc = "item" => \E j \in 1 .. k - 1 : Reached(u, L2, j)'
       /\ th[u].pc = "next" => \E j \in 1 .. k - 1 : Missed(u, L2, j)'
       /\ th[u].pc = "found" => \E j \in 1 .. k - 1 : Found(u, L2, j)'
  BY <1>4, <1>5 DEF Fresh
<1>12. th[u].pc \notin {"absent", "push", "oldhead", "unlink"}
  BY <1>2, <1>6 DEF Fresh
<1>13. th[u].pc = "size" /\ Op(u) = "remove" => \E j \in 1 .. k - 1 : Found(u, L2, j)'
  BY <1>5 DEF Fresh
<1> QED
  BY <1>2, <1>7, <1>8, <1>9, <1>10, <1>11, <1>12, <1>13 DEF Fresh

\* The commit of a remove() takes its node out of the list.
LEMMA CommitUnlinks ==
  ASSUME NEW k \in Nat, NEW L \in [1 .. k -> Node], NEW t \in Thread,
         Inv(k, L), Commit(t), Op(t) = "remove",
         NEW i \in 1 .. k, UnlinksAt(t, k, L, i), NEW L2, L2 = Drop(k, L, i)
  PROVE  Inv(k - 1, L2)'
<1> DEFINE link == IF i = 1 THEN m_head ELSE next(L[i - 1])
           rest == IF i = k THEN none ELSE L[i + 1]
<1>1. /\ \A j \in 1 .. k : L[j] \in heap /\ L[j] \in Node /\ L[j] # none
      /\ heap \subseteq Node /\ heap' = heap
  BY ListAssumption DEF Inv, Whole, TypeOK, Commit
<1>2. /\ \A j, m \in 1 .. k : L[j] = L[m] => j = m
      /\ mem[m_head] = L[1]
      /\ \A j \in 1 .. k : mem[next(L[j])] = IF j = k THEN none ELSE L[j + 1]
  BY DEF Inv, Whole, Path
<1>3. /\ th[t].node = L[i] /\ th[t].wr[m_sz] = k - 1 /\ Link(t) = link
      /\ DOMAIN th[t].wr = {m_sz, link} /\ th[t].wr[link] = rest
  <2>1. th[t].pred = IF i = 1 THEN none ELSE L[i - 1]
    BY DEF UnlinksAt, Shrunk, Found, Reached
  <2>2. Link(t) = link
    BY <2>1, <1>1 DEF Link
  <2> HIDE DEF link
  <2> QED BY <2>2, <1>2 DEF UnlinksAt, Shrunk
<1>4. /\ mem'[m_sz] = k - 1 /\ mem'[link] = rest
      /\ \A n \in Node : mem'[item(n)] = mem[item(n)]
      /\ \A n \in Node : next(n) # link => mem'[next(n)] = mem[next(n)]
      /\ m_head # link => mem'[m_head] = mem[m_head]
  <2>1. link \in TVar /\ link # m_sz /\ \A n : item(n) # link
    BY <1>1, TVarsNamed, TVarsDiffer
  <2> HIDE DEF link, rest
  <2> QED BY <2>1, <1>3, CommitMem, TVarsNamed, TVarsDiffer
<1>5. /\ k - 1 \in Nat /\ L2 \in [1 .. k - 1 -> Node]
      /\ \A j \in 1 .. i - 1 : j \in 1 .. k /\ L2[j] = L[j]
      /\ \A j \in i .. k - 1 : j + 1 \in 1 .. k /\ L2[j] = L[j + 1]
  BY DEF Drop
<1>6. \A j \in 1 .. k - 1 :
        \E m \in 1 .. k : /\ L2[j] = L[m] /\ m # i
                          /\ m = IF j < i THEN j ELSE j + 1
  BY <1>5
<1>7. Path(k - 1, L2)'
  <2>1. \A j, m \in 1 .. k - 1 : L2[j] = L2[m] => j = m
    BY <1>2, <1>6
  <2>2. mem'[m_head] = IF k - 1 = 0 THEN none ELSE L2[1]
    <3>1. CASE i = 1
      BY <3>1, <1>4, <1>5
    <3>2. CASE i # 1
      BY <3>2, <1>2, <1>4, <1>5, TVarsDiffer
    <3> QED BY <3>1, <3>2
  <2>3. ASSUME NEW j \in 1 .. k - 1
        PROVE  mem'[next(L2[j])] = IF j = k - 1 THEN none ELSE L2[j + 1]
    <3>1. CASE j = i - 1
      <4>1. link = next(L[j]) /\ L2[j] = L[j] /\ i # 1
        BY <3>1, <1>5
      <4>2. (i = k <=> j = k - 1) /\ (i # k => L2[j + 1] = L[i + 1])
        BY <3>1, <1>5
      <4> QED BY <4>1, <4>2, <1>4
    <3>2. CASE j < i - 1
      <4>1. /\ L2[j] = L[j] /\ L2[j + 1] = L[j + 1] /\ j # k - 1 /\ j # k
            /\ j \in 1 .. k /\ i - 1 \in 1 .. k /\ i # 1
        BY <3>2, <1>5
      <4>2. next(L[j]) # link
        BY <3>2, <4>1, <1>2, TVarsDiffer
      <4> QED BY <4>1, <4>2, <1>1, <1>2, <1>4
    <3>3. CASE j >= i
      <4>1. /\ L2[j] = L[j + 1] /\ j + 1 \in 1 .. k
            /\ j # k - 1 => L2[j + 1] = L[(j + 1) + 1]
            /\ (j = k - 1 <=> j + 1 = k)
        BY <3>3, <1>5
      <4>2. next(L[j + 1]) # link
        BY <3>3, <4>1, <1>2, TVarsDiffer
      <4> HIDE DEF link
      <4> QED BY <4>1, <4>2, <1>1, <1>2, <1>4
    <3> QED BY <3>1, <3>2, <3>3
  <2> QED
    BY <2>1, <2>2, <2>3, <1>5 DEF Path
<1>8. InHand(t)' = {L[i]}
  BY <1>1, <1>3, CommitThreads
<1>9. ASSUME NEW u \in Thread \ {t}, SameBody(u), Fresh(u, k, L),
             th[u].rd \cap DOMAIN th[t].wr = {}
      PROVE  Fresh(u, k - 1, L2)'
  <2>1. m_sz \notin th[u].rd /\ link \notin th[u].rd
    BY <1>3, <1>9
  <2>2. CASE i = 1
    BY <2>1, <2>2, <1>9, NothingRead
  <2>3. CASE i # 1
    <3>1. i \in 2 .. k /\ next(L[i - 1]) \notin th[u].rd /\ mem'[m_head] = mem[m_head]
      BY <2>1, <2>3, <1>4, TVarsDiffer
    <3>2. \A j \in 1 .. k : mem'[item(L[j])] = mem[item(L[j])]
      BY <1>1, <1>4
    <3> QED
      BY <2>1, <3>1, <3>2, <1>9, FreshBefore
  <2> QED BY <2>2, <2>3
<1>10. \A n \in heap : mem'[item(n)] \in Item /\ mem'[next(n)] \in Node \cup {none}
  <2>1. rest \in Node \cup {none}
    BY <1>1
  <2> HIDE DEF rest, link
  <2> QED BY <2>1, <1>1, <1>4 DEF Inv, TypeOK
<1>11. \A j \in 1 .. k - 1 : L2[j] \in heap /\ L2[j] \notin InHand(t)'
  BY <1>1, <1>2, <1>6, <1>8
<1>12. \A u \in Thread \ {t} : /\ \A j \in 1 .. k - 1 : L2[j] \notin InHand(u)
                               /\ L[i] \notin InHand(u)
  <2>1. \A u \in Thread \ {t} : \A j \in 1 .. k : L[j] \notin InHand(u)
    BY DEF Inv, Hands
  <2> QED BY <2>1, <1>6
<1>13. InHand(t)' \subseteq heap /\ \A u \in Thread \ {t} : InHand(u) \cap InHand(t)' = {}
  BY <1>1, <1>8, <1>12
<1> HIDE DEF InHand
<1>14. \A n \in heap \ {L[j] : j \in 1 .. k} : mem'[item(n)] = mem[item(n)]
  BY <1>1, <1>4
<1> QED
  BY <1>4, <1>5, <1>7, <1>9, <1>10, <1>11, <1>12, <1>13, <1>14, CommitKeeps

----------------------------------------------------------------------------
(* The invariant is inductive.                                             *)

\* A commit is one of the four: a body that has become stale does not commit.
LEMMA CommitKeepsInv ==
  ASSUME NEW k \in Nat, NEW L \in [1 .. k -> Node], NEW t \in Thread,
         Inv(k, L), Commit(t)
  PROVE  IInv'
<1>1. \/ Answers(t, k, L) \/ Prepends(t, k, L)
      \/ Overwrites(t, k, L) \/ Unlinks(t, k, L)
  BY Here DEF Commit, Valid, AtPc, Fresh
<1>2. CASE Answers(t, k, L)
  BY <1>2, CommitAnswers DEF IInv
<1>3. CASE Overwrites(t, k, L)
  BY <1>3, CommitOverwrites DEF IInv
<1>4. CASE Prepends(t, k, L)
  <2>1. PICK n : n = th[t].node
    OBVIOUS
  <2>2. PICK L2 : L2 = Front(n, k, L)
    OBVIOUS
  <2>3. Inv(k + 1, L2)'
    BY <1>4, <2>1, <2>2, CommitPrepends
  <2>4. k + 1 \in Nat /\ L2 \in [1 .. k + 1 -> Node]
    BY <2>3 DEF Inv, Whole, Path
  <2> QED BY <2>3, <2>4 DEF IInv
<1>5. CASE Unlinks(t, k, L)
  <2>1. PICK i \in 1 .. k : UnlinksAt(t, k, L, i)
    BY <1>5 DEF Unlinks, UnlinksAt
  <2>2. PICK L2 : L2 = Drop(k, L, i)
    OBVIOUS
  <2>3. Inv(k - 1, L2)'
    BY <1>5, <2>1, <2>2, CommitUnlinks DEF Unlinks
  <2>4. k - 1 \in Nat /\ L2 \in [1 .. k - 1 -> Node]
    BY <2>3 DEF Inv, Whole, Path
  <2> QED BY <2>3, <2>4 DEF IInv
<1> QED BY <1>1, <1>2, <1>3, <1>4, <1>5

\* The empty list.
LEMMA InitInv == Init => IInv
<1> SUFFICES ASSUME Init PROVE IInv
  OBVIOUS
<1>1. PICK L : L = [i \in 1 .. 0 |-> none]
  OBVIOUS
<1>2. L \in [1 .. 0 -> Node]
  BY <1>1
<1>3. /\ DOMAIN th = Thread
      /\ \A t \in Thread : th[t] = Idle
  BY DEF Init
<1>4. /\ Idle.pc = "idle" /\ Idle.call = none /\ Idle.start = none /\ Idle.pred = none
      /\ Idle.curr = none /\ Idle.node = none /\ Idle.rd = {} /\ Idle.wr = << >>
      /\ Idle.stale \in BOOLEAN /\ Idle.ret = none
  BY DEF Idle
<1>5. \A t \in Thread : Shape(t) /\ Carry(t) /\ Fresh(t, 0, L)
  BY <1>3, <1>4, IdleFields DEF Shape, PC, Carry, Fresh
<1>6. TypeOK
  <2>1. undefined \in BOOLEAN
    BY Zenon DEF Init
  <2>2. /\ DOMAIN mem = TVar /\ mem[m_sz] = 0 /\ heap = {}
        /\ calls \in 0 .. MaxCalls
    BY TVarsNamed, ListAssumption DEF Init
  <2> QED
    BY <1>3, <1>4, <2>1, <2>2 DEF TypeOK
<1>7. Whole(0, L)
  BY <1>2, TVarsNamed, TVarsDiffer DEF Whole, Path, Init
<1>8. Hands(0, L)
  BY <1>3, <1>4, ListAssumption DEF Hands, InHand
<1> QED
  BY <1>2, <1>3, <1>5, <1>6, <1>7, <1>8 DEF IInv, Inv

\* Only a commit changes the list.
LEMMA BodyKeepsList ==
  ASSUME NEW k \in Nat, NEW L \in [1 .. k -> Node], Inv(k, L), [Next]_vars,
         \A t \in Thread : ~Commit(t)
  PROVE  Inv(k, L)'
<1>1. CASE UNCHANGED vars \/ Finished
  <2>1. UNCHANGED <<mem, heap, th, calls>> /\ undefined' \in BOOLEAN
    BY <1>1 DEF vars, Finished, Inv, TypeOK
  <2> QED BY <2>1, RestKeepsInv
<1>2. ASSUME NEW t \in Thread, Call(t) \/ Retry(t) \/ Return(t)
      PROVE  Inv(k, L)'
  BY <1>2, CallKeepsInv, RetryKeepsInv, ReturnKeepsInv
<1>3. ASSUME NEW t \in Thread, Body(t) PROVE Inv(k, L)'
  <2>1. CASE Push(t) \/ ReadHead(t) \/ ReadItem(t) \/ ReadNext(t)
    BY <2>1, PushKeepsInv, ReadHeadKeepsInv, ReadItemKeepsInv, ReadNextKeepsInv
  <2>2. CASE GetFound(t) \/ UpdateFound(t) \/ RemoveFound(t)
    BY <2>2, GetFoundKeepsInv, UpdateFoundKeepsInv, RemoveFoundKeepsInv
  <2>3. CASE Absent(t) \/ NestedAdd(t) \/ NestedPush(t) \/ AllocFails(t)
    BY <2>3, AbsentKeepsInv, NestedAddKeepsInv, NestedPushKeepsInv, AllocFailsKeepsInv
  <2>4. CASE SizeOf(t) \/ Grow(t) \/ Shrink(t)
    BY <2>4, SizeOfKeepsInv, GrowKeepsInv, ShrinkKeepsInv
  <2>5. CASE ReadOldHead(t) \/ Unlink(t)
    BY <2>5, ReadOldHeadKeepsInv, UnlinkKeepsInv
  <2>6. CASE UseDead(t)
    <3>1. UNCHANGED <<mem, heap, th, calls>> /\ undefined' \in BOOLEAN
      BY <2>6 DEF UseDead
    <3> QED BY <3>1, RestKeepsInv
  <2> QED BY <1>3, <2>1, <2>2, <2>3, <2>4, <2>5, <2>6 DEF Body
<1> QED BY <1>1, <1>2, <1>3 DEF Next

\* The invariant is inductive.
LEMMA NextInv == IInv /\ [Next]_vars => IInv'
<1> SUFFICES ASSUME IInv, [Next]_vars PROVE IInv'
  OBVIOUS
<1>1. PICK k \in Nat : \E L \in [1 .. k -> Node] : Inv(k, L)
  BY DEF IInv
<1>2. PICK L \in [1 .. k -> Node] : Inv(k, L)
  BY <1>1
<1>3. CASE \E t \in Thread : Commit(t)
  BY <1>2, <1>3, CommitKeepsInv
<1>4. CASE \A t \in Thread : ~Commit(t)
  BY <1>2, <1>4, BodyKeepsList DEF IInv
<1> QED BY <1>3, <1>4

\* The invariant holds of every state.
LEMMA AlwaysInv == Spec => []IInv
  BY InitInv, NextInv, PTL DEF Spec

\* Every variable of the list keeps its type.
THEOREM TypeCorrect == Spec => []TypeOK
<1>1. IInv => TypeOK
  BY DEF IInv, Inv
<1> QED BY <1>1, AlwaysInv, PTL

----------------------------------------------------------------------------
(* Chain is the list.                                                      *)

\* A nonempty set of natural numbers has a least element.
LEMMA LeastNat ==
  ASSUME NEW T, T \subseteq Nat, T # {}
  PROVE  \E x \in T : \A y \in T : x <= y
<1> DEFINE R == {p \in Nat \X Nat : p[1] < p[2]}
<1>1. IsWellFoundedOn(R, Nat)
  BY NatLessThanWellFounded, Zenon DEF OpToRel
<1>2. \A x, y \in Nat : <<y, x>> \notin R => x <= y
  OBVIOUS
<1> HIDE DEF R
<1>3. \E x \in T : \A y \in T : ~(<<y, x>> \in R)
  BY <1>1, WFMin, Zenon
<1> QED
  BY <1>2, <1>3

\* The nodes of a list are different, so there are at most as many as Node has.
LEMMA ListFits ==
  ASSUME NEW k \in Nat, NEW L \in [1 .. k -> Node],
         \A i, j \in 1 .. k : L[i] = L[j] => i = j
  PROVE  /\ Cardinality(Node) \in Nat /\ k <= Cardinality(Node)
         /\ Cardinality({L[i] : i \in 1 .. k}) = k
<1>1. IsFiniteSet(Node) /\ Cardinality(Node) \in Nat
  BY ListAssumption, FS_CardinalityType
<1>2. IsFiniteSet(1 .. k) /\ Cardinality(1 .. k) = k
  BY FS_Interval
<1>3. L \in Injection(1 .. k, Node)
  BY DEF Injection, IsInjective
<1>4. k <= Cardinality(Node)
  BY <1>1, <1>2, <1>3, FS_Injection
<1> DEFINE S == {L[i] : i \in 1 .. k}
<1>5. L \in Bijection(1 .. k, S)
  BY DEF Bijection, Injection, IsInjective, Surjection
<1>6. Cardinality(S) = Cardinality(1 .. k)
  <2> HIDE DEF S
  <2>1. ExistsBijection(1 .. k, S)
    BY <1>5 DEF ExistsBijection
  <2> QED BY <1>2, <2>1, FS_Bijection
<1> QED BY <1>1, <1>2, <1>4, <1>6

\* The i-th node behind m_head is the i-th node of the list.
LEMMA ChainIsList ==
  ASSUME NEW k \in Nat, NEW L \in [1 .. k -> Node], Path(k, L)
  PROVE  /\ \A i \in 0 .. Cardinality(Node) : Chain[i] = IF i < k THEN L[i + 1] ELSE none
         /\ DOMAIN Chain = 0 .. Cardinality(Node)
         /\ Cardinality(Node) \in Nat /\ k <= Cardinality(Node)
         /\ Linked = {L[i] : i \in 1 .. k} /\ Cardinality(Linked) = k
<1> DEFINE C == Cardinality(Node)
           Step(g) == [i \in 0 .. C |->
                         IF i = 0 THEN mem[m_head]
                         ELSE IF g[i - 1] = none THEN none ELSE mem[next(g[i - 1])]]
           f == [i \in 0 .. C |-> IF i < k THEN L[i + 1] ELSE none]
<1>1. C \in Nat /\ k <= C /\ Cardinality({L[i] : i \in 1 .. k}) = k
  BY ListFits DEF Path
<1>2. \A i \in 1 .. k : L[i] \in Node /\ L[i] # none
  BY ListAssumption
<1> HIDE DEF C
<1>3. f = Step(f)
  <2>1. ASSUME NEW i \in 0 .. C PROVE f[i] = Step(f)[i]
    <3>1. CASE i = 0
      BY <3>1, <1>1 DEF Path
    <3>2. CASE i # 0 /\ i <= k
      <4>1. i - 1 \in 0 .. C /\ i \in 1 .. k /\ f[i - 1] = L[i]
        BY <3>2, <1>1
      <4>2. Step(f)[i] = mem[next(L[i])]
        BY <4>1, <3>2, <1>2
      <4> QED BY <4>1, <4>2, <3>2 DEF Path
    <3>3. CASE i > k
      <4>1. i - 1 \in 0 .. C /\ f[i - 1] = none /\ i # 0
        BY <3>3, <1>1
      <4> QED BY <4>1, <3>3
    <3> QED BY <3>1, <3>2, <3>3, <1>1
  <2> QED BY <2>1
<1>4. Chain = Step(Chain)
  <2>1. Chain = CHOOSE g : g = Step(g)
    BY DEF Chain, C
  <2> HIDE DEF Step, f
  <2> QED BY <2>1, <1>3
<1>5. ASSUME NEW i \in 0 .. C PROVE Chain[i] = f[i]
  <2> DEFINE T == {j \in 0 .. C : Chain[j] # f[j]}
  <2>1. SUFFICES ASSUME T # {} PROVE FALSE
    BY <1>5
  <2>2. PICK j \in T : \A m \in T : j <= m
    <3>1. T \subseteq Nat
      BY <1>1
    <3> HIDE DEF T
    <3> QED BY <2>1, <3>1, LeastNat
  <2>3. j = 0 \/ (j - 1 \in 0 .. C /\ Chain[j - 1] = f[j - 1])
    <3> HIDE DEF f
    <3>1. j \in 0 .. C /\ \A m \in 0 .. C : Chain[m] # f[m] => j <= m
      BY <2>2
    <3>2. j # 0 => j - 1 \in 0 .. C /\ ~(j <= j - 1)
      BY <3>1, <1>1
    <3> QED BY <3>1, <3>2
  <2>4. Step(Chain)[j] = Step(f)[j]
    <3> HIDE DEF f
    <3>1. j \in 0 .. C
      BY <2>2
    <3>2. CASE j = 0
      BY <3>1, <3>2
    <3>3. CASE j # 0
      <4>1. Chain[j - 1] = f[j - 1]
        BY <3>3, <2>3
      <4> QED BY <3>1, <3>3, <4>1
    <3> QED BY <3>2, <3>3
  <2> HIDE DEF Step, f
  <2> QED BY <2>2, <2>4, <1>3, <1>4
<1>6. DOMAIN Chain = 0 .. C
  BY <1>4
<1>7. Linked = {L[i] : i \in 1 .. k}
  <2>1. \A i \in 1 .. k : i - 1 \in 0 .. C /\ Chain[i - 1] = L[i]
    BY <1>1, <1>5
  <2>2. \A i \in 0 .. C : Chain[i] = none \/ (i + 1 \in 1 .. k /\ Chain[i] = L[i + 1])
    BY <1>1, <1>5
  <2>3. ASSUME NEW n PROVE n \in Linked <=> n \in {L[i] : i \in 1 .. k}
    <3>1. n \in Linked <=> n # none /\ \E i \in 0 .. C : n = Chain[i]
      BY <1>6 DEF Linked
    <3> QED BY <2>1, <2>2, <1>2, <3>1
  <2> QED BY <2>3
<1> QED BY <1>1, <1>5, <1>6, <1>7 DEF C

----------------------------------------------------------------------------
(* The list stays a list, and its nodes have one owner.                    *)

\* The committed list ends, has m_sz nodes and all of them are allocated,
\* however the transactions of linked_list.h interleave.
THEOREM ListStaysIntact == Spec => []ListIntact
<1>1. IInv => ListIntact
  <2> SUFFICES ASSUME NEW k \in Nat, NEW L \in [1 .. k -> Node], Inv(k, L)
               PROVE  ListIntact
    BY DEF IInv
  <2>1. Path(k, L) /\ mem[m_sz] = k /\ \A i \in 1 .. k : L[i] \in heap
    BY DEF Inv, Whole
  <2>2. /\ \A i \in 0 .. Cardinality(Node) :
             Chain[i] = IF i < k THEN L[i + 1] ELSE none
        /\ Cardinality(Node) \in Nat /\ k <= Cardinality(Node)
        /\ Linked = {L[i] : i \in 1 .. k} /\ Cardinality(Linked) = k
    BY <2>1, ChainIsList
  <2> QED
    BY <2>1, <2>2 DEF ListIntact
<1> QED BY <1>1, AlwaysInv, PTL

\* A node that remove() is about to delete, or that add() has not published, is
\* allocated, out of the list and in the hands of one thread only.
THEOREM NodesHaveOneOwner == Spec => []OneOwner
<1>1. IInv => OneOwner
  <2> SUFFICES ASSUME NEW k \in Nat, NEW L \in [1 .. k -> Node], Inv(k, L)
               PROVE  OneOwner
    BY DEF IInv
  <2>1. Linked = {L[i] : i \in 1 .. k}
    BY ChainIsList DEF Inv, Whole
  <2> HIDE DEF InHand
  <2> QED
    BY <2>1 DEF OneOwner, Inv, Hands
<1> QED BY <1>1, AlwaysInv, PTL

----------------------------------------------------------------------------
(* Every operation takes effect in one step: the refinement of AtomicList. *)

\* The items of the list, in its order.
Items(k, L) == [i \in 1 .. k |-> mem[item(L[i])]]

AbsList == [i \in 1 .. Cardinality(Linked) |-> mem[item(Chain[i - 1])]]
AbsPhase == [t \in Thread |-> IF th[t].pc = "idle" THEN "idle"
                              ELSE IF th[t].pc = "return" THEN "done" ELSE "called"]
AbsReq == [t \in Thread |-> th[t].call]
AbsAnswer == [t \in Thread |-> IF th[t].pc = "return" THEN th[t].ret ELSE none]

\* The abstract list consists of the items of the list.
ListIsAbs ==
  \A k \in Nat : \A L \in [1 .. k -> Node] : Path(k, L) => AbsList = Items(k, L)

\* The abstract list is the items along the path.
LEMMA AbsListIs == ListIsAbs
<1> SUFFICES ASSUME NEW k \in Nat, NEW L \in [1 .. k -> Node], Path(k, L)
             PROVE  AbsList = Items(k, L)
  BY DEF ListIsAbs
<1>1. /\ \A i \in 0 .. Cardinality(Node) : Chain[i] = IF i < k THEN L[i + 1] ELSE none
      /\ Cardinality(Node) \in Nat /\ k <= Cardinality(Node) /\ Cardinality(Linked) = k
  BY ChainIsList
<1>2. \A i \in 1 .. k : Chain[i - 1] = L[i]
  BY <1>1
<1> QED
  BY <1>1, <1>2 DEF AbsList, Items

\* The same, of the state after a step.
LEMMA AbsListIsNext ==
  ASSUME NEW k \in Nat, NEW L \in [1 .. k -> Node], Path(k, L)'
  PROVE  AbsList' = Items(k, L)'
<1>1. ListIsAbs'
  BY AbsListIs, PTL
<1> QED BY <1>1 DEF ListIsAbs

\* What AtomicList says, of a sequence s that is not a variable.
MatchesIn(s, key) == {i \in DOMAIN s : s[i].key = key}
FirstIn(s, key) ==
  CHOOSE i \in MatchesIn(s, key) : \A j \in MatchesIn(s, key) : i <= j
EffectOn(s, r, newList, a) ==
  \/ /\ r.op = "add"
     /\ newList = <<r.item>> \o s /\ a = none
  \/ /\ r.op = "remove"
     /\ newList = IF MatchesIn(s, r.key) = {} THEN s
                  ELSE SubSeq(s, 1, FirstIn(s, r.key) - 1)
                         \o SubSeq(s, FirstIn(s, r.key) + 1, Len(s))
     /\ a = <<"removed", MatchesIn(s, r.key) # {}>>
  \/ /\ r.op = "get"
     /\ newList = s
     /\ a = <<"item", IF MatchesIn(s, r.key) = {} THEN none
                      ELSE s[FirstIn(s, r.key)]>>
  \/ /\ r.op = "update"
     /\ newList = IF MatchesIn(s, r.key) = {} THEN <<r.item>> \o s
                  ELSE [s EXCEPT ![FirstIn(s, r.key)] = r.item]
     /\ a = none
  \/ /\ r.op = "size"
     /\ newList = s /\ a = <<"size", Len(s)>>

\* EffectOn is what AtomicList calls the effect of a request.
LEMMA EffectIsEffect ==
  ASSUME NEW r, NEW newList, NEW a, EffectOn(AbsList, r, newList, a)
  PROVE  Abs!Effect(r, newList, a)
<1>1. \A key : Abs!Matches(key) = MatchesIn(AbsList, key)
  BY DEF Abs!Matches, MatchesIn, AbsList
<1>2. \A key : Abs!First(key) = FirstIn(AbsList, key)
  BY <1>1 DEF Abs!First, FirstIn
<1>3. \A i : Abs!Without(i) = SubSeq(AbsList, 1, i - 1) \o SubSeq(AbsList, i + 1, Len(AbsList))
  BY DEF Abs!Without, AbsList
<1> HIDE DEF AbsList
<1> QED
  BY <1>1, <1>2, <1>3 DEF EffectOn, Abs!Effect, AbsList

\* The items of a list are a sequence of items.
LEMMA ItemsSeq ==
  ASSUME NEW k \in Nat, NEW L \in [1 .. k -> Node], Inv(k, L)
  PROVE  /\ Items(k, L) \in Seq(Item) /\ Len(Items(k, L)) = k
         /\ DOMAIN Items(k, L) = 1 .. k
         /\ \A i \in 1 .. k : Items(k, L)[i] = mem[item(L[i])]
<1>1. \A i \in 1 .. k : mem[item(L[i])] \in Item
  BY DEF Inv, Whole, TypeOK
<1>2. Items(k, L) \in [1 .. k -> Item]
  BY <1>1 DEF Items
<1> QED
  BY <1>2 DEF Items

\* A search that has passed the whole list has no match in it; one that has
\* found the i-th node has found the first match.
LEMMA SearchIsRight ==
  ASSUME NEW k \in Nat, NEW L \in [1 .. k -> Node], NEW t \in Thread, Inv(k, L)
  PROVE  /\ Passed(t, L, k) => MatchesIn(Items(k, L), th[t].call.key) = {}
         /\ \A i \in 1 .. k : Found(t, L, i) =>
              /\ MatchesIn(Items(k, L), th[t].call.key) # {}
              /\ FirstIn(Items(k, L), th[t].call.key) = i
<1> DEFINE key == th[t].call.key
           M == MatchesIn(Items(k, L), key)
<1>1. \A i : i \in M <=> i \in 1 .. k /\ mem[item(L[i])].key = key
  BY DEF MatchesIn, Items
<1> HIDE DEF M
<1>2. Passed(t, L, k) => M = {}
  BY <1>1 DEF Passed
<1>3. ASSUME NEW i \in 1 .. k, Found(t, L, i)
      PROVE  M # {} /\ FirstIn(Items(k, L), key) = i
  <2>1. i \in M
    BY <1>1, <1>3 DEF Found
  <2>2. \A j \in M : i <= j
    <3> SUFFICES ASSUME NEW j \in M, j < i PROVE FALSE
      BY <1>1
    <3>1. j \in 1 .. i - 1
      BY <1>1
    <3> QED
      BY <3>1, <1>1, <1>3 DEF Found, Reached, Passed
  <2>3. \A j \in M : (\A m \in M : j <= m) => j = i
    BY <2>1, <2>2, <1>1
  <2>4. FirstIn(Items(k, L), key) = CHOOSE j \in M : \A m \in M : j <= m
    BY DEF FirstIn, M
  <2> QED BY <2>1, <2>2, <2>3, <2>4
<1> QED BY <1>2, <1>3 DEF M

\* Sequences with an element in front, and without one.
LEMMA ConsIs ==
  ASSUME NEW S, NEW s \in Seq(S), NEW e \in S, NEW q \in [1 .. Len(s) + 1 -> S],
         q[1] = e, \A j \in 1 .. Len(s) : q[j + 1] = s[j]
  PROVE  q = <<e>> \o s
<1>1. q \in Seq(S) /\ Len(q) = Len(s) + 1 /\ Len(s) \in Nat
  OBVIOUS
<1>2. <<e>> \in Seq(S) /\ Len(<<e>>) = 1 /\ <<e>>[1] = e
  OBVIOUS
<1>3. /\ <<e>> \o s \in Seq(S) /\ Len(<<e>> \o s) = 1 + Len(s)
      /\ \A i \in 1 .. 1 + Len(s) :
           (<<e>> \o s)[i] = IF i <= 1 THEN <<e>>[i] ELSE s[i - 1]
  BY <1>2, ConcatProperties
<1>4. ASSUME NEW i \in 1 .. Len(q) PROVE q[i] = (<<e>> \o s)[i]
  <2>1. CASE i = 1
    BY <2>1, <1>1, <1>2, <1>3
  <2>2. CASE i # 1
    <3>1. i - 1 \in 1 .. Len(s) /\ (i - 1) + 1 = i
      BY <2>2, <1>1
    <3>2. q[(i - 1) + 1] = s[i - 1]
      BY <3>1
    <3>3. i \in 1 .. 1 + Len(s) /\ ~(i <= 1)
      BY <2>2, <1>1
    <3>4. (<<e>> \o s)[i] = s[i - 1]
      BY <3>3, <1>3
    <3> QED BY <3>1, <3>2, <3>4
  <2> QED BY <2>1, <2>2
<1> QED BY <1>1, <1>3, <1>4, SeqEqual

\* Taking the i-th element out of a sequence.
LEMMA DropIs ==
  ASSUME NEW S, NEW s \in Seq(S), NEW i \in 1 .. Len(s),
         NEW q \in [1 .. Len(s) - 1 -> S],
         \A j \in 1 .. Len(s) - 1 : j < i => q[j] = s[j],
         \A j \in 1 .. Len(s) - 1 : ~(j < i) => q[j] = s[j + 1]
  PROVE  q = SubSeq(s, 1, i - 1) \o SubSeq(s, i + 1, Len(s))
<1> DEFINE k == Len(s)
           a == SubSeq(s, 1, i - 1)
           b == SubSeq(s, i + 1, k)
<1>1. k \in Nat /\ \A j \in 1 .. k : s[j] \in S
  OBVIOUS
<1>2. q \in Seq(S) /\ Len(q) = k - 1
  BY <1>1
<1>3. /\ a \in Seq(S) /\ Len(a) = i - 1
      /\ \A j \in 1 .. i - 1 : a[j] = s[j]
  BY <1>1, SubSeqProperties
<1>4. /\ b \in Seq(S) /\ Len(b) = k - i
      /\ \A j \in 1 .. k - i : b[j] = s[i + j]
  BY <1>1, SubSeqProperties
<1> HIDE DEF a, b, k
<1>5. /\ a \o b \in Seq(S) /\ Len(a \o b) = Len(a) + Len(b)
      /\ \A j \in 1 .. Len(a) + Len(b) :
           (a \o b)[j] = IF j <= Len(a) THEN a[j] ELSE b[j - Len(a)]
  BY <1>3, <1>4, ConcatProperties
<1>6. Len(a \o b) = k - 1 /\ \A j \in 1 .. k - 1 :
        (a \o b)[j] = IF j <= i - 1 THEN a[j] ELSE b[j - (i - 1)]
  BY <1>1, <1>3, <1>4, <1>5 DEF k
<1>7. ASSUME NEW j \in 1 .. k - 1 PROVE q[j] = (a \o b)[j]
  <2>3. i \in Int /\ j \in Int /\ k \in Int
    BY <1>1
  <2>1. CASE j < i
    BY <2>1, <1>1, <1>3, <1>6 DEF k
  <2>2. CASE ~(j < i)
    <3>1. j - (i - 1) \in 1 .. k - i /\ i + (j - (i - 1)) = j + 1
      BY <2>2, <1>1 DEF k
    <3>2. (a \o b)[j] = b[j - (i - 1)] /\ b[j - (i - 1)] = s[i + (j - (i - 1))]
      BY <2>2, <3>1, <1>4, <1>6, <2>3
    <3> QED BY <2>2, <3>1, <3>2, <2>3 DEF k
  <2> QED BY <2>1, <2>2
<1> QED BY <1>2, <1>5, <1>6, <1>7, SeqEqual DEF a, b, k

\* What the list is after a step that leads to Inv(k, L).
LEMMA ItemsNext ==
  ASSUME NEW k \in Nat, NEW L \in [1 .. k -> Node], Inv(k, L)'
  PROVE  AbsList' = [i \in 1 .. k |-> mem'[item(L[i])]]
<1>1. Path(k, L)'
  BY DEF Inv, Whole
<1> QED BY <1>1, AbsListIsNext DEF Items

\* The answer of a body that has staged nothing is the one the list would give.
LEMMA AnswersEffect ==
  ASSUME NEW k \in Nat, NEW L \in [1 .. k -> Node], NEW t \in Thread,
         Inv(k, L), Commit(t), Answers(t, k, L), Op(t) = th[t].call.op
  PROVE  EffectOn(Items(k, L), th[t].call, AbsList', th[t].ret)
<1>1. AbsList' = Items(k, L)
  <2>1. \A i \in 1 .. k : mem'[item(L[i])] = mem[item(L[i])]
    BY CommitMem, TVarsNamed DEF Answers
  <2> QED BY <2>1, CommitAnswers, ItemsNext DEF Items
<1>2. CASE Op(t) = "size" /\ th[t].ret = <<"size", k>>
  BY <1>1, <1>2, ItemsSeq DEF EffectOn
<1>3. CASE Op(t) = "get" /\ Passed(t, L, k) /\ th[t].ret = <<"item", none>>
  BY <1>1, <1>3, SearchIsRight DEF EffectOn
<1>4. CASE Op(t) = "remove" /\ Passed(t, L, k) /\ th[t].ret = <<"removed", FALSE>>
  <2>1. MatchesIn(Items(k, L), th[t].call.key) = {}
    BY <1>4, SearchIsRight
  <2> QED BY <1>1, <1>4, <2>1 DEF EffectOn
<1>5. ASSUME Op(t) = "get", NEW i \in 1 .. k, Found(t, L, i),
             th[t].ret = <<"item", mem[item(L[i])]>>
      PROVE  EffectOn(Items(k, L), th[t].call, AbsList', th[t].ret)
  <2>1. /\ MatchesIn(Items(k, L), th[t].call.key) # {}
        /\ FirstIn(Items(k, L), th[t].call.key) = i
        /\ Items(k, L)[i] = mem[item(L[i])]
    BY <1>5, SearchIsRight, ItemsSeq
  <2> QED BY <1>1, <1>5, <2>1 DEF EffectOn
<1> QED BY <1>2, <1>3, <1>4, <1>5 DEF Answers

\* An update() changes the first item with its key.
LEMMA OverwritesEffect ==
  ASSUME NEW k \in Nat, NEW L \in [1 .. k -> Node], NEW t \in Thread,
         Inv(k, L), Commit(t), Overwrites(t, k, L), Op(t) = th[t].call.op
  PROVE  EffectOn(Items(k, L), th[t].call, AbsList', th[t].ret)
<1>1. PICK i \in 1 .. k : /\ Found(t, L, i)
                          /\ DOMAIN th[t].wr = {item(L[i])}
                          /\ th[t].wr[item(L[i])] = th[t].call.item
  BY DEF Overwrites
<1>2. /\ \A j \in 1 .. k : j # i => mem'[item(L[j])] = mem[item(L[j])]
      /\ mem'[item(L[i])] = th[t].call.item
  <2>1. \A j \in 1 .. k : j # i => item(L[j]) # item(L[i])
    BY TVarsDiffer DEF Inv, Whole, Path
  <2> QED BY <2>1, <1>1, CommitMem, TVarsNamed
<1>3. AbsList' = [Items(k, L) EXCEPT ![i] = th[t].call.item]
  <2>1. AbsList' = [j \in 1 .. k |-> mem'[item(L[j])]]
    BY CommitOverwrites, ItemsNext
  <2> QED BY <2>1, <1>2 DEF Items
<1>4. /\ MatchesIn(Items(k, L), th[t].call.key) # {}
      /\ FirstIn(Items(k, L), th[t].call.key) = i
  BY <1>1, SearchIsRight
<1>5. th[t].ret = none /\ th[t].call.op = "update"
  BY DEF Overwrites
<1> QED BY <1>3, <1>4, <1>5 DEF EffectOn

\* An add(), or an update() that has found no match, puts its item in front.
LEMMA PrependsEffect ==
  ASSUME NEW k \in Nat, NEW L \in [1 .. k -> Node], NEW t \in Thread,
         Inv(k, L), Commit(t), Prepends(t, k, L), Op(t) = th[t].call.op
  PROVE  EffectOn(Items(k, L), th[t].call, AbsList', th[t].ret)
<1>1. PICK n : n = th[t].node
  OBVIOUS
<1>2. PICK L2 : L2 = Front(n, k, L)
  OBVIOUS
<1>3. Inv(k + 1, L2)' /\ k + 1 \in Nat
  BY <1>1, <1>2, CommitPrepends
<1>4. /\ n \in Node /\ DOMAIN th[t].wr = {m_head, m_sz, next(n)}
      /\ th[t].ret = none /\ Op(t) \in {"add", "update"}
      /\ Op(t) = "update" => Passed(t, L, k)
  BY <1>1 DEF Prepends, Pushed
<1>5. /\ L2 \in [1 .. k + 1 -> Node] /\ L2[1] = n
      /\ \A j \in 1 .. k : j + 1 \in 1 .. k + 1 /\ L2[j + 1] = L[j]
  BY <1>2, <1>4 DEF Front
<1>6. \A m \in Node : mem'[item(m)] = mem[item(m)]
  BY <1>4, CommitMem, TVarsNamed, TVarsDiffer
<1>7. mem[item(n)] = th[t].call.item
  BY <1>1, <1>4, Here DEF Carry, Commit, AtPc
<1>8. AbsList' = <<th[t].call.item>> \o Items(k, L)
  <2> DEFINE q == [j \in 1 .. k + 1 |-> mem'[item(L2[j])]]
  <2>1. AbsList' = q
    BY <1>3, <1>5, ItemsNext
  <2>2. q \in [1 .. k + 1 -> Item]
    <3>1. \A j \in 1 .. k + 1 : mem'[item(L2[j])] \in Item
      BY <1>3 DEF Inv, Whole, TypeOK
    <3> QED BY <3>1
  <2>3. q[1] = th[t].call.item /\ th[t].call.item \in Item
    BY <1>4, <1>5, <1>6, <1>7, <2>2
  <2>4. \A j \in 1 .. k : q[j + 1] = Items(k, L)[j]
    BY <1>5, <1>6, ItemsSeq
  <2>5. Items(k, L) \in Seq(Item) /\ Len(Items(k, L)) = k
    BY ItemsSeq
  <2> HIDE DEF q
  <2> QED BY <2>1, <2>2, <2>3, <2>4, <2>5, ConsIs
<1>9. CASE Op(t) = "add"
  BY <1>4, <1>8, <1>9 DEF EffectOn
<1>10. CASE Op(t) = "update"
  <2>1. MatchesIn(Items(k, L), th[t].call.key) = {}
    BY <1>4, <1>10, SearchIsRight
  <2> QED BY <1>4, <1>8, <1>10, <2>1 DEF EffectOn
<1> QED BY <1>4, <1>9, <1>10

\* A remove() takes the first item with its key out of the list.
LEMMA UnlinksEffect ==
  ASSUME NEW k \in Nat, NEW L \in [1 .. k -> Node], NEW t \in Thread,
         Inv(k, L), Commit(t), Unlinks(t, k, L), Op(t) = th[t].call.op
  PROVE  EffectOn(Items(k, L), th[t].call, AbsList', th[t].ret)
<1>1. PICK i \in 1 .. k : UnlinksAt(t, k, L, i)
  BY DEF Unlinks, UnlinksAt
<1>2. PICK L2 : L2 = Drop(k, L, i)
  OBVIOUS
<1>3. Inv(k - 1, L2)' /\ k - 1 \in Nat /\ Op(t) = "remove"
  BY <1>1, <1>2, CommitUnlinks DEF Unlinks
<1>4. /\ L2 \in [1 .. k - 1 -> Node]
      /\ \A j \in 1 .. k - 1 : L2[j] = IF j < i THEN L[j] ELSE L[j + 1]
  BY <1>2 DEF Drop
<1>5. \A n \in Node : mem'[item(n)] = mem[item(n)]
  BY <1>1, CommitMem, TVarsNamed, TVarsDiffer DEF UnlinksAt, Link
<1>6. /\ MatchesIn(Items(k, L), th[t].call.key) # {}
      /\ FirstIn(Items(k, L), th[t].call.key) = i
      /\ th[t].ret = <<"removed", TRUE>>
  BY <1>1, SearchIsRight DEF UnlinksAt, Shrunk
<1>7. Items(k, L) \in Seq(Item) /\ Len(Items(k, L)) = k
      /\ \A j \in 1 .. k : Items(k, L)[j] = mem[item(L[j])]
  BY ItemsSeq
<1>8. AbsList' = SubSeq(Items(k, L), 1, i - 1) \o SubSeq(Items(k, L), i + 1, k)
  <2> DEFINE q == [j \in 1 .. k - 1 |-> mem'[item(L2[j])]]
  <2>1. AbsList' = q
    BY <1>3, <1>4, ItemsNext
  <2>2. q \in [1 .. k - 1 -> Item]
    <3>1. \A j \in 1 .. k - 1 : mem'[item(L2[j])] \in Item
      BY <1>3 DEF Inv, Whole, TypeOK
    <3> QED BY <3>1
  <2>3. ASSUME NEW j \in 1 .. k - 1
        PROVE  q[j] = IF j < i THEN Items(k, L)[j] ELSE Items(k, L)[j + 1]
    <3>1. j \in 1 .. k /\ j + 1 \in 1 .. k
      OBVIOUS
    <3> QED BY <3>1, <1>4, <1>5, <1>7
  <2> HIDE DEF q
  <2> DEFINE s == Items(k, L)
  <2>4. /\ s \in Seq(Item) /\ Len(s) = k /\ i \in 1 .. Len(s)
        /\ q \in [1 .. Len(s) - 1 -> Item]
        /\ \A j \in 1 .. Len(s) - 1 : j < i => q[j] = s[j]
        /\ \A j \in 1 .. Len(s) - 1 : ~(j < i) => q[j] = s[j + 1]
    BY <2>2, <2>3, <1>7
  <2>5. q = SubSeq(s, 1, i - 1) \o SubSeq(s, i + 1, Len(s))
    <3> HIDE DEF s
    <3> QED BY <2>4, DropIs
  <2> QED BY <2>1, <2>4, <2>5
<1> QED
  BY <1>3, <1>6, <1>7, <1>8 DEF EffectOn

\* The abstract variables of a thread, as functions of its record.
PhaseOf(t) == IF th[t].pc = "idle" THEN "idle"
              ELSE IF th[t].pc = "return" THEN "done" ELSE "called"
AnswerOf(t) == IF th[t].pc = "return" THEN th[t].ret ELSE none

\* A step of t that changes nothing of the other threads changes the abstract
\* variables at t only.
LEMMA AbsOfThread ==
  ASSUME NEW t \in Thread, \A u \in Thread \ {t} : SameBody(u)
  PROVE  /\ AbsPhase' = [AbsPhase EXCEPT ![t] = PhaseOf(t)']
         /\ AbsReq' = [AbsReq EXCEPT ![t] = th'[t].call]
         /\ AbsAnswer' = [AbsAnswer EXCEPT ![t] = AnswerOf(t)']
         /\ AbsPhase[t] = PhaseOf(t) /\ AbsReq[t] = th[t].call
         /\ AbsAnswer[t] = AnswerOf(t) /\ AbsAnswer'[t] = AnswerOf(t)'
<1>1. AbsPhase' = [AbsPhase EXCEPT ![t] = PhaseOf(t)'] /\ AbsPhase[t] = PhaseOf(t)
  <2>1. \A u \in Thread : AbsPhase[u] = PhaseOf(u) /\ AbsPhase'[u] = PhaseOf(u)'
    BY DEF AbsPhase, PhaseOf
  <2>2. \A u \in Thread \ {t} : PhaseOf(u)' = PhaseOf(u)
    BY DEF PhaseOf, SameBody
  <2>3. /\ AbsPhase = [u \in Thread |-> AbsPhase[u]]
        /\ AbsPhase' = [u \in Thread |-> AbsPhase'[u]]
    BY DEF AbsPhase
  <2> QED BY <2>1, <2>2, <2>3, ZenonT(30)
<1>2. AbsReq' = [AbsReq EXCEPT ![t] = th'[t].call] /\ AbsReq[t] = th[t].call
  BY DEF AbsReq, SameBody
<1>3. AbsAnswer' = [AbsAnswer EXCEPT ![t] = AnswerOf(t)']
  BY ZenonT(40) DEF AbsAnswer, AnswerOf, SameBody
<1>4. AbsAnswer[t] = AnswerOf(t) /\ AbsAnswer'[t] = AnswerOf(t)'
  BY DEF AbsAnswer, AnswerOf
<1> QED BY <1>1, <1>2, <1>3, <1>4

AbsVars == <<AbsList, AbsPhase, AbsReq, AbsAnswer>>

\* The abstract actions, seen through the abstract variables.
LEMMA AbsCalls ==
  ASSUME NEW t \in Thread, NEW r \in Request, AbsPhase[t] = "idle",
         AbsPhase' = [AbsPhase EXCEPT ![t] = "called"],
         AbsReq' = [AbsReq EXCEPT ![t] = r],
         AbsList' = AbsList, AbsAnswer' = AbsAnswer
  PROVE  Abs!ANext
<1>1. r \in Abs!Request
  BY DEF Request, Item, Abs!Request, Abs!Item
<1>2. Abs!ACall(t, r)
  BY DEF Abs!ACall, AbsList, AbsPhase, AbsReq, AbsAnswer
<1> QED BY <1>1, <1>2 DEF Abs!ANext

\* A call that is over is an ALeave.
LEMMA AbsLeaves ==
  ASSUME NEW t \in Thread, AbsPhase[t] \in {"called", "done"},
         AbsPhase' = [AbsPhase EXCEPT ![t] = "idle"],
         AbsReq' = [AbsReq EXCEPT ![t] = none],
         AbsAnswer' = [AbsAnswer EXCEPT ![t] = none],
         AbsList' = AbsList
  PROVE  Abs!ANext
<1>1. Abs!ALeave(t)
  BY DEF Abs!ALeave, AbsList, AbsPhase, AbsReq, AbsAnswer
<1> QED BY <1>1 DEF Abs!ANext

\* A step that changes the list as the request says is an ADo.
LEMMA AbsDoes ==
  ASSUME NEW t \in Thread, AbsPhase[t] = "called",
         AbsPhase' = [AbsPhase EXCEPT ![t] = "done"],
         AbsReq' = AbsReq,
         AbsAnswer' = [AbsAnswer EXCEPT ![t] = AbsAnswer'[t]],
         EffectOn(AbsList, AbsReq[t], AbsList', AbsAnswer'[t])
  PROVE  Abs!ANext
<1>1. Abs!Effect(AbsReq[t], AbsList', AbsAnswer'[t])
  BY EffectIsEffect
<1>2. Abs!ADo(t)
  BY <1>1 DEF Abs!ADo, AbsList, AbsPhase, AbsReq, AbsAnswer
<1> QED BY <1>2 DEF Abs!ANext

\* A step that keeps the abstract variables is a stuttering step.
LEMMA AbsRests ==
  ASSUME UNCHANGED AbsVars PROVE UNCHANGED Abs!avars
  BY DEF Abs!avars, AbsVars, AbsList, AbsPhase, AbsReq, AbsAnswer

\* The initial list is the empty one.
LEMMA AbsInit == Init => Abs!AInit
<1> SUFFICES ASSUME Init PROVE Abs!AInit
  OBVIOUS
<1>1. PICK k \in Nat : \E L \in [1 .. k -> Node] : Inv(k, L)
  BY InitInv DEF IInv
<1>2. PICK L \in [1 .. k -> Node] : Inv(k, L)
  BY <1>1
<1>3. mem[m_head] = none
  BY TVarsNamed, TVarsDiffer DEF Init
<1>4. Path(k, L) /\ k = 0
  BY <1>2, <1>3, ListAssumption DEF Inv, Whole, Path
<1>5. AbsList = << >>
  <2>1. AbsList = Items(k, L)
    BY <1>4, AbsListIs DEF ListIsAbs
  <2>2. DOMAIN Items(k, L) = {} /\ Items(k, L) = [i \in 1 .. k |-> Items(k, L)[i]]
    BY <1>4 DEF Items
  <2> QED BY <2>1, <2>2, <1>4
<1>6. \A t \in Thread : th[t].pc = "idle" /\ th[t].call = none
  BY DEF Init, Idle
<1>7. /\ AbsPhase = [t \in Thread |-> "idle"] /\ AbsReq = [t \in Thread |-> none]
      /\ AbsAnswer = [t \in Thread |-> none]
  BY <1>6 DEF AbsPhase, AbsReq, AbsAnswer
<1> QED
  BY <1>5, <1>7 DEF Abs!AInit, AbsList, AbsPhase, AbsReq, AbsAnswer

\* A step that is not a commit leaves the items of the allocated nodes alone.
LEMMA ItemsStay ==
  ASSUME TypeOK, [Next]_vars, \A t \in Thread : ~Commit(t), NEW n \in heap
  PROVE  mem'[item(n)] = mem[item(n)]
<1>1. ASSUME NEW m, NEW i, New(m, i) PROVE mem'[item(n)] = mem[item(n)]
  BY <1>1, TVarsDiffer, TVarsNamed DEF New, TypeOK
<1>2. CASE UNCHANGED vars \/ Finished
  BY <1>2 DEF vars, Finished
<1>3. ASSUME NEW t \in Thread, Call(t) PROVE mem'[item(n)] = mem[item(n)]
  BY <1>1, <1>3 DEF Call
<1>4. ASSUME NEW t \in Thread, Retry(t) \/ Return(t)
      PROVE  mem'[item(n)] = mem[item(n)]
  BY <1>4 DEF Retry, Return, Local
<1>5. ASSUME NEW t \in Thread, NestedAdd(t) PROVE mem'[item(n)] = mem[item(n)]
  BY <1>1, <1>5 DEF NestedAdd
<1>6. ASSUME NEW t \in Thread, Body(t), ~NestedAdd(t) PROVE UNCHANGED mem
  BY <1>6 DEF Body, Push, ReadHead, ReadItem, ReadNext, GetFound, UpdateFound,
              RemoveFound, Absent, NestedPush, AllocFails, SizeOf, Grow, Shrink,
              ReadOldHead, Unlink, UseDead, Local
<1> QED
  BY <1>2, <1>3, <1>4, <1>5, <1>6 DEF Next

\* A step that is not a commit keeps the abstract list.
LEMMA ListStays ==
  ASSUME NEW k \in Nat, NEW L \in [1 .. k -> Node], Inv(k, L), [Next]_vars,
         \A t \in Thread : ~Commit(t)
  PROVE  AbsList' = AbsList
<1>1. Inv(k, L)' /\ \A i \in 1 .. k : mem'[item(L[i])] = mem[item(L[i])]
  BY BodyKeepsList, ItemsStay DEF Inv, Whole
<1>2. AbsList = Items(k, L)
  BY AbsListIs DEF ListIsAbs, Inv, Whole
<1> QED
  BY <1>1, <1>2, ItemsNext DEF Items

\* A commit is the one step in which its call takes effect.
LEMMA CommitDoes ==
  ASSUME NEW k \in Nat, NEW L \in [1 .. k -> Node], NEW t \in Thread,
         Inv(k, L), Commit(t)
  PROVE  Abs!ANext
<1>1. /\ \A u \in Thread \ {t} : SameBody(u)
      /\ th'[t].pc = "return" /\ th'[t].call = th[t].call /\ th'[t].ret = th[t].ret
  BY CommitThreads
<1>2. /\ th[t].pc = "commit" /\ th[t].call \in Request
      /\ \/ Answers(t, k, L) \/ Prepends(t, k, L)
         \/ Overwrites(t, k, L) \/ Unlinks(t, k, L)
  BY Here DEF Commit, Valid, AtPc, Fresh, Shape
<1>3. Op(t) = th[t].call.op
  BY <1>2, ListAssumption DEF Op
<1>4. EffectOn(Items(k, L), th[t].call, AbsList', th[t].ret)
  BY <1>2, <1>3, AnswersEffect, PrependsEffect, OverwritesEffect, UnlinksEffect
<1>5. AbsList = Items(k, L)
  BY AbsListIs DEF ListIsAbs, Inv, Whole
<1>6. /\ PhaseOf(t) = "called" /\ PhaseOf(t)' = "done" /\ AnswerOf(t)' = th[t].ret
  BY <1>1, <1>2 DEF PhaseOf, AnswerOf
<1>7. /\ AbsPhase' = [AbsPhase EXCEPT ![t] = "done"]
      /\ AbsReq' = [AbsReq EXCEPT ![t] = th[t].call] /\ AbsReq[t] = th[t].call
      /\ AbsAnswer' = [AbsAnswer EXCEPT ![t] = th[t].ret]
      /\ AbsPhase[t] = "called" /\ AbsAnswer'[t] = th[t].ret
  BY <1>1, <1>6, AbsOfThread
<1>8. AbsReq' = AbsReq
  BY <1>7 DEF AbsReq
<1> QED
  BY <1>4, <1>5, <1>7, <1>8, AbsDoes

\* Inside a call the abstract variables stand still.
LEMMA StaysRests ==
  ASSUME NEW t \in Thread, Stays(t), AbsList' = AbsList
  PROVE  UNCHANGED AbsVars
<1>1. \A u \in Thread : th'[u].call = th[u].call /\ PhaseOf(u)' = PhaseOf(u)
                        /\ AnswerOf(u)' = AnswerOf(u)
  BY DEF Stays, PhaseOf, AnswerOf
<1>2. AbsPhase' = AbsPhase /\ AbsReq' = AbsReq /\ AbsAnswer' = AbsAnswer
  BY <1>1 DEF AbsPhase, AbsReq, AbsAnswer, PhaseOf, AnswerOf
<1> QED BY <1>2 DEF AbsVars

\* A thread that leaves its call, with or without an effect.
LEMMA BecomeIdleLeaves ==
  ASSUME NEW k \in Nat, NEW L \in [1 .. k -> Node], NEW t \in Thread, Inv(k, L),
         Become(t, Idle), th[t].pc # "idle", AbsList' = AbsList
  PROVE  Abs!ANext
<1>1. DOMAIN th = Thread /\ DOMAIN th[t] = Fields
  BY Here
<1>2. /\ \A u \in Thread \ {t} : SameBody(u)
      /\ th'[t] = Idle
  BY <1>1, IdleShape DEF SameBody
<1>3. th'[t].pc = "idle" /\ th'[t].call = none
  BY <1>2 DEF Idle
<1>4. PhaseOf(t)' = "idle" /\ AnswerOf(t)' = none /\ PhaseOf(t) \in {"called", "done"}
  BY <1>3 DEF PhaseOf, AnswerOf
<1> QED
  BY <1>2, <1>3, <1>4, AbsOfThread, AbsLeaves

\* Call is ACall.
LEMMA CallCalls ==
  ASSUME NEW k \in Nat, NEW L \in [1 .. k -> Node], NEW t \in Thread, Inv(k, L),
         Call(t), AbsList' = AbsList
  PROVE  Abs!ANext
<1>1. DOMAIN th = Thread /\ DOMAIN th[t] = Fields /\ th[t].pc = "idle"
  BY Here DEF Call, AtPc
<1>2. PICK r \in Request :
        IF r.op = "add"
          THEN \E n \in Node : New(n, r.item) /\ Become(t, [node |-> n] @@ Begin(r))
          ELSE Become(t, Begin(r)) /\ UNCHANGED <<mem, heap>>
  BY DEF Call
<1>3. \E b : Become(t, b) /\ DOMAIN b = Fields /\ b.call = r /\ b.pc \in {"size", "head"}
  <2>1. /\ DOMAIN Begin(r) = Fields /\ Begin(r).call = r
        /\ Begin(r).pc \in {"size", "head"}
    BY DEF Begin, Idle, Fields
  <2>2. ASSUME NEW n, NEW b, b = [node |-> n] @@ Begin(r)
        PROVE  DOMAIN b = Fields /\ b.call = r /\ b.pc \in {"size", "head"}
    BY <2>2, BeginFields
  <2> QED BY <1>2, <2>1, <2>2
<1>4. PICK b : Become(t, b) /\ DOMAIN b = Fields /\ b.call = r /\ b.pc \in {"size", "head"}
  BY <1>3
<1>5. /\ \A u \in Thread : u # t => th'[u] = th[u]
      /\ \A y \in Fields : th'[t][y] = b[y]
  BY <1>1, <1>4, BecomeFields
<1>6. /\ \A u \in Thread \ {t} : SameBody(u)
      /\ th'[t].call = r /\ th'[t].pc \in {"size", "head"}
  BY <1>4, <1>5 DEF SameBody, Fields
<1>7. /\ PhaseOf(t) = "idle" /\ PhaseOf(t)' = "called"
      /\ AnswerOf(t) = none /\ AnswerOf(t)' = none
  BY <1>1, <1>6 DEF PhaseOf, AnswerOf
<1>8. /\ AbsPhase' = [AbsPhase EXCEPT ![t] = "called"] /\ AbsPhase[t] = "idle"
      /\ AbsReq' = [AbsReq EXCEPT ![t] = r]
      /\ AbsAnswer' = [AbsAnswer EXCEPT ![t] = none] /\ AbsAnswer[t] = none
  BY <1>6, <1>7, AbsOfThread
<1>9. AbsAnswer' = AbsAnswer
  BY <1>8 DEF AbsAnswer
<1> QED
  BY <1>8, <1>9, AbsCalls

\* Every step of the list is a step of AtomicList or leaves it alone.
LEMMA StepRefines ==
  IInv /\ [Next]_vars => [Abs!ANext]_(Abs!avars)
<1> SUFFICES ASSUME NEW k \in Nat, NEW L \in [1 .. k -> Node], Inv(k, L), [Next]_vars
             PROVE  Abs!ANext \/ UNCHANGED Abs!avars
  BY DEF IInv
<1>1. CASE \E t \in Thread : Commit(t)
  BY <1>1, CommitDoes
<1>2. CASE \A t \in Thread : ~Commit(t)
  <2>1. AbsList' = AbsList
    BY <1>2, ListStays
  <2>2. CASE UNCHANGED th
    <3>1. UNCHANGED AbsVars
      BY <2>1, <2>2 DEF AbsVars, AbsPhase, AbsReq, AbsAnswer
    <3> QED BY <3>1, AbsRests
  <2>3. ASSUME NEW t \in Thread, Stays(t) PROVE UNCHANGED Abs!avars
    BY <2>1, <2>3, StaysRests, AbsRests
  <2>4. ASSUME NEW t \in Thread, Call(t) PROVE Abs!ANext
    BY <2>1, <2>4, CallCalls
  <2>5. ASSUME NEW t \in Thread, Return(t) \/ AllocFails(t) PROVE Abs!ANext
    <3>1. Become(t, Idle) /\ th[t].pc # "idle"
      BY <2>5 DEF Return, AllocFails, Local, AtPc
    <3> QED BY <2>1, <3>1, BecomeIdleLeaves
  <2>6. ASSUME NEW t \in Thread, Retry(t) PROVE Stays(t)
    BY <2>6, RetryKeepsInv
  <2>7. ASSUME NEW t \in Thread, Body(t), ~AllocFails(t), ~UseDead(t) PROVE Stays(t)
    <3>1. CASE Push(t) \/ ReadHead(t) \/ ReadItem(t) \/ ReadNext(t)
      BY <3>1, PushKeepsInv, ReadHeadKeepsInv, ReadItemKeepsInv, ReadNextKeepsInv
    <3>2. CASE GetFound(t) \/ UpdateFound(t) \/ RemoveFound(t)
      BY <3>2, GetFoundKeepsInv, UpdateFoundKeepsInv, RemoveFoundKeepsInv
    <3>3. CASE Absent(t) \/ NestedAdd(t) \/ NestedPush(t)
      BY <3>3, AbsentKeepsInv, NestedAddKeepsInv, NestedPushKeepsInv
    <3>4. CASE SizeOf(t) \/ Grow(t) \/ Shrink(t)
      BY <3>4, SizeOfKeepsInv, GrowKeepsInv, ShrinkKeepsInv
    <3>5. CASE ReadOldHead(t) \/ Unlink(t)
      BY <3>5, ReadOldHeadKeepsInv, UnlinkKeepsInv
    <3> QED BY <2>7, <3>1, <3>2, <3>3, <3>4, <3>5 DEF Body
  <2>8. ASSUME NEW t \in Thread, UseDead(t) PROVE UNCHANGED th
    BY <2>8 DEF UseDead
  <2>9. ASSUME UNCHANGED vars \/ Finished PROVE UNCHANGED th
    BY <2>9 DEF vars, Finished
  <2> QED
    BY <1>2, <2>2, <2>3, <2>4, <2>5, <2>6, <2>7, <2>8, <2>9 DEF Next
<1> QED BY <1>1, <1>2

\* Every operation of the list takes effect in one step, with the answer a
\* sequential list would give at that moment.
THEOREM ListIsLinearizable == Spec => ListLinearizable
  BY AbsInit, StepRefines, AlwaysInv, PTL DEF Spec, ListLinearizable, Abs!ASpec
==============================================================================
