-------------------------- MODULE Containers_proofs --------------------------
(***************************************************************************)
(* The shared containers stay well formed, whatever their threads do: for  *)
(* any threads, keys, values and capacity, the lists stay sorted and end   *)
(* in the tail sentinel, the rings hold what fits, the linked queue ends   *)
(* in its tail, and every answer is one the operation can give.            *)
(***************************************************************************)
EXTENDS Containers, FunctionTheorems, FiniteSetTheorems, WellFoundedInduction, TLAPS

----------------------------------------------------------------------------
(* The inductive invariant: what all containers share.                     *)

Fields == {"pc", "call", "loc", "node", "rd", "wr", "stale", "ret"}

\* The requests that a container of each kind gets.
Asked ==
  IF kind \in ListKinds THEN OrderedRequest
  ELSE IF kind \in {"bounded", "batch"} THEN RingRequest
  ELSE IF kind = "queue" THEN QueueRequest
  ELSE IF kind = "stack" THEN StackRequest
  ELSE BankRequest

ThreadOK(t) ==
  /\ DOMAIN th[t] = Fields
  /\ IF th[t].pc = "idle" THEN th[t].call = none ELSE th[t].call \in Asked
  /\ IsAnswer(th[t].ret)
  /\ th[t].stale \in BOOLEAN
  /\ th[t].node \in Node \cup {none}

Base ==
  /\ kind \in Kinds
  /\ used \subseteq Node
  /\ \A l \in DOMAIN owner : owner[l] \in Thread \cup {none}
  /\ DOMAIN th = Thread
  /\ \A t \in Thread : ThreadOK(t)
  /\ calls \in 0..MaxCalls

----------------------------------------------------------------------------
(* The inductive invariant of the lists.                                   *)

\* Every allocated node, linked, unlinked or not yet linked, has a larger
\* node behind it.
ListMem ==
  /\ \A n \in used \cup {head, tail} : next(n) \in DOMAIN mem /\ key(n) \in DOMAIN mem
  /\ KeyOf(head) = -1 /\ KeyOf(tail) = Above
  /\ \A n \in used : KeyOf(n) \in Key
  /\ \A n \in used \cup {head} :
       NextNode(n) \in used \cup {tail} /\ KeyOf(n) < KeyOf(NextNode(n))
  /\ NextNode(tail) \in {none, tail}
  /\ kind = "lockfree" => mem[next(tail)] = <<tail, FALSE>>

\* Where the operations stand between two nodes, where they know that curr
\* comes before the key, or does not, and where they hold a third node.
Between ==
  {"walk", "located", "lock", "advance", "apply", "succ", "unlink", "link", "found",
   "mark", "detach"}
Passing == IF kind = "ordered" THEN {"walk"} ELSE {"advance"}
Arrived == {"located", "apply", "link", "found"}

ListThread(t) ==
  /\ th[t].pc \in Between =>
       /\ th[t].loc.pred \in used \cup {head} /\ th[t].loc.curr \in used \cup {tail}
       /\ KeyOf(th[t].loc.pred) < th[t].call.key
       /\ KeyOf(th[t].loc.pred) < KeyOf(th[t].loc.curr)
  /\ th[t].pc \in Passing => KeyOf(th[t].loc.curr) < th[t].call.key
  /\ th[t].pc \in Arrived => KeyOf(th[t].loc.curr) >= th[t].call.key
  /\ th[t].pc \in {"unlink", "mark", "detach"} =>
       /\ th[t].loc.curr \in used /\ th[t].loc.succ \in used \cup {tail}
       /\ KeyOf(th[t].loc.curr) < KeyOf(th[t].loc.succ)
  /\ th[t].pc = "follow" => th[t].loc.curr \in used \cup {head, tail}
  /\ th[t].pc = "commit" => kind = "ordered"
  /\ kind = "ordered" =>
       /\ th[t].pc \in {"idle", "begin", "walk", "located", "commit", "return"}
       /\ th[t].pc \in {"begin", "walk", "located"} => th[t].node = none
  /\ th[t].pc # "commit" => DOMAIN th[t].wr = {}
  /\ \A x \in DOMAIN th[t].wr : \E p \in used \cup {head} :
       /\ x = next(p)
       /\ th[t].wr[x] \in used \cup {tail}
       /\ KeyOf(p) < KeyOf(th[t].wr[x])

\* A node that a body has allocated and not yet published.
Owns(t) == th[t].pc = "commit" /\ th[t].node # none
\* What the locals and staged writes of a thread lead to.
Knows(t, n) ==
  \/ th[t].pc \in Between /\ (th[t].loc.pred = n \/ th[t].loc.curr = n)
  \/ \E x \in DOMAIN th[t].wr : x = next(n) \/ th[t].wr[x] = n
  \/ Owns(t) /\ th[t].node = n
\* Nobody else knows it: a failed attempt may give it back.
ListPrivate(t) ==
  Owns(t) =>
    /\ th[t].node \in used
    /\ \A n \in used \cup {head} : NextNode(n) # th[t].node
    /\ \A u \in Thread \ {t} : ~Knows(u, th[t].node)

ListInv ==
  kind \in ListKinds =>
    /\ ListMem
    /\ \A t \in Thread : ListThread(t) /\ ListPrivate(t)

----------------------------------------------------------------------------
(* The inductive invariant of the rings.                                   *)

TailSeen(t) == IF ring_tail \in DOMAIN th[t].wr THEN th[t].wr[ring_tail] ELSE mem[ring_tail]
HeadSeen(t) == IF ring_head \in DOMAIN th[t].wr THEN th[t].wr[ring_head] ELSE mem[ring_head]

\* Every position that was ever filled holds a value.
RingMem ==
  /\ {ring_head, ring_tail} \cup {items(i) : i \in Nat} \subseteq DOMAIN mem
  /\ mem[ring_head] \in Nat /\ mem[ring_tail] \in Nat
  /\ Capacity - 1 <= mem[ring_head]
  /\ mem[ring_tail] - mem[ring_head] \in 0..Capacity
  /\ \A i \in Nat : Capacity - 1 <= i /\ i < mem[ring_tail] => mem[items(i)] \in Val

\* What a thread knows even if its reads are stale.
RingLocals(t) ==
  /\ th[t].pc \in {"enq", "deq", "item", "size"} => th[t].loc.h \in Nat
  /\ th[t].pc = "size2" => th[t].loc.t \in Nat
  /\ th[t].pc \in {"begin", "enq", "size", "size2"} => DOMAIN th[t].wr = {}
  /\ th[t].pc = "enq" => th[t].call.val \in Val
  /\ th[t].pc = "again" => th[t].call.op = "both"
  /\ th[t].pc \in {"deq", "item"} /\ th[t].call.op # "both" =>
       /\ DOMAIN th[t].wr = {}
       /\ Capacity - 1 <= th[t].loc.h
       /\ th[t].loc.h <= mem[ring_tail]
       /\ th[t].pc = "item" => th[t].loc.h < mem[ring_tail]
  /\ ring_tail \in DOMAIN th[t].wr => th[t].wr[ring_tail] \in Nat
  /\ ring_head \in DOMAIN th[t].wr => th[t].wr[ring_head] \in Nat

\* What it knows if they are not: its writes go one position ahead, in range.
RingExact(t) ==
  /\ TailSeen(t) - HeadSeen(t) \in 0..Capacity
  /\ DOMAIN th[t].wr # {} => ring_head \in th[t].rd /\ ring_tail \in th[t].rd
  /\ th[t].pc \in {"enq", "deq", "item"} => ring_head \in th[t].rd /\ th[t].loc.h = HeadSeen(t)
  /\ th[t].pc = "item" => ring_tail \in th[t].rd /\ TailSeen(t) # HeadSeen(t)
  /\ ring_head \in DOMAIN th[t].wr => th[t].wr[ring_head] = mem[ring_head] + 1
  /\ ring_head \in DOMAIN th[t].wr => th[t].pc = "commit"
  /\ \A x \in DOMAIN th[t].wr \ {ring_head, ring_tail} :
       ring_tail \in DOMAIN th[t].wr /\ x = items(mem[ring_tail]) /\ th[t].wr[x] \in Val
  /\ ring_tail \in DOMAIN th[t].wr =>
       th[t].wr[ring_tail] = mem[ring_tail] + 1 /\ items(mem[ring_tail]) \in DOMAIN th[t].wr

RingInv ==
  kind \in {"bounded", "batch"} =>
    /\ RingMem
    /\ \A t \in Thread :
         RingLocals(t) /\ (th[t].pc \notin {"idle", "return"} /\ ~th[t].stale => RingExact(t))

----------------------------------------------------------------------------
(* The inductive invariant of the linked queue and of the stack.           *)

\* A way along the links, over len links, from the first to the last node.
Way(p, len) ==
  /\ p \in [0..len -> used \cup {head}]
  /\ p[0] = mem[queue_head] /\ p[len] = mem[queue_tail]
  /\ \A i \in 0..(len - 1) : mem[next(p[i])] = p[i + 1]
  /\ \A i, j \in 0..len : i # j => p[i] # p[j]

QueueMem ==
  /\ {queue_head, queue_tail} \subseteq DOMAIN mem
  /\ \A n \in used \cup {head} : next(n) \in DOMAIN mem
  /\ \A n \in used : value(n) \in DOMAIN mem /\ mem[value(n)] \in Val
  /\ mem[queue_head] \in used \cup {head} /\ mem[queue_tail] \in used \cup {head}
  /\ \A n \in used \cup {head} : mem[next(n)] \in used \cup {none}
  /\ mem[next(mem[queue_tail])] = none
  /\ \E len \in Nat : \E p \in [0..len -> used \cup {head}] : Way(p, len)

\* A node that enqueue() has allocated and not yet linked.
Unlinked(t) == th[t].pc \in {"begin", "commit"} /\ th[t].node # none

QueueThread(t) ==
  /\ th[t].pc \in {"begin", "next"} => DOMAIN th[t].wr = {}
  /\ th[t].pc = "next" => th[t].loc.h \in used \cup {head} /\ th[t].node = none
  /\ Unlinked(t) =>
       /\ th[t].call.op = "enq"
       /\ th[t].node \in used
       /\ th[t].node # mem[queue_head] /\ th[t].node # mem[queue_tail]
       /\ mem[next(th[t].node)] = none
       /\ \A n \in used \cup {head} : mem[next(n)] # th[t].node
  /\ th[t].pc = "commit" /\ th[t].node # none /\ ~th[t].stale =>
       /\ queue_tail \in th[t].rd
       /\ DOMAIN th[t].wr = {queue_tail, next(mem[queue_tail])}
       /\ th[t].wr[queue_tail] = th[t].node /\ th[t].wr[next(mem[queue_tail])] = th[t].node
  /\ th[t].pc = "next" /\ ~th[t].stale => queue_head \in th[t].rd /\ th[t].loc.h = mem[queue_head]
  /\ th[t].pc = "commit" /\ th[t].node = none /\ ~th[t].stale =>
       \/ DOMAIN th[t].wr = {}
       \/ /\ DOMAIN th[t].wr = {queue_head}
          /\ queue_head \in th[t].rd /\ next(mem[queue_head]) \in th[t].rd
          /\ th[t].wr[queue_head] = mem[next(mem[queue_head])]
          /\ th[t].wr[queue_head] # none

QueueInv ==
  kind = "queue" =>
    /\ QueueMem
    /\ \A t \in Thread : QueueThread(t)
    /\ \A t, u \in Thread :
         t # u /\ Unlinked(t) /\ Unlinked(u) => th[t].node # th[u].node

StackMem ==
  /\ top \in DOMAIN mem /\ mem[top] \in used \cup {none}
  /\ \A n \in used :
       /\ {value(n), next(n)} \subseteq DOMAIN mem
       /\ mem[value(n)] \in Val
       /\ mem[next(n)] \in used \cup {none}

StackThread(t) ==
  /\ th[t].pc # "commit" => DOMAIN th[t].wr = {}
  /\ th[t].pc = "begin" => th[t].node = none
  /\ \A x \in DOMAIN th[t].wr : x = top /\ th[t].wr[x] \in used \cup {none}
  /\ Owns(t) =>
       /\ th[t].node \in used
       /\ mem[top] # th[t].node
       /\ \A n \in used : mem[next(n)] # th[t].node
       /\ \A u \in Thread \ {t} :
            /\ \A x \in DOMAIN th[u].wr : th[u].wr[x] # th[t].node
            /\ Owns(u) => th[u].node # th[t].node

StackInv ==
  kind = "stack" => StackMem /\ \A t \in Thread : StackThread(t)

ObjectInv == Base /\ ListInv /\ RingInv /\ QueueInv /\ StackInv

----------------------------------------------------------------------------
(* Locations, keys and steps of one thread.                                *)

\* Different fields and different nodes have different locations.
LEMMA Locations ==
  /\ \A m, n : next(m) = next(n) <=> m = n
  /\ \A m, n : key(m) = key(n) <=> m = n
  /\ \A m, n : value(m) = value(n) <=> m = n
  /\ \A m, n : next(m) # key(n) /\ next(m) # value(n) /\ key(m) # value(n)
  BY DEF next, key, value

\* The keys of the sentinels enclose all keys.
LEMMA KeysEnclosed ==
  /\ Above \in Int
  /\ \A k \in Key : k \in Int /\ -1 < k /\ k < Above
<1> DEFINE P(k) == \A j \in Key : j <= k
           m == CHOOSE k \in Key : P(k)
<1>1. \E k \in Key : P(k)
  BY KeyAssumption
<1>2. m \in Key /\ P(m)
  BY <1>1
<1>3. Above = 1 + m
  BY DEF Above
<1> HIDE DEF m
<1> QED
  BY <1>2, <1>3, ObjectAssumption

\* Only the local state of t changes.
OnlyThread(t) == DOMAIN th' = Thread /\ \A u \in Thread \ {t} : th'[u] = th[u]

\* The effect of Become() on the threads.
LEMMA BecomeEffect ==
  ASSUME DOMAIN th = Thread, NEW t \in Thread, NEW r, Become(t, r)
  PROVE  OnlyThread(t) /\ th'[t] = r
  BY DEF Become, OnlyThread

\* What all containers share is kept by a step that keeps it for its thread.
LEMMA BaseStep ==
  ASSUME Base, NEW t \in Thread, UNCHANGED kind, used' \subseteq Node,
         \A l \in DOMAIN owner' : owner'[l] \in Thread \cup {none},
         calls' \in 0..MaxCalls,
         OnlyThread(t), ThreadOK(t)'
  PROVE  Base'
<1>1. ASSUME NEW u \in Thread, u # t PROVE ThreadOK(u)'
  BY <1>1 DEF Base, ThreadOK, OnlyThread, Asked, IsAnswer
<1>2. \A u \in Thread : ThreadOK(u)'
  BY <1>1
<1> QED
  BY <1>2 DEF Base, OnlyThread

\* The same, of a step that only changes the local state of t.
LEMMA BaseLocal ==
  ASSUME Base, NEW t \in Thread, UNCHANGED <<kind, used, owner, calls>>,
         OnlyThread(t), ThreadOK(t)'
  PROVE  Base'
<1>1. used' \subseteq Node /\ calls' \in 0..MaxCalls
  BY DEF Base
<1>2. \A l \in DOMAIN owner' : owner'[l] \in Thread \cup {none}
  BY DEF Base
<1> QED
  BY <1>1, <1>2, BaseStep

----------------------------------------------------------------------------
(* The lists.                                                              *)

\* The keys of the allocated nodes and of the sentinels are kept.
KeysKept == \A n \in used \cup {head, tail} : mem'[key(n)] = mem[key(n)]

\* Keys are numbers.
LEMMA KeysInt ==
  ASSUME ListMem PROVE \A n \in used \cup {head, tail} : KeyOf(n) \in Int
  BY KeysEnclosed DEF ListMem

\* A thread has at most learnt that its reads are stale.
AsBefore(u) ==
  /\ th'[u].pc = th[u].pc /\ th'[u].call = th[u].call /\ th'[u].loc = th[u].loc
  /\ th'[u].node = th[u].node /\ th'[u].wr = th[u].wr

\* What another thread knows of the list stays true while nodes are only
\* added and keys are kept.
LEMMA ListThreadKept ==
  ASSUME ListMem, NEW u \in Thread, ListThread(u), UNCHANGED kind, AsBefore(u),
         used \subseteq used', KeysKept
  PROVE  ListThread(u)'
<1> DEFINE Places == used \cup {head, tail}
<1>1. \A n \in Places : KeyOf(n)' = KeyOf(n)
  BY DEF KeysKept, KeyOf
<1>2. Passing' = Passing
  BY DEF Passing
<1>3. ASSUME NEW x \in DOMAIN th[u].wr
      PROVE  \E p \in used' \cup {head} :
               /\ x = next(p)
               /\ th[u].wr[x] \in used' \cup {tail}
               /\ KeyOf(p)' < (mem')[key(th[u].wr[x])]
  <2>1. PICK p \in used \cup {head} :
          x = next(p) /\ th[u].wr[x] \in used \cup {tail} /\ KeyOf(p) < KeyOf(th[u].wr[x])
    BY <1>3 DEF ListThread
  <2>2. mem'[key(p)] = mem[key(p)] /\ mem'[key(th[u].wr[x])] = mem[key(th[u].wr[x])]
    BY <2>1 DEF KeysKept
  <2> QED BY <2>1, <2>2 DEF KeyOf
<1>4. th[u].pc \in Between =>
        /\ th[u].loc.pred \in used' \cup {head} /\ th[u].loc.curr \in used' \cup {tail}
        /\ mem'[key(th[u].loc.pred)] < th[u].call.key
        /\ mem'[key(th[u].loc.pred)] < mem'[key(th[u].loc.curr)]
  BY DEF ListThread, KeysKept, KeyOf
<1>5. th[u].pc \in Passing \cup Arrived => mem'[key(th[u].loc.curr)] = KeyOf(th[u].loc.curr)
  BY DEF ListThread, KeysKept, KeyOf, Passing, Arrived, Between
<1>6. th[u].pc \in {"unlink", "mark", "detach"} =>
        /\ th[u].loc.curr \in used' /\ th[u].loc.succ \in used' \cup {tail}
        /\ mem'[key(th[u].loc.curr)] < mem'[key(th[u].loc.succ)]
  BY DEF ListThread, KeysKept, KeyOf
<1> QED
  BY <1>2, <1>3, <1>4, <1>5, <1>6 DEF ListThread, KeyOf, AsBefore

\* The memory of a list stays well formed when nodes are added and links moved
\* such that every node still has a larger one behind it.
LEMMA ListMemStep ==
  ASSUME ListMem, UNCHANGED kind, used \subseteq used', KeysKept,
         DOMAIN mem \subseteq DOMAIN mem',
         \A n \in used' \ used :
           next(n) \in DOMAIN mem' /\ key(n) \in DOMAIN mem' /\ mem'[key(n)] \in Key,
         \A n \in used' \cup {head} :
           NextNode(n)' \in used' \cup {tail} /\ KeyOf(n)' < KeyOf(NextNode(n))',
         mem'[next(tail)] = mem[next(tail)]
  PROVE  ListMem'
<1>1. \A n \in used' \cup {head, tail} : next(n) \in DOMAIN mem' /\ key(n) \in DOMAIN mem'
  BY DEF ListMem
<1>2. mem'[key(head)] = -1 /\ mem'[key(tail)] = Above
  BY DEF ListMem, KeysKept, KeyOf
<1>3. \A n \in used' : mem'[key(n)] \in Key
  BY DEF ListMem, KeysKept, KeyOf
<1>4. NextNode(tail)' \in {none, tail}
  BY DEF ListMem, NextNode, Ptr
<1>5. kind' = "lockfree" => mem'[next(tail)] = <<tail, FALSE>>
  BY DEF ListMem
<1> QED
  BY <1>1, <1>2, <1>3, <1>4, <1>5 DEF ListMem, KeyOf

\* A list without transactions: its invariant is kept by a step that keeps the
\* memory well formed and leaves its own thread at a place that fits.
LEMMA ListStep ==
  ASSUME ListInv, kind \in ListKinds, kind # "ordered", NEW t \in Thread, OnlyThread(t),
         UNCHANGED kind, used \subseteq used', KeysKept, ListMem', ListThread(t)'
  PROVE  ListInv'
<1>1. ASSUME NEW u \in Thread PROVE ListThread(u)'
  <2>1. CASE u = t
    BY <2>1
  <2>2. CASE u # t
    <3>1. ListMem /\ ListThread(u) /\ AsBefore(u)
      BY <2>2 DEF ListInv, OnlyThread, AsBefore
    <3> QED BY <3>1, ListThreadKept
  <2> QED BY <2>1, <2>2
<1>2. ASSUME NEW u \in Thread PROVE ListPrivate(u)'
  <2>1. th'[u].pc # "commit"
    BY <1>1 DEF ListThread
  <2> QED BY <2>1 DEF ListPrivate, Owns
<1> QED
  BY <1>1, <1>2 DEF ListInv

\* A step that leaves the memory alone leaves it well formed.
LEMMA ListMemSame ==
  ASSUME ListMem, UNCHANGED <<kind, mem, used>>
  PROVE  ListMem' /\ KeysKept
  BY DEF ListMem, KeysKept, KeyOf, NextNode, Ptr

\* A step of a list that leaves the memory alone: what t learns is not the
\* private node of another thread.
LEMMA ListLocal ==
  ASSUME ListInv, kind \in ListKinds, NEW t \in Thread, OnlyThread(t),
         UNCHANGED <<kind, mem, used>>, ListThread(t)',
         Owns(t)' => Owns(t) /\ th'[t].node = th[t].node,
         \A u \in Thread \ {t} : Owns(u) => ~Knows(t, th[u].node)'
  PROVE  ListInv'
<1>1. ListMem /\ ListMem' /\ KeysKept
  BY ListMemSame DEF ListInv
<1>2. ASSUME NEW u \in Thread PROVE ListThread(u)'
  <2>1. CASE u = t
    BY <2>1
  <2>2. CASE u # t
    <3>1. ListThread(u) /\ AsBefore(u)
      BY <2>2 DEF ListInv, OnlyThread, AsBefore
    <3> QED BY <1>1, <3>1, ListThreadKept
  <2> QED BY <2>1, <2>2
<1>3. ASSUME NEW u \in Thread, Owns(u)' PROVE ListPrivate(u)'
  <2>1. Owns(u) /\ th'[u].node = th[u].node
    BY <1>3 DEF OnlyThread, Owns
  <2>2. /\ th[u].node \in used
        /\ \A n \in used \cup {head} : NextNode(n) # th[u].node
        /\ \A v \in Thread \ {u} : ~Knows(v, th[u].node)
    BY <2>1 DEF ListInv, ListPrivate
  <2>3. \A n \in used' \cup {head} : NextNode(n)' # th'[u].node
    BY <2>1, <2>2 DEF NextNode, Ptr
  <2>4. ASSUME NEW v \in Thread \ {u} PROVE ~Knows(v, th[u].node)'
    <3>1. CASE v = t
      BY <2>1, <2>4, <3>1
    <3>2. CASE v # t
      <4>1. th'[v] = th[v] /\ ~Knows(v, th[u].node)
        BY <2>2, <2>4, <3>2 DEF OnlyThread
      <4> QED BY <2>1, <4>1 DEF Knows, Owns
    <3> QED BY <3>1, <3>2
  <2> QED BY <2>1, <2>2, <2>3, <2>4 DEF ListPrivate
<1>4. \A u \in Thread : ListPrivate(u)'
  BY <1>3 DEF ListPrivate
<1> QED
  BY <1>1, <1>2, <1>4 DEF ListInv

\* The local state of a thread that begins an operation.
LEMMA BeginFields ==
  ASSUME NEW r
  PROVE  /\ DOMAIN Begin(r) = Fields
         /\ Begin(r).pc = "begin" /\ Begin(r).call = r /\ Begin(r).ret = No
         /\ Begin(r).loc = << >> /\ Begin(r).node = none /\ Begin(r).rd = {}
         /\ Begin(r).wr = << >> /\ Begin(r).stale = FALSE
  BY DEF Begin, Idle, Fields

\* The effect of Call() and of Return().
LEMMA CallEffect ==
  ASSUME Base, NEW t \in Thread, NEW R, Call(t, R), R \subseteq Asked, UNCHANGED kind
  PROVE  /\ Base' /\ OnlyThread(t) /\ UNCHANGED <<mem, owner, used>>
         /\ \E r \in R : th'[t] = Begin(r)
<1>1. PICK r \in R : th' = [th EXCEPT ![t] = Begin(r)]
  BY DEF Call
<1>2. OnlyThread(t) /\ th'[t] = Begin(r)
  BY <1>1 DEF Base, OnlyThread
<1>3. ThreadOK(t)'
  <2>2. r \in Asked'
    BY DEF Asked
  <2>3. DOMAIN th'[t] = Fields
    BY <1>2, BeginFields
  <2>4. th'[t].pc = "begin" /\ th'[t].call = r /\ th'[t].node = none
    BY <1>2, BeginFields
  <2>5. th'[t].stale = FALSE /\ th'[t].ret = No
    BY <1>2, BeginFields
  <2> QED BY <2>2, <2>3, <2>4, <2>5 DEF ThreadOK, IsAnswer
<1>4. calls' \in 0..MaxCalls
  BY ObjectAssumption DEF Call, Base
<1>5. UNCHANGED <<mem, owner, used>>
  BY DEF Call
<1>6. used' \subseteq Node /\ \A l \in DOMAIN owner' : owner'[l] \in Thread \cup {none}
  BY <1>5 DEF Base
<1> QED
  BY <1>2, <1>3, <1>4, <1>5, <1>6, BaseStep

\* Return leaves a thread idle, with its last answer.
LEMMA ReturnEffect ==
  ASSUME Base, NEW t \in Thread, Return(t), UNCHANGED kind
  PROVE  /\ Base' /\ OnlyThread(t) /\ UNCHANGED <<mem, owner, used, calls>>
         /\ th'[t].pc = "idle" /\ th'[t].wr = << >> /\ th'[t].node = none
<1>1. OnlyThread(t) /\ th'[t] = [Idle EXCEPT !.ret = th[t].ret]
  BY DEF Return, Base, OnlyThread
<1>2. th'[t] = [pc |-> "idle", call |-> none, loc |-> << >>, node |-> none, rd |-> {},
                wr |-> << >>, stale |-> FALSE, ret |-> th[t].ret]
  BY <1>1 DEF Idle
<1>3. IsAnswer(th[t].ret)
  BY DEF Base, ThreadOK
<1>4. ThreadOK(t)'
  BY <1>2, <1>3 DEF ThreadOK, Fields, IsAnswer
<1>5. UNCHANGED <<mem, owner, used, calls>>
  BY DEF Return
<1> QED
  BY <1>1, <1>2, <1>4, <1>5, BaseLocal

\* A thread that is not inside an operation, or begins one, fits anywhere.
LEMMA ListOutside ==
  ASSUME NEW t \in Thread, th'[t].pc \in {"idle", "begin", "return", "unlock"},
         DOMAIN th'[t].wr = {},
         kind' = "ordered" => th'[t].pc # "unlock" /\ (th'[t].pc = "begin" => th'[t].node = none)
  PROVE  ListThread(t)' /\ ~Owns(t)' /\ \A n : ~Knows(t, n)'
<1>1. th'[t].pc \notin Between /\ th'[t].pc \notin Arrived /\ th'[t].pc \notin Passing'
  BY DEF Between, Arrived, Passing
<1>2. ~Owns(t)'
  BY DEF Owns
<1> QED
  BY <1>1, <1>2 DEF ListThread, Knows

\* Call() and Return() keep the invariant of every list.
LEMMA ListCall ==
  ASSUME Base, ListInv, kind \in ListKinds, NEW t \in Thread, Call(t, OrderedRequest),
         UNCHANGED kind
  PROVE  Base' /\ ListInv'
<1>1. OrderedRequest \subseteq Asked
  BY DEF Asked
<1>2. /\ Base' /\ OnlyThread(t) /\ UNCHANGED <<mem, owner, used>>
      /\ \E r \in OrderedRequest : th'[t] = Begin(r)
  BY <1>1, CallEffect
<1>3. th'[t].pc = "begin" /\ DOMAIN th'[t].wr = {} /\ th'[t].node = none
  <2>1. PICK r \in OrderedRequest : th'[t] = Begin(r)
    BY <1>2
  <2>2. th'[t].pc = "begin" /\ th'[t].wr = << >> /\ th'[t].node = none
    BY <2>1, BeginFields
  <2> QED BY <2>2
<1>4. ListThread(t)' /\ ~Owns(t)' /\ \A n : ~Knows(t, n)'
  BY <1>3, ListOutside
<1> QED
  BY <1>2, <1>4, ListLocal

\* A thread whose call on a list has returned has no part in the list.
LEMMA ListReturn ==
  ASSUME Base, ListInv, kind \in ListKinds, NEW t \in Thread, Return(t), UNCHANGED kind
  PROVE  Base' /\ ListInv'
<1>1. /\ Base' /\ OnlyThread(t) /\ UNCHANGED <<mem, owner, used, calls>>
      /\ th'[t].pc = "idle" /\ DOMAIN th'[t].wr = {}
  BY ReturnEffect
<1>2. ListThread(t)' /\ ~Owns(t)' /\ \A n : ~Knows(t, n)'
  BY <1>1, ListOutside
<1> QED
  BY <1>1, <1>2, ListLocal

\* The links of a list without marks.
LEMMA PlainNext ==
  ASSUME kind # "lockfree", UNCHANGED kind
  PROVE  \A n : NextNode(n) = mem[next(n)] /\ NextNode(n)' = mem'[next(n)]
  BY DEF NextNode

\* Linking a new node between two nodes keeps the memory well formed.
LEMMA LinkedBetween ==
  ASSUME ListMem, used \subseteq Node, kind # "lockfree", UNCHANGED kind,
         NEW pred \in used \cup {head}, NEW curr \in used \cup {tail},
         NEW n \in Node \ used, NEW k \in Key,
         KeyOf(pred) < k, k < KeyOf(curr),
         used' = used \cup {n},
         mem' = next(pred) :> n @@ next(n) :> curr @@ key(n) :> k @@ mem
  PROVE  ListMem' /\ KeysKept
<1>1. n \notin {head, tail, none} /\ n \notin used /\ pred # tail
  BY ObjectAssumption
<1>2. /\ next(pred) # next(n) /\ next(pred) # key(n) /\ next(n) # key(n)
      /\ \A m : m # n => key(m) # next(pred) /\ key(m) # next(n) /\ key(m) # key(n)
      /\ \A m : m # n /\ m # pred =>
           next(m) # next(pred) /\ next(m) # next(n) /\ next(m) # key(n)
  BY <1>1, Locations
<1>3. /\ DOMAIN mem' = DOMAIN mem \cup {next(pred), next(n), key(n)}
      /\ mem'[next(pred)] = n /\ mem'[next(n)] = curr /\ mem'[key(n)] = k
      /\ \A x \in DOMAIN mem : x # next(pred) /\ x # next(n) /\ x # key(n) => mem'[x] = mem[x]
  BY <1>2 DEF :>, @@
<1>4. KeysKept
  BY <1>1, <1>2, <1>3 DEF ListMem, KeysKept
<1>5. \A m \in used \cup {head, tail} : m # pred => mem'[next(m)] = mem[next(m)]
  BY <1>1, <1>2, <1>3 DEF ListMem
<1>6. ASSUME NEW m \in used' \cup {head}
      PROVE  mem'[next(m)] \in used' \cup {tail} /\ mem'[key(m)] < mem'[key(mem'[next(m)])]
  <2>1. CASE m = n
    BY <1>3, <1>4, <2>1 DEF KeysKept, KeyOf
  <2>2. CASE m = pred
    BY <1>3, <1>4, <2>2 DEF KeysKept, KeyOf
  <2>3. CASE m # n /\ m # pred
    <3>1. m \in used \cup {head} /\ mem[next(m)] \in used \cup {tail}
          /\ mem[key(m)] < mem[key(mem[next(m)])] /\ mem'[next(m)] = mem[next(m)]
      BY <1>5, <2>3, PlainNext DEF ListMem, KeyOf
    <3> QED BY <3>1, <1>4 DEF KeysKept
  <2> QED BY <2>1, <2>2, <2>3
<1>7. \A m \in used' \cup {head} :
        NextNode(m)' \in used' \cup {tail} /\ KeyOf(m)' < KeyOf(NextNode(m))'
  BY <1>6, PlainNext DEF KeyOf
<1>8. /\ used \subseteq used' /\ DOMAIN mem \subseteq DOMAIN mem'
      /\ mem'[next(tail)] = mem[next(tail)]
      /\ \A m \in used' \ used :
           next(m) \in DOMAIN mem' /\ key(m) \in DOMAIN mem' /\ mem'[key(m)] \in Key
  BY <1>1, <1>3, <1>5
<1> QED
  BY <1>4, <1>7, <1>8, ListMemStep

\* Bypassing a node keeps the memory well formed.
LEMMA Bypassed ==
  ASSUME ListMem, used \subseteq Node, kind # "lockfree", UNCHANGED <<kind, used>>,
         NEW pred \in used \cup {head}, NEW v \in used \cup {tail},
         KeyOf(pred) < KeyOf(v),
         DOMAIN mem' = DOMAIN mem, mem'[next(pred)] = v,
         \A x \in DOMAIN mem : x # next(pred) => mem'[x] = mem[x]
  PROVE  ListMem' /\ KeysKept
<1>1. KeysKept
  BY Locations DEF ListMem, KeysKept
<1>2. pred # tail
  BY ObjectAssumption
<1>3. \A m \in used \cup {head, tail} : m # pred => mem'[next(m)] = mem[next(m)]
  BY Locations DEF ListMem
<1>4. ASSUME NEW m \in used \cup {head}
      PROVE  mem'[next(m)] \in used \cup {tail} /\ mem'[key(m)] < mem'[key(mem'[next(m)])]
  <2>1. CASE m = pred
    BY <1>1, <2>1 DEF KeysKept, KeyOf
  <2>2. CASE m # pred
    <3>1. mem[next(m)] \in used \cup {tail}
          /\ mem[key(m)] < mem[key(mem[next(m)])] /\ mem'[next(m)] = mem[next(m)]
      BY <1>3, <2>2, PlainNext DEF ListMem, KeyOf
    <3> QED BY <3>1, <1>1 DEF KeysKept
  <2> QED BY <2>1, <2>2
<1>5. \A m \in used' \cup {head} :
        NextNode(m)' \in used' \cup {tail} /\ KeyOf(m)' < KeyOf(NextNode(m))'
  BY <1>4, PlainNext DEF KeyOf
<1> QED
  BY <1>1, <1>2, <1>3, <1>5, ListMemStep

\* The request of a thread inside an operation of a list.
LEMMA ListRequest ==
  ASSUME Base, kind \in ListKinds, NEW t \in Thread, th[t].pc # "idle"
  PROVE  th[t].call.key \in Key
<1>1. th[t].call \in OrderedRequest
  BY DEF Base, ThreadOK, Asked
<1> QED
  BY <1>1 DEF OrderedRequest

\* What add() and remove() do under locks, between adjacent nodes or not.
LEMMA ApplyKeeps ==
  ASSUME Base, ListInv, kind \in {"coarse", "fine"}, UNCHANGED kind, NEW t \in Thread,
         th[t].pc \in {"walk", "apply"}, KeyOf(th[t].loc.curr) >= th[t].call.key,
         NEW then \in {"return", "unlock"}, Apply(t, then)
  PROVE  /\ OnlyThread(t) /\ ThreadOK(t)' /\ ListThread(t)'
         /\ used \subseteq used' /\ used' \subseteq Node
         /\ ListMem' /\ KeysKept
<1> DEFINE pred == th[t].loc.pred
           curr == th[t].loc.curr
           k == th[t].call.key
<1>1. kind \in ListKinds /\ ListMem /\ ListThread(t) /\ used \subseteq Node
  BY DEF ListInv, ListKinds, Base
<1>2. k \in Key /\ k \in Int /\ k < Above
  BY <1>1, ListRequest, KeysEnclosed
<1>3. /\ pred \in used \cup {head} /\ curr \in used \cup {tail}
      /\ KeyOf(pred) < k /\ KeyOf(pred) \in Int /\ KeyOf(curr) \in Int
  BY <1>1, KeysInt DEF ListThread, Between
<1>4. /\ OnlyThread(t) /\ DOMAIN th'[t] = Fields
      /\ th'[t].pc = then /\ th'[t].ret \in {Yes, No}
      /\ th'[t].wr = th[t].wr /\ th'[t].call = th[t].call
      /\ th'[t].stale = th[t].stale /\ th'[t].node = th[t].node
  BY DEF Apply, Become, Base, ThreadOK, OnlyThread, Fields, Bool
<1>5. ThreadOK(t)'
  <2>1. th'[t].call \in Asked'
    BY <1>4 DEF Base, ThreadOK, Asked
  <2> QED BY <1>4, <2>1 DEF Base, ThreadOK, IsAnswer
<1>6. ListThread(t)'
  <2>1. DOMAIN th[t].wr = {}
    BY <1>1 DEF ListThread
  <2> QED BY <1>4, <2>1, ListOutside
<1>7. CASE Op(t) = "add" /\ ~Found(t)
  <2>1. PICK n : /\ n \in Node \ used
                 /\ used' = used \cup {n}
                 /\ mem' = next(pred) :> n @@ next(n) :> curr @@ key(n) :> k @@ mem
    BY <1>7 DEF Apply, LinkBetween, :>
  <2>2. k < KeyOf(curr)
    BY <1>2, <1>3, <1>7 DEF Found
  <2>3. ListMem' /\ KeysKept
    BY <1>1, <1>2, <1>3, <2>1, <2>2, LinkedBetween
  <2> QED BY <1>1, <1>4, <1>5, <1>6, <2>1, <2>3
<1>8. CASE Op(t) = "remove" /\ Found(t)
  <2>1. used' = used /\ mem' = [mem EXCEPT ![next(pred)] = mem[next(curr)]]
    BY <1>8 DEF Apply, UnlinkCurr
  <2>2. curr \in used
    BY <1>1, <1>2, <1>3, <1>8 DEF Found, ListMem
  <2>3. /\ mem[next(curr)] \in used \cup {tail}
        /\ KeyOf(curr) < KeyOf(mem[next(curr)])
    BY <1>1, <2>2, PlainNext DEF ListMem
  <2>4. KeyOf(pred) < KeyOf(mem[next(curr)])
    BY <1>1, <1>2, <1>3, <1>8, <2>3, KeysInt DEF Found
  <2>5. next(pred) \in DOMAIN mem
    BY <1>1, <1>3 DEF ListMem
  <2>6. ListMem' /\ KeysKept
    BY <1>1, <1>3, <2>1, <2>3, <2>4, <2>5, Bypassed
  <2> QED BY <1>1, <1>4, <1>5, <1>6, <2>1, <2>6
<1>9. CASE ~(Op(t) = "add" /\ ~Found(t)) /\ ~(Op(t) = "remove" /\ Found(t))
  <2>1. UNCHANGED <<mem, used>>
    BY <1>9 DEF Apply
  <2> QED BY <1>1, <1>4, <1>5, <1>6, <2>1, ListMemSame
<1> QED
  BY <1>7, <1>8, <1>9

\* A step to a place between two nodes: ThreadOK and the parts of ListThread.
LEMMA BaseOfSame ==
  ASSUME Base, NEW t \in Thread, UNCHANGED kind, DOMAIN th'[t] = Fields,
         th[t].pc # "idle", th'[t].pc # "idle", th'[t].call = th[t].call,
         th'[t].ret = th[t].ret, th'[t].stale = th[t].stale, th'[t].node = th[t].node
  PROVE  ThreadOK(t)'
  BY DEF Base, ThreadOK, Asked, IsAnswer

\* A step that answers.
LEMMA BaseOfAnswer ==
  ASSUME Base, NEW t \in Thread, UNCHANGED kind, DOMAIN th'[t] = Fields,
         th[t].pc # "idle", th'[t].pc # "idle", th'[t].call = th[t].call,
         th'[t].ret \in {Yes, No, Void}, th'[t].stale = th[t].stale,
         th'[t].node = th[t].node
  PROVE  ThreadOK(t)'
  BY DEF Base, ThreadOK, Asked, IsAnswer

\* The coarse-grained list.
LEMMA CoarseKeeps ==
  ASSUME Base, ListInv, kind = "coarse", NEW t \in Thread, CoarseStep(t), UNCHANGED kind
  PROVE  Base' /\ ListInv'
<1>1. kind \in ListKinds /\ kind # "ordered" /\ ListMem /\ ListThread(t)
  BY DEF ListKinds, ListInv
<1>2. CASE Call(t, OrderedRequest)
  BY <1>1, <1>2, ListCall
<1>3. CASE CoarseLock(t)
  <2>1. /\ OnlyThread(t) /\ DOMAIN th'[t] = Fields
        /\ th'[t].pc = "walk" /\ th'[t].loc = [pred |-> head, curr |-> mem[next(head)]]
        /\ th'[t].call = th[t].call /\ th'[t].ret = th[t].ret /\ th'[t].wr = th[t].wr
        /\ th'[t].stale = th[t].stale /\ th'[t].node = th[t].node
    BY <1>3 DEF CoarseLock, Become, Base, ThreadOK, OnlyThread, Fields
  <2>2. th[t].pc = "begin" /\ UNCHANGED <<mem, used, calls>>
    BY <1>3 DEF CoarseLock, AtPc
  <2>3. Base'
    <3>1. ThreadOK(t)'
      BY <2>1, <2>2, BaseOfSame
    <3>2. \A l \in DOMAIN owner' : owner'[l] \in Thread \cup {none}
      BY <1>3 DEF CoarseLock, Base
    <3>3. used' \subseteq Node /\ calls' \in 0..MaxCalls
      BY <2>2 DEF Base
    <3> QED BY <2>1, <3>1, <3>2, <3>3, BaseStep
  <2>4. ListThread(t)'
    <3>1. /\ mem[next(head)] \in used \cup {tail}
          /\ KeyOf(head) < KeyOf(mem[next(head)])
          /\ KeyOf(head) < th[t].call.key
      BY <1>1, <2>2, PlainNext, ListRequest, KeysEnclosed DEF ListMem
    <3>2. DOMAIN th[t].wr = {}
      BY <1>1, <2>2 DEF ListThread
    <3> QED BY <2>1, <2>2, <3>1, <3>2 DEF ListThread, Between, Passing, Arrived, KeyOf
  <2> QED BY <1>1, <2>1, <2>2, <2>3, <2>4, ListMemSame, ListStep
<1>4. CASE CoarseWalk(t)
  <2> DEFINE curr == th[t].loc.curr
  <2>1. /\ OnlyThread(t) /\ DOMAIN th'[t] = Fields
        /\ th'[t].pc = "walk" /\ th'[t].loc = [pred |-> curr, curr |-> mem[next(curr)]]
        /\ th'[t].call = th[t].call /\ th'[t].ret = th[t].ret /\ th'[t].wr = th[t].wr
        /\ th'[t].stale = th[t].stale /\ th'[t].node = th[t].node
    BY <1>4 DEF CoarseWalk, Local, AtPc, Become, Base, ThreadOK, OnlyThread, Fields
  <2>2. /\ th[t].pc = "walk" /\ KeyOf(curr) < th[t].call.key
        /\ UNCHANGED <<mem, owner, used, calls>>
    BY <1>4 DEF CoarseWalk, AtPc, Local
  <2>3. Base'
    <3>1. ThreadOK(t)'
      BY <2>1, <2>2, BaseOfSame
    <3> QED BY <2>1, <2>2, <3>1, BaseLocal
  <2>4. ListThread(t)'
    <3>1. curr \in used
      BY <1>1, <2>2, ListRequest, KeysEnclosed DEF ListThread, Between, ListMem
    <3>2. mem[next(curr)] \in used \cup {tail} /\ KeyOf(curr) < KeyOf(mem[next(curr)])
      BY <1>1, <3>1, PlainNext DEF ListMem
    <3>3. DOMAIN th[t].wr = {}
      BY <1>1, <2>2 DEF ListThread
    <3> QED BY <2>1, <2>2, <3>1, <3>2, <3>3 DEF ListThread, Between, Passing, Arrived, KeyOf
  <2> QED BY <1>1, <2>1, <2>2, <2>3, <2>4, ListMemSame, ListStep
<1>5. CASE CoarseApply(t)
  <2>1. /\ OnlyThread(t) /\ ThreadOK(t)' /\ ListThread(t)'
        /\ used \subseteq used' /\ used' \subseteq Node
        /\ ListMem' /\ KeysKept
    BY <1>5, ApplyKeeps DEF CoarseApply, AtPc
  <2>2. \A l \in DOMAIN owner' : owner'[l] \in Thread \cup {none}
    BY <1>5 DEF CoarseApply, Base
  <2>3. calls' \in 0..MaxCalls
    BY <1>5 DEF CoarseApply, Base
  <2> QED BY <1>1, <2>1, <2>2, <2>3, BaseStep, ListStep
<1>6. CASE Return(t)
  BY <1>1, <1>6, ListReturn
<1> QED
  BY <1>2, <1>3, <1>4, <1>5, <1>6 DEF CoarseStep

\* The list with a lock in every node.
LEMMA FineKeeps ==
  ASSUME Base, ListInv, kind = "fine", NEW t \in Thread, FineStep(t), UNCHANGED kind
  PROVE  Base' /\ ListInv'
<1>1. kind \in ListKinds /\ kind # "ordered" /\ ListMem /\ ListThread(t)
  BY DEF ListKinds, ListInv
<1>2. CASE Call(t, OrderedRequest)
  BY <1>1, <1>2, ListCall
<1>3. CASE LockHead(t)
  <2>1. /\ OnlyThread(t) /\ DOMAIN th'[t] = Fields
        /\ th'[t].pc = "lock" /\ th'[t].loc = [pred |-> head, curr |-> mem[next(head)]]
        /\ th'[t].call = th[t].call /\ th'[t].ret = th[t].ret /\ th'[t].wr = th[t].wr
        /\ th'[t].stale = th[t].stale /\ th'[t].node = th[t].node
    BY <1>3 DEF LockHead, Become, Base, ThreadOK, OnlyThread, Fields
  <2>2. th[t].pc = "begin" /\ UNCHANGED <<mem, used, calls>>
    BY <1>3 DEF LockHead, AtPc
  <2>3. Base'
    <3>1. ThreadOK(t)'
      BY <2>1, <2>2, BaseOfSame
    <3>2. \A l \in DOMAIN owner' : owner'[l] \in Thread \cup {none}
      BY <1>3 DEF LockHead, Lock, Base
    <3>3. used' \subseteq Node /\ calls' \in 0..MaxCalls
      BY <2>2 DEF Base
    <3> QED BY <2>1, <3>1, <3>2, <3>3, BaseStep
  <2>4. ListThread(t)'
    <3>1. /\ mem[next(head)] \in used \cup {tail}
          /\ KeyOf(head) < KeyOf(mem[next(head)])
          /\ KeyOf(head) < th[t].call.key
      BY <1>1, <2>2, PlainNext, ListRequest, KeysEnclosed DEF ListMem
    <3>2. DOMAIN th[t].wr = {}
      BY <1>1, <2>2 DEF ListThread
    <3> QED BY <2>1, <2>2, <3>1, <3>2 DEF ListThread, Between, Passing, Arrived, KeyOf
  <2> QED BY <1>1, <2>1, <2>2, <2>3, <2>4, ListMemSame, ListStep
<1>4. CASE LockCurr(t)
  <2> DEFINE curr == th[t].loc.curr
  <2>1. /\ OnlyThread(t) /\ DOMAIN th'[t] = Fields
        /\ th'[t].pc = IF KeyOf(curr) < th[t].call.key THEN "advance" ELSE "apply"
        /\ th'[t].loc = th[t].loc
        /\ th'[t].call = th[t].call /\ th'[t].ret = th[t].ret /\ th'[t].wr = th[t].wr
        /\ th'[t].stale = th[t].stale /\ th'[t].node = th[t].node
    BY <1>4 DEF LockCurr, Become, Base, ThreadOK, OnlyThread, Fields
  <2>2. th[t].pc = "lock" /\ UNCHANGED <<mem, used, calls>>
    BY <1>4 DEF LockCurr, AtPc
  <2>3. Base'
    <3>1. ThreadOK(t)'
      BY <2>1, <2>2, BaseOfSame
    <3>2. \A l \in DOMAIN owner' : owner'[l] \in Thread \cup {none}
      BY <1>4 DEF LockCurr, Lock, Base
    <3>3. used' \subseteq Node /\ calls' \in 0..MaxCalls
      BY <2>2 DEF Base
    <3> QED BY <2>1, <3>1, <3>2, <3>3, BaseStep
  <2>4. ListThread(t)'
    <3>1. /\ th[t].loc.pred \in used \cup {head} /\ curr \in used \cup {tail}
          /\ KeyOf(th[t].loc.pred) < th[t].call.key
          /\ KeyOf(th[t].loc.pred) < KeyOf(curr)
          /\ DOMAIN th[t].wr = {}
      BY <1>1, <2>2 DEF ListThread, Between
    <3>2. KeyOf(curr) \in Int /\ th[t].call.key \in Int
      BY <1>1, <2>2, <3>1, KeysInt, ListRequest, KeysEnclosed
    <3> QED BY <1>1, <2>1, <2>2, <3>1, <3>2 DEF ListThread, Between, Passing, Arrived, KeyOf
  <2> QED BY <1>1, <2>1, <2>2, <2>3, <2>4, ListMemSame, ListStep
<1>5. CASE Advance(t)
  <2> DEFINE curr == th[t].loc.curr
  <2>1. /\ OnlyThread(t) /\ DOMAIN th'[t] = Fields
        /\ th'[t].pc = "lock" /\ th'[t].loc = [pred |-> curr, curr |-> mem[next(curr)]]
        /\ th'[t].call = th[t].call /\ th'[t].ret = th[t].ret /\ th'[t].wr = th[t].wr
        /\ th'[t].stale = th[t].stale /\ th'[t].node = th[t].node
    BY <1>5 DEF Advance, Become, Base, ThreadOK, OnlyThread, Fields
  <2>2. th[t].pc = "advance" /\ UNCHANGED <<mem, used, calls>>
    BY <1>5 DEF Advance, AtPc
  <2>3. Base'
    <3>1. ThreadOK(t)'
      BY <2>1, <2>2, BaseOfSame
    <3>2. \A l \in DOMAIN owner' : owner'[l] \in Thread \cup {none}
      BY <1>5 DEF Advance, Base
    <3>3. used' \subseteq Node /\ calls' \in 0..MaxCalls
      BY <2>2 DEF Base
    <3> QED BY <2>1, <3>1, <3>2, <3>3, BaseStep
  <2>4. ListThread(t)'
    <3>1. KeyOf(curr) < th[t].call.key /\ curr \in used \cup {tail} /\ DOMAIN th[t].wr = {}
      BY <1>1, <2>2 DEF ListThread, Between, Passing
    <3>2. curr \in used
      BY <1>1, <2>2, <3>1, ListRequest, KeysEnclosed DEF ListMem
    <3>3. mem[next(curr)] \in used \cup {tail} /\ KeyOf(curr) < KeyOf(mem[next(curr)])
      BY <1>1, <3>2, PlainNext DEF ListMem
    <3> QED BY <2>1, <2>2, <3>1, <3>2, <3>3 DEF ListThread, Between, Passing, Arrived, KeyOf
  <2> QED BY <1>1, <2>1, <2>2, <2>3, <2>4, ListMemSame, ListStep
<1>6. CASE FineApply(t)
  <2>1. KeyOf(th[t].loc.curr) >= th[t].call.key /\ th[t].pc = "apply"
    BY <1>1, <1>6 DEF FineApply, AtPc, ListThread, Arrived
  <2>2. /\ OnlyThread(t) /\ ThreadOK(t)' /\ ListThread(t)'
        /\ used \subseteq used' /\ used' \subseteq Node
        /\ ListMem' /\ KeysKept
    BY <1>6, <2>1, ApplyKeeps DEF FineApply
  <2>3. \A l \in DOMAIN owner' : owner'[l] \in Thread \cup {none}
    BY <1>6 DEF FineApply, Base
  <2>4. calls' \in 0..MaxCalls
    BY <1>6 DEF FineApply, Base
  <2> QED BY <1>1, <2>2, <2>3, <2>4, BaseStep, ListStep
<1>7. CASE UnlockBoth(t)
  <2>1. /\ th[t].pc = "unlock" /\ UNCHANGED <<mem, used, calls>>
        /\ \A l \in DOMAIN owner' : owner'[l] \in Thread \cup {none}
    BY <1>7 DEF UnlockBoth, AtPc, Base
  <2>2. /\ OnlyThread(t) /\ DOMAIN th'[t] = Fields
        /\ th'[t].pc \in {"unlock", "return"}
        /\ th'[t].call = th[t].call /\ th'[t].ret = th[t].ret /\ th'[t].wr = th[t].wr
        /\ th'[t].stale = th[t].stale /\ th'[t].node = th[t].node
    BY <1>7, <2>1 DEF UnlockBoth, Become, Base, ThreadOK, OnlyThread, Fields
  <2>3. ThreadOK(t)'
    BY <2>1, <2>2, BaseOfSame
  <2>4. ListThread(t)'
    <3>1. DOMAIN th[t].wr = {}
      BY <1>1, <2>1 DEF ListThread
    <3> QED BY <2>2, <3>1, ListOutside
  <2>5. used' \subseteq Node /\ calls' \in 0..MaxCalls
    BY <2>1 DEF Base
  <2> QED BY <1>1, <2>1, <2>2, <2>3, <2>4, <2>5, BaseStep, ListMemSame, ListStep
<1>8. CASE Return(t)
  BY <1>1, <1>8, ListReturn
<1> QED
  BY <1>2, <1>3, <1>4, <1>5, <1>6, <1>7, <1>8 DEF FineStep

\* The links of the list with marks.
LEMMA MarkedNext ==
  ASSUME kind = "lockfree", UNCHANGED kind
  PROVE  \A n : NextNode(n) = mem[next(n)][1] /\ NextNode(n)' = mem'[next(n)][1]
  BY DEF NextNode, Ptr

\* The pointer of an unmarked link.
LEMMA PointerOfLink ==
  ASSUME NEW n PROVE Link(n)[1] = n
<1> DEFINE b == FALSE
<1> HIDE DEF b
<1>1. <<n, b>>[1] = n
  OBVIOUS
<1> QED
  BY <1>1 DEF Link, b

\* Linking a new node, in a list with marks.
LEMMA MarkableBetween ==
  ASSUME ListMem, used \subseteq Node, kind = "lockfree", UNCHANGED kind,
         NEW pred \in used \cup {head}, NEW curr \in used \cup {tail},
         NEW n \in Node \ used, NEW k \in Key,
         KeyOf(pred) < k, k < KeyOf(curr),
         used' = used \cup {n},
         mem' = next(pred) :> Link(n) @@ next(n) :> Link(curr) @@ key(n) :> k @@ mem
  PROVE  ListMem' /\ KeysKept
<1>1. n \notin {head, tail, none} /\ n \notin used /\ pred # tail
  BY ObjectAssumption
<1>2. /\ next(pred) # next(n) /\ next(pred) # key(n) /\ next(n) # key(n)
      /\ \A m : m # n => key(m) # next(pred) /\ key(m) # next(n) /\ key(m) # key(n)
      /\ \A m : m # n /\ m # pred =>
           next(m) # next(pred) /\ next(m) # next(n) /\ next(m) # key(n)
  BY <1>1, Locations
<1>3. /\ DOMAIN mem' = DOMAIN mem \cup {next(pred), next(n), key(n)}
      /\ mem'[next(pred)] = Link(n) /\ mem'[next(n)] = Link(curr) /\ mem'[key(n)] = k
      /\ \A x \in DOMAIN mem : x # next(pred) /\ x # next(n) /\ x # key(n) => mem'[x] = mem[x]
  BY <1>2 DEF :>, @@
<1>4. KeysKept
  BY <1>1, <1>2, <1>3 DEF ListMem, KeysKept
<1>5. ASSUME NEW m \in used \cup {head, tail}, m # pred PROVE mem'[next(m)] = mem[next(m)]
  <2>1. next(m) \in DOMAIN mem /\ m # n
    BY <1>1 DEF ListMem
  <2> QED BY <1>2, <1>3, <1>5, <2>1
<1>6. mem'[next(pred)][1] = n /\ mem'[next(n)][1] = curr
  BY <1>3, PointerOfLink
<1>7. ASSUME NEW m \in used' \cup {head}
      PROVE  /\ mem'[next(m)][1] \in used' \cup {tail}
             /\ mem'[key(m)] < mem'[key(mem'[next(m)][1])]
  <2>1. CASE m = n
    BY <1>3, <1>4, <1>6, <2>1 DEF KeysKept, KeyOf
  <2>2. CASE m = pred
    BY <1>3, <1>4, <1>6, <2>2 DEF KeysKept, KeyOf
  <2>3. CASE m # n /\ m # pred
    <3>1. m \in used \cup {head} /\ mem[next(m)][1] \in used \cup {tail}
          /\ mem[key(m)] < mem[key(mem[next(m)][1])] /\ mem'[next(m)] = mem[next(m)]
      BY <1>5, <2>3, MarkedNext DEF ListMem, KeyOf
    <3> QED BY <3>1, <1>4 DEF KeysKept
  <2> QED BY <2>1, <2>2, <2>3
<1>8. \A m \in used' \cup {head} :
        NextNode(m)' \in used' \cup {tail} /\ KeyOf(m)' < KeyOf(NextNode(m))'
  BY <1>7, MarkedNext DEF KeyOf
<1>9. /\ used \subseteq used' /\ DOMAIN mem \subseteq DOMAIN mem'
      /\ mem'[next(tail)] = mem[next(tail)]
      /\ \A m \in used' \ used :
           next(m) \in DOMAIN mem' /\ key(m) \in DOMAIN mem' /\ mem'[key(m)] \in Key
  BY <1>1, <1>3, <1>5
<1> QED
  BY <1>4, <1>8, <1>9, ListMemStep

\* A compare-and-set that moves the link of p to a larger node.
LEMMA CompareAndSetKeeps ==
  ASSUME ListMem, used \subseteq Node, kind = "lockfree", UNCHANGED <<kind, used>>,
         NEW p \in used \cup {head}, NEW c, NEW v \in used \cup {tail}, NEW mark,
         KeyOf(p) < KeyOf(v), CompareAndSet(p, c, v, mark)
  PROVE  ListMem' /\ KeysKept
<1>1. next(p) \in DOMAIN mem /\ p # tail
  BY ObjectAssumption DEF ListMem
<1>2. /\ DOMAIN mem' = DOMAIN mem /\ mem'[next(p)] = <<v, mark>>
      /\ \A x \in DOMAIN mem : x # next(p) => mem'[x] = mem[x]
  BY <1>1 DEF CompareAndSet
<1>3. KeysKept
  BY <1>2, Locations DEF ListMem, KeysKept
<1>4. \A m \in used \cup {head, tail} : m # p => mem'[next(m)] = mem[next(m)]
  BY <1>2, Locations DEF ListMem
<1>5. ASSUME NEW m \in used \cup {head}
      PROVE  /\ mem'[next(m)][1] \in used \cup {tail}
             /\ mem'[key(m)] < mem'[key(mem'[next(m)][1])]
  <2>1. CASE m = p
    <3>1. mem'[next(m)][1] = v
      BY <1>2, <2>1
    <3> QED BY <1>3, <2>1, <3>1 DEF KeysKept, KeyOf
  <2>2. CASE m # p
    <3>1. mem[next(m)][1] \in used \cup {tail}
          /\ mem[key(m)] < mem[key(mem[next(m)][1])] /\ mem'[next(m)] = mem[next(m)]
      BY <1>4, <2>2, MarkedNext DEF ListMem, KeyOf
    <3> QED BY <3>1, <1>3 DEF KeysKept
  <2> QED BY <2>1, <2>2
<1>6. \A m \in used' \cup {head} :
        NextNode(m)' \in used' \cup {tail} /\ KeyOf(m)' < KeyOf(NextNode(m))'
  BY <1>5, MarkedNext DEF KeyOf
<1> QED
  BY <1>1, <1>2, <1>3, <1>4, <1>6, ListMemStep

\* A thread that stands at a place given by pc and loc, in a list without
\* transactions whose memory does not change.
LEMMA ListMoves ==
  ASSUME Base, ListInv, kind \in ListKinds, kind # "ordered", NEW t \in Thread,
         UNCHANGED <<kind, mem, owner, used, calls>>, OnlyThread(t), ThreadOK(t)',
         ListThread(t)'
  PROVE  Base' /\ ListInv'
<1>1. ListMem
  BY DEF ListInv
<1> QED
  BY <1>1, BaseLocal, ListMemSame, ListStep

\* The lock-free list.
LEMMA LockFreeKeeps ==
  ASSUME Base, ListInv, kind = "lockfree", NEW t \in Thread, LockFreeStep(t), UNCHANGED kind
  PROVE  Base' /\ ListInv'
<1> DEFINE pred == th[t].loc.pred
           curr == th[t].loc.curr
           succ == th[t].loc.succ
           k == th[t].call.key
<1>1. /\ kind \in ListKinds /\ kind # "ordered" /\ ListMem /\ ListThread(t)
      /\ used \subseteq Node /\ DOMAIN th[t] = Fields /\ DOMAIN th = Thread
  BY DEF ListKinds, ListInv, Base, ThreadOK
<1>2. th[t].pc # "idle" => k \in Key /\ k \in Int /\ -1 < k /\ k < Above
  BY <1>1, ListRequest, KeysEnclosed
<1>3. \A n \in used \cup {head} :
        /\ Ptr(n) \in used \cup {tail} /\ KeyOf(n) < KeyOf(Ptr(n))
        /\ KeyOf(n) \in Int /\ KeyOf(Ptr(n)) \in Int
  BY <1>1, KeysInt DEF ListMem, NextNode
<1>4. ~Marked(tail) /\ Ptr(tail) = tail /\ KeyOf(tail) = Above /\ KeyOf(head) = -1
  <2>1. mem[next(tail)] = Link(tail) /\ KeyOf(tail) = Above /\ KeyOf(head) = -1
    BY <1>1 DEF ListMem, Link
  <2>2. Ptr(tail) = tail
    BY <2>1, PointerOfLink DEF Ptr
  <2>3. ~Link(tail)[2]
    BY Zenon DEF Link
  <2> QED BY <2>1, <2>2, <2>3, Zenon DEF Marked
<1>5. th[t].pc \in Between =>
        /\ pred \in used \cup {head} /\ curr \in used \cup {tail}
        /\ KeyOf(pred) < k /\ KeyOf(pred) < KeyOf(curr)
        /\ KeyOf(pred) \in Int /\ KeyOf(curr) \in Int
  BY <1>1, KeysInt DEF ListThread
<1>6. th[t].pc # "commit" /\ DOMAIN th[t].wr = {}
  BY <1>1 DEF ListThread
<1>7. CASE Call(t, OrderedRequest)
  BY <1>1, <1>7, ListCall
<1>8. CASE StartLocate(t)
  <2>1. /\ OnlyThread(t) /\ DOMAIN th'[t] = Fields
        /\ th'[t].pc = "succ" /\ th'[t].loc = [pred |-> head, curr |-> Ptr(head)]
        /\ th'[t].call = th[t].call /\ th'[t].ret = th[t].ret /\ th'[t].wr = th[t].wr
        /\ th'[t].stale = th[t].stale /\ th'[t].node = th[t].node
    BY <1>1, <1>8 DEF StartLocate, Local, Become, OnlyThread, Fields
  <2>2. th[t].pc = "begin" /\ UNCHANGED <<mem, owner, used, calls>>
    BY <1>8 DEF StartLocate, Local, AtPc
  <2>3. ThreadOK(t)'
    BY <2>1, <2>2, BaseOfSame
  <2>4. ListThread(t)'
    BY <1>2, <1>3, <1>4, <1>6, <2>1, <2>2 DEF ListThread, Between, Passing, Arrived, KeyOf
  <2> QED BY <1>1, <2>1, <2>2, <2>3, <2>4, ListMoves
<1>9. CASE ReadSucc(t)
  <2>1. /\ OnlyThread(t) /\ DOMAIN th'[t] = Fields
        /\ th'[t].call = th[t].call /\ th'[t].ret = th[t].ret /\ th'[t].wr = th[t].wr
        /\ th'[t].stale = th[t].stale /\ th'[t].node = th[t].node
    BY <1>1, <1>9 DEF ReadSucc, Local, Become, OnlyThread, Fields
  <2>2. th[t].pc = "succ" /\ UNCHANGED <<mem, owner, used, calls>>
    BY <1>9 DEF ReadSucc, Local, AtPc
  <2>3. \/ /\ Marked(curr) /\ th'[t].pc = "unlink"
           /\ th'[t].loc = [pred |-> pred, curr |-> curr, succ |-> Ptr(curr)]
        \/ /\ KeyOf(curr) >= k /\ th'[t].pc \in {"link", "found"} /\ th'[t].loc = th[t].loc
        \/ /\ ~(KeyOf(curr) >= k) /\ th'[t].pc = "succ"
           /\ th'[t].loc = [pred |-> curr, curr |-> Ptr(curr)]
    BY <1>1, <1>9, <2>2 DEF ReadSucc, Local, Become, Fields
  <2>4. ThreadOK(t)'
    BY <2>1, <2>2, <2>3, BaseOfSame
  <2>5. th[t].pc \in Between
    BY <2>2 DEF Between
  <2>6. CASE Marked(curr) /\ th'[t].pc = "unlink"
             /\ th'[t].loc = [pred |-> pred, curr |-> curr, succ |-> Ptr(curr)]
    <3>1. curr \in used
      BY <1>4, <1>5, <2>5, <2>6
    <3>2. ListThread(t)'
      BY <1>3, <1>5, <1>6, <2>1, <2>2, <2>5, <2>6, <3>1
         DEF ListThread, Between, Passing, Arrived, KeyOf
    <3> QED BY <1>1, <2>1, <2>2, <2>4, <3>2, ListMoves
  <2>7. CASE KeyOf(curr) >= k /\ th'[t].pc \in {"link", "found"} /\ th'[t].loc = th[t].loc
    <3>1. ListThread(t)'
      BY <1>5, <1>6, <2>1, <2>2, <2>5, <2>7
         DEF ListThread, Between, Passing, Arrived, KeyOf
    <3> QED BY <1>1, <2>1, <2>2, <2>4, <3>1, ListMoves
  <2>8. CASE ~(KeyOf(curr) >= k) /\ th'[t].pc = "succ"
             /\ th'[t].loc = [pred |-> curr, curr |-> Ptr(curr)]
    <3>1. KeyOf(curr) < k /\ curr \in used
      BY <1>2, <1>4, <1>5, <2>2, <2>5, <2>8
    <3>2. ListThread(t)'
      BY <1>3, <1>5, <1>6, <2>1, <2>2, <2>5, <2>8, <3>1
         DEF ListThread, Between, Passing, Arrived, KeyOf
    <3> QED BY <1>1, <2>1, <2>2, <2>4, <3>2, ListMoves
  <2> QED BY <2>3, <2>6, <2>7, <2>8
<1>10. ASSUME NEW where, Restart(t, where), where # "idle" PROVE Base' /\ ListInv'
  <2>1. /\ OnlyThread(t) /\ DOMAIN th'[t] = Fields /\ th'[t].pc = "begin"
        /\ th'[t].call = th[t].call /\ th'[t].ret = th[t].ret /\ th'[t].wr = th[t].wr
        /\ th'[t].stale = th[t].stale /\ th'[t].node = th[t].node
    BY <1>1, <1>10 DEF Restart, Local, Become, OnlyThread, Fields
  <2>2. th[t].pc # "idle" /\ UNCHANGED <<mem, owner, used, calls>>
    BY <1>10 DEF Restart, Local, AtPc
  <2>3. ThreadOK(t)'
    BY <2>1, <2>2, BaseOfSame
  <2>4. ListThread(t)'
    BY <1>6, <2>1, ListOutside
  <2> QED BY <1>1, <2>1, <2>2, <2>3, <2>4, ListMoves
<1>11. CASE Unlink(t)
  <2>1. th[t].pc = "unlink" /\ th[t].pc \in Between
    BY <1>11 DEF Unlink, AtPc, Between
  <2>2. curr \in used /\ succ \in used \cup {tail} /\ KeyOf(curr) < KeyOf(succ)
    BY <1>1, <2>1 DEF ListThread
  <2>3. KeyOf(pred) < KeyOf(succ) /\ KeyOf(succ) \in Int
    BY <1>1, <1>5, <2>1, <2>2, KeysInt
  <2>4. CASE /\ CompareAndSet(pred, curr, succ, FALSE)
             /\ Become(t, [th[t] EXCEPT !.pc = "succ",
                                        !.loc = [pred |-> pred, curr |-> succ]])
             /\ UNCHANGED <<owner, used, calls>>
    <3>1. /\ OnlyThread(t) /\ DOMAIN th'[t] = Fields
          /\ th'[t].pc = "succ" /\ th'[t].loc = [pred |-> pred, curr |-> succ]
          /\ th'[t].call = th[t].call /\ th'[t].ret = th[t].ret /\ th'[t].wr = th[t].wr
          /\ th'[t].stale = th[t].stale /\ th'[t].node = th[t].node
      BY <1>1, <2>4 DEF Become, OnlyThread, Fields
    <3>2. ThreadOK(t)'
      BY <2>1, <3>1, BaseOfSame
    <3>3. ListMem' /\ KeysKept
      BY <1>1, <1>5, <2>1, <2>2, <2>3, <2>4, CompareAndSetKeeps
    <3>4. ListThread(t)'
      BY <1>5, <1>6, <2>1, <2>2, <2>3, <2>4, <3>1, <3>3
         DEF ListThread, Between, Passing, Arrived, KeyOf, KeysKept
    <3> QED BY <1>1, <2>4, <3>1, <3>2, <3>3, <3>4, BaseLocal, ListStep
  <2> QED BY <1>10, <1>11, <2>4 DEF Unlink
<1>12. CASE AddFound(t)
  <2>1. /\ OnlyThread(t) /\ DOMAIN th'[t] = Fields
        /\ th'[t].pc = "return" /\ th'[t].ret = No
        /\ th'[t].call = th[t].call /\ th'[t].wr = th[t].wr
        /\ th'[t].stale = th[t].stale /\ th'[t].node = th[t].node
    BY <1>1, <1>12 DEF AddFound, Local, Become, OnlyThread, Fields
  <2>2. th[t].pc # "idle" /\ UNCHANGED <<mem, owner, used, calls>>
    BY <1>12 DEF AddFound, Local, AtPc
  <2>3. ThreadOK(t)'
    BY <2>1, <2>2, BaseOfAnswer
  <2>4. ListThread(t)'
    BY <1>6, <2>1, ListOutside
  <2> QED BY <1>1, <2>1, <2>2, <2>3, <2>4, ListMoves
<1>13. CASE AddLink(t)
  <2>1. th[t].pc = "link" /\ th[t].pc \in Between /\ ~Found(t)
    BY <1>13 DEF AddLink, AtPc, Between
  <2>2. k < KeyOf(curr)
    BY <1>1, <1>2, <1>5, <2>1 DEF ListThread, Arrived, Found
  <2>3. ASSUME ~Restart(t, "link") PROVE Base' /\ ListInv'
    <3>1. PICK n : /\ n \in Node \ used /\ used' = used \cup {n}
                   /\ mem' = next(pred) :> Link(n) @@ next(n) :> Link(curr) @@ key(n) :> k @@ mem
      BY <1>13, <2>3 DEF AddLink
    <3>2. /\ Become(t, [th[t] EXCEPT !.pc = "return", !.ret = Yes])
          /\ UNCHANGED <<owner, calls>>
      BY <1>13, <2>3 DEF AddLink
    <3>3. /\ OnlyThread(t) /\ DOMAIN th'[t] = Fields
          /\ th'[t].pc = "return" /\ th'[t].ret = Yes
          /\ th'[t].call = th[t].call /\ th'[t].wr = th[t].wr
          /\ th'[t].stale = th[t].stale /\ th'[t].node = th[t].node
      BY <1>1, <3>2 DEF Become, OnlyThread, Fields
    <3>4. ThreadOK(t)'
      BY <2>1, <3>3, BaseOfAnswer
    <3>5. ListThread(t)'
      BY <1>6, <3>3, ListOutside
    <3>6. ListMem' /\ KeysKept
      BY <1>1, <1>2, <1>5, <2>1, <2>2, <3>1, MarkableBetween
    <3>7. /\ used \subseteq used' /\ used' \subseteq Node /\ calls' \in 0..MaxCalls
          /\ \A l \in DOMAIN owner' : owner'[l] \in Thread \cup {none}
      BY <3>1, <3>2 DEF Base
    <3> QED BY <1>1, <3>3, <3>4, <3>5, <3>6, <3>7, BaseStep, ListStep
  <2> QED BY <1>10, <2>3
<1>14. CASE RemoveRead(t)
  <2>1. th[t].pc = "found" /\ th[t].pc \in Between /\ UNCHANGED <<mem, owner, used, calls>>
    BY <1>14 DEF RemoveRead, Local, AtPc, Between
  <2>2. /\ OnlyThread(t) /\ DOMAIN th'[t] = Fields
        /\ th'[t].call = th[t].call /\ th'[t].wr = th[t].wr
        /\ th'[t].stale = th[t].stale /\ th'[t].node = th[t].node
        /\ th'[t].ret \in {th[t].ret, No}
    BY <1>1, <1>14 DEF RemoveRead, Local, Become, OnlyThread, Fields
  <2>3. \/ th'[t].pc \in {"return", "begin"}
        \/ /\ Found(t) /\ th'[t].pc = "mark"
           /\ th'[t].loc = [pred |-> pred, curr |-> curr, succ |-> Ptr(curr)]
    BY <1>1, <1>14 DEF RemoveRead, Local, Become, Fields
  <2>4. ThreadOK(t)'
    <3>1. th'[t].pc # "idle"
      BY <2>3
    <3> QED BY <2>1, <2>2, <3>1, BaseOfAnswer, BaseOfSame
  <2>5. ListThread(t)'
    <3>1. CASE th'[t].pc \in {"return", "begin"}
      BY <1>6, <2>2, <3>1, ListOutside
    <3>2. CASE /\ Found(t) /\ th'[t].pc = "mark"
               /\ th'[t].loc = [pred |-> pred, curr |-> curr, succ |-> Ptr(curr)]
      <4>1. curr \in used
        BY <1>2, <1>4, <1>5, <2>1, <3>2 DEF Found
      <4> QED BY <1>3, <1>5, <1>6, <2>1, <2>2, <3>2, <4>1
                 DEF ListThread, Between, Passing, Arrived, KeyOf
    <3> QED BY <2>3, <3>1, <3>2
  <2> QED BY <1>1, <2>1, <2>2, <2>4, <2>5, ListMoves
<1>15. CASE Mark(t)
  <2>1. th[t].pc = "mark" /\ th[t].pc \in Between
    BY <1>15 DEF Mark, AtPc, Between
  <2>2. curr \in used /\ succ \in used \cup {tail} /\ KeyOf(curr) < KeyOf(succ)
    BY <1>1, <2>1 DEF ListThread
  <2>3. CASE /\ CompareAndSet(curr, succ, succ, TRUE)
             /\ Become(t, [th[t] EXCEPT !.pc = "detach", !.ret = Yes])
             /\ UNCHANGED <<owner, used, calls>>
    <3>1. /\ OnlyThread(t) /\ DOMAIN th'[t] = Fields
          /\ th'[t].pc = "detach" /\ th'[t].loc = th[t].loc /\ th'[t].ret = Yes
          /\ th'[t].call = th[t].call /\ th'[t].wr = th[t].wr
          /\ th'[t].stale = th[t].stale /\ th'[t].node = th[t].node
      BY <1>1, <2>3 DEF Become, OnlyThread, Fields
    <3>2. ThreadOK(t)'
      BY <2>1, <3>1, BaseOfAnswer
    <3>3. ListMem' /\ KeysKept
      BY <1>1, <2>2, <2>3, CompareAndSetKeeps
    <3>4. ListThread(t)'
      BY <1>5, <1>6, <2>1, <2>2, <2>3, <3>1, <3>3
         DEF ListThread, Between, Passing, Arrived, KeyOf, KeysKept
    <3> QED BY <1>1, <2>3, <3>1, <3>2, <3>3, <3>4, BaseLocal, ListStep
  <2> QED BY <1>10, <1>15, <2>3 DEF Mark
<1>16. CASE Detach(t)
  <2>1. /\ th[t].pc = "detach" /\ th[t].pc \in Between /\ UNCHANGED <<owner, used, calls>>
        /\ CompareAndSet(pred, curr, succ, FALSE) \/ UNCHANGED mem
    BY <1>16 DEF Detach, AtPc, Between
  <2>2. curr \in used /\ succ \in used \cup {tail} /\ KeyOf(curr) < KeyOf(succ)
    BY <1>1, <2>1 DEF ListThread
  <2>3. KeyOf(pred) < KeyOf(succ)
    BY <1>1, <1>5, <2>1, <2>2, KeysInt
  <2>4. /\ OnlyThread(t) /\ DOMAIN th'[t] = Fields /\ th'[t].pc = "return"
        /\ th'[t].call = th[t].call /\ th'[t].ret = th[t].ret /\ th'[t].wr = th[t].wr
        /\ th'[t].stale = th[t].stale /\ th'[t].node = th[t].node
    BY <1>1, <1>16 DEF Detach, Become, OnlyThread, Fields
  <2>5. ThreadOK(t)'
    BY <2>1, <2>4, BaseOfSame
  <2>6. ListThread(t)'
    BY <1>6, <2>4, ListOutside
  <2>7. ListMem' /\ KeysKept
    <3>1. CASE CompareAndSet(pred, curr, succ, FALSE)
      BY <1>1, <1>5, <2>1, <2>2, <2>3, <3>1, CompareAndSetKeeps
    <3>2. CASE UNCHANGED mem
      BY <1>1, <2>1, <3>2, ListMemSame
    <3> QED BY <2>1, <3>1, <3>2
  <2> QED BY <1>1, <2>1, <2>4, <2>5, <2>6, <2>7, BaseLocal, ListStep
<1>17. CASE StartContains(t)
  <2>1. /\ OnlyThread(t) /\ DOMAIN th'[t] = Fields
        /\ th'[t].pc = "follow" /\ th'[t].loc = [curr |-> head]
        /\ th'[t].call = th[t].call /\ th'[t].ret = th[t].ret /\ th'[t].wr = th[t].wr
        /\ th'[t].stale = th[t].stale /\ th'[t].node = th[t].node
    BY <1>1, <1>17 DEF StartContains, Local, Become, OnlyThread, Fields
  <2>2. th[t].pc = "begin" /\ UNCHANGED <<mem, owner, used, calls>>
    BY <1>17 DEF StartContains, Local, AtPc
  <2>3. ThreadOK(t)'
    BY <2>1, <2>2, BaseOfSame
  <2>4. ListThread(t)'
    BY <1>6, <2>1, <2>2 DEF ListThread, Between, Passing, Arrived
  <2> QED BY <1>1, <2>1, <2>2, <2>3, <2>4, ListMoves
<1>18. CASE Follow(t)
  <2>1. th[t].pc = "follow" /\ UNCHANGED <<mem, owner, used, calls>>
    BY <1>18 DEF Follow, Local, AtPc
  <2>2. /\ OnlyThread(t) /\ DOMAIN th'[t] = Fields
        /\ th'[t].call = th[t].call /\ th'[t].wr = th[t].wr
        /\ th'[t].stale = th[t].stale /\ th'[t].node = th[t].node
        /\ th'[t].loc = [curr |-> Ptr(curr)]
        /\ th'[t].pc \in {"follow", "return"} /\ th'[t].ret \in {th[t].ret, Yes, No}
    BY <1>1, <1>18, <2>1 DEF Follow, Local, Become, OnlyThread, Fields, Bool
  <2>3. ThreadOK(t)'
    BY <2>1, <2>2, BaseOfAnswer, BaseOfSame
  <2>4. ListThread(t)'
    <3>1. curr \in used \cup {head, tail}
      BY <1>1, <2>1 DEF ListThread
    <3>2. Ptr(curr) \in used \cup {head, tail}
      BY <1>3, <1>4, <3>1
    <3> QED BY <1>6, <2>1, <2>2, <3>2 DEF ListThread, Between, Passing, Arrived
  <2> QED BY <1>1, <2>1, <2>2, <2>3, <2>4, ListMoves
<1>19. CASE Return(t)
  BY <1>1, <1>19, ListReturn
<1> QED
  BY <1>7, <1>8, <1>9, <1>11, <1>12, <1>13, <1>14, <1>15, <1>16, <1>17, <1>18, <1>19
     DEF LockFreeStep

----------------------------------------------------------------------------
(* Transactions.                                                           *)

\* The effect of Commit() on its thread and on the others.
LEMMA CommitEffect ==
  ASSUME Base, NEW t \in Thread, Commit(t), UNCHANGED kind
  PROVE  /\ Base' /\ UNCHANGED <<owner, used, calls>>
         /\ th[t].pc = "commit" /\ ~th[t].stale /\ mem' = th[t].wr @@ mem
         /\ th'[t].pc = "return" /\ th'[t].wr = << >> /\ th'[t].rd = {}
         /\ th'[t].call = th[t].call /\ th'[t].node = th[t].node /\ th'[t].ret = th[t].ret
         /\ \A u \in Thread \ {t} :
              /\ AsBefore(u) /\ th'[u].rd = th[u].rd
              /\ ~th'[u].stale => ~th[u].stale /\ th[u].rd \cap DOMAIN th[t].wr = {}
<1>1. /\ th[t].pc = "commit" /\ ~th[t].stale /\ mem' = th[t].wr @@ mem
      /\ UNCHANGED <<owner, used, calls>>
  BY DEF Commit, AtPc
<1>2. \A u \in Thread : ThreadOK(u) /\ DOMAIN th[u] = Fields
  BY DEF Base, ThreadOK
<1>3. DOMAIN th' = Thread
  BY DEF Commit
<1>4. th'[t] = [th[t] EXCEPT !.pc = "return", !.rd = {}, !.wr = << >>]
  BY DEF Commit
<1>5. /\ DOMAIN th'[t] = Fields
      /\ th'[t].pc = "return" /\ th'[t].wr = << >> /\ th'[t].rd = {}
      /\ th'[t].call = th[t].call /\ th'[t].node = th[t].node /\ th'[t].ret = th[t].ret
      /\ th'[t].stale = th[t].stale
  BY <1>2, <1>4 DEF Fields
<1>6. ASSUME NEW u \in Thread, u # t
      PROVE  th'[u] = [th[u] EXCEPT !.stale = th[u].stale \/ th[u].rd \cap DOMAIN th[t].wr # {}]
  BY <1>6 DEF Commit
<1>7. ASSUME NEW u \in Thread, u # t
      PROVE  /\ AsBefore(u) /\ th'[u].rd = th[u].rd /\ th'[u].ret = th[u].ret
             /\ DOMAIN th'[u] = Fields
             /\ th'[u].stale = (th[u].stale \/ th[u].rd \cap DOMAIN th[t].wr # {})
  BY <1>2, <1>6, <1>7 DEF AsBefore, Fields
<1>8. ThreadOK(t)'
  BY <1>1, <1>5, BaseOfSame
<1>9. ASSUME NEW u \in Thread, u # t PROVE ThreadOK(u)'
  <2>1. th'[u].stale \in BOOLEAN
    BY <1>7, <1>9
  <2> QED BY <1>2, <1>7, <1>9, <2>1 DEF ThreadOK, AsBefore, Asked, IsAnswer
<1>10. Base'
  <2>1. \A u \in Thread : ThreadOK(u)'
    BY <1>8, <1>9
  <2> QED BY <1>1, <1>3, <2>1 DEF Base
<1> QED
  BY <1>1, <1>5, <1>7, <1>10

\* The effect of Retry().
LEMMA RetryEffect ==
  ASSUME Base, NEW t \in Thread, NEW keeps \in BOOLEAN, NEW drops \in BOOLEAN,
         Retry(t, keeps, drops), UNCHANGED kind
  PROVE  /\ Base' /\ OnlyThread(t) /\ UNCHANGED <<mem, owner, calls>>
         /\ th[t].pc = "commit"
         /\ used' = IF drops THEN used \ {th[t].node} ELSE used
         /\ th'[t].pc = "begin" /\ th'[t].wr = << >> /\ th'[t].rd = {}
         /\ th'[t].call = th[t].call /\ ~th'[t].stale
         /\ th'[t].node = IF drops THEN none ELSE th[t].node
<1>1. /\ th[t].pc = "commit" /\ UNCHANGED <<mem, owner, calls>>
      /\ used' = IF drops THEN used \ {th[t].node} ELSE used
  BY DEF Retry, AtPc
<1>2. /\ OnlyThread(t)
      /\ th'[t] = [Begin(th[t].call) EXCEPT !.ret = IF keeps THEN th[t].ret ELSE No,
                                            !.node = IF drops THEN none ELSE th[t].node]
  BY DEF Retry, OnlyThread, Base
<1>3. /\ DOMAIN th'[t] = Fields /\ th'[t].pc = "begin" /\ th'[t].wr = << >>
      /\ th'[t].rd = {} /\ th'[t].call = th[t].call /\ th'[t].stale = FALSE
      /\ th'[t].node = IF drops THEN none ELSE th[t].node
      /\ th'[t].ret = IF keeps THEN th[t].ret ELSE No
  <2> DEFINE b == Begin(th[t].call)
  <2>1. /\ DOMAIN b = Fields
        /\ b.pc = "begin" /\ b.call = th[t].call
        /\ b.rd = {} /\ b.wr = << >> /\ b.stale = FALSE
    BY BeginFields
  <2> HIDE DEF b
  <2>2. th'[t] = [b EXCEPT !.ret = IF keeps THEN th[t].ret ELSE No,
                           !.node = IF drops THEN none ELSE th[t].node]
    BY <1>2 DEF b
  <2> QED BY <2>1, <2>2 DEF Fields
<1>4. ThreadOK(t)'
  <2>1. ThreadOK(t)
    BY DEF Base
  <2>2. IsAnswer(th'[t].ret)
    BY <1>3, <2>1 DEF ThreadOK, IsAnswer
  <2>3. th'[t].call \in Asked' /\ th'[t].node \in Node \cup {none}
    BY <1>1, <1>3, <2>1 DEF ThreadOK, Asked
  <2>4. th'[t].stale \in BOOLEAN
    BY <1>3
  <2> QED BY <1>3, <2>2, <2>3, <2>4 DEF ThreadOK, IsAnswer
<1>5. used' \subseteq Node /\ calls' \in 0..MaxCalls
  BY <1>1 DEF Base
<1>6. \A l \in DOMAIN owner' : owner'[l] \in Thread \cup {none}
  BY <1>1 DEF Base
<1> QED
  BY <1>1, <1>2, <1>3, <1>4, <1>5, <1>6, BaseStep

----------------------------------------------------------------------------
(* The ordered list of zoo/.                                               *)

\* What a thread knows is allocated.
LEMMA KnownUsed ==
  ASSUME ListInv, kind \in ListKinds, NEW u \in Thread, NEW n, Knows(u, n)
  PROVE  n \in used \cup {head, tail}
<1>1. ListThread(u) /\ ListPrivate(u)
  BY DEF ListInv
<1>2. CASE th[u].pc \in Between /\ (th[u].loc.pred = n \/ th[u].loc.curr = n)
  BY <1>1, <1>2 DEF ListThread
<1>3. CASE \E x \in DOMAIN th[u].wr : x = next(n) \/ th[u].wr[x] = n
  <2>1. PICK x \in DOMAIN th[u].wr : x = next(n) \/ th[u].wr[x] = n
    BY <1>3
  <2>2. PICK p \in used \cup {head} : x = next(p) /\ th[u].wr[x] \in used \cup {tail}
    BY <1>1, <2>1 DEF ListThread
  <2> QED BY <2>1, <2>2, Locations
<1>4. CASE Owns(u) /\ th[u].node = n
  BY <1>1, <1>4 DEF ListPrivate
<1> QED
  BY <1>2, <1>3, <1>4 DEF Knows

\* locate() and contains() follow one link.
LEMMA LocateKeeps ==
  ASSUME Base, ListInv, kind = "ordered", NEW t \in Thread, Locate(t), UNCHANGED kind
  PROVE  Base' /\ ListInv'
<1> DEFINE pred == IF th[t].pc = "begin" THEN head ELSE th[t].loc.curr
           curr == mem[next(pred)]
           k == th[t].call.key
<1>1. /\ kind \in ListKinds /\ ListMem /\ ListThread(t) /\ used \subseteq Node
      /\ DOMAIN th[t] = Fields /\ DOMAIN th = Thread
  BY DEF ListKinds, ListInv, Base, ThreadOK
<1>2. th[t].pc \in {"begin", "walk"} /\ UNCHANGED <<mem, owner, used, calls>>
  BY DEF Locate, Read, Local, AtPc
<1>3. DOMAIN th[t].wr = {} /\ th[t].node = none
  BY <1>1, <1>2 DEF ListThread
<1>4. Value(t, next(pred)) = curr
  BY <1>3 DEF Value
<1>5. PICK where \in {"begin", "walk"} :
        Become(t, [[th[t] EXCEPT !.pc = IF KeyOf(curr) < k THEN "walk" ELSE "located",
                                 !.loc = [pred |-> pred, curr |-> curr]]
                     EXCEPT !.rd = @ \cup {next(pred)}])
  BY <1>4 DEF Locate, Read, Local, AtPc
<1>6. /\ OnlyThread(t) /\ DOMAIN th'[t] = Fields
      /\ th'[t].pc = IF KeyOf(curr) < k THEN "walk" ELSE "located"
      /\ th'[t].loc = [pred |-> pred, curr |-> curr]
      /\ th'[t].call = th[t].call /\ th'[t].ret = th[t].ret /\ th'[t].wr = th[t].wr
      /\ th'[t].stale = th[t].stale /\ th'[t].node = th[t].node
  BY <1>1, <1>5 DEF Become, OnlyThread, Fields
<1>7. ThreadOK(t)'
  BY <1>2, <1>6, BaseOfSame
<1>8. k \in Key /\ k \in Int /\ -1 < k /\ k < Above
  BY <1>1, <1>2, ListRequest, KeysEnclosed
<1>9. pred \in used \cup {head} /\ KeyOf(pred) < k
  <2>1. CASE th[t].pc = "begin"
    BY <1>1, <1>8, <2>1 DEF ListMem
  <2>2. CASE th[t].pc = "walk"
    <3>1. pred \in used \cup {tail} /\ KeyOf(pred) < k
      BY <1>1, <2>2 DEF ListThread, Between, Passing
    <3>2. KeyOf(tail) = Above
      BY <1>1 DEF ListMem
    <3> HIDE DEF pred
    <3>3. pred # tail
      BY <1>8, <3>1, <3>2, KeysEnclosed
    <3> QED BY <3>1, <3>3
  <2> QED BY <1>2, <2>1, <2>2
<1> HIDE DEF pred
<1>10. curr \in used \cup {tail} /\ KeyOf(pred) < KeyOf(curr) /\ KeyOf(curr) \in Int
  <2>1. NextNode(pred) = curr
    BY DEF NextNode
  <2> QED BY <1>1, <1>9, <2>1, KeysInt DEF ListMem
<1>11. ListThread(t)'
  BY <1>2, <1>3, <1>6, <1>8, <1>9, <1>10 DEF ListThread, Between, Passing, Arrived, KeyOf
<1>12. ~Owns(t)'
  BY <1>6 DEF Owns
<1>13. ASSUME NEW u \in Thread \ {t}, Owns(u) PROVE ~Knows(t, th[u].node)'
  <2>1. /\ th[u].node \in used /\ ~Knows(t, th[u].node)
        /\ \A n \in used \cup {head} : NextNode(n) # th[u].node
    BY <1>1, <1>13 DEF ListInv, ListPrivate
  <2>2. curr # th[u].node
    BY <1>9, <2>1 DEF NextNode
  <2>3. pred # th[u].node
    <3>1. CASE th[t].pc = "begin"
      BY <1>1, <2>1, <3>1, ObjectAssumption DEF pred
    <3>2. CASE th[t].pc = "walk"
      BY <2>1, <3>2 DEF pred, Knows, Between
    <3> QED BY <1>2, <3>1, <3>2
  <2>4. th'[u].node = th[u].node
    BY <1>6, <1>13 DEF OnlyThread
  <2> QED BY <1>3, <1>6, <1>12, <2>2, <2>3, <2>4 DEF Knows
<1> QED
  BY <1>1, <1>2, <1>6, <1>7, <1>11, <1>12, <1>13, BaseLocal, ListLocal

\* The operation answers and changes nothing.
LEMMA NoChangeKeeps ==
  ASSUME Base, ListInv, kind = "ordered", NEW t \in Thread, OrderedNoChange(t), UNCHANGED kind
  PROVE  Base' /\ ListInv'
<1>1. /\ kind \in ListKinds /\ ListMem /\ ListThread(t) /\ used \subseteq Node
      /\ DOMAIN th[t] = Fields /\ DOMAIN th = Thread
  BY DEF ListKinds, ListInv, Base, ThreadOK
<1>2. th[t].pc = "located" /\ UNCHANGED <<mem, owner, used, calls>>
  BY DEF OrderedNoChange, Local, AtPc
<1>3. DOMAIN th[t].wr = {} /\ th[t].node = none
  BY <1>1, <1>2 DEF ListThread
<1>4. /\ OnlyThread(t) /\ DOMAIN th'[t] = Fields
      /\ th'[t].pc = "commit" /\ th'[t].ret \in {Yes, No} /\ th'[t].loc = th[t].loc
      /\ th'[t].call = th[t].call /\ th'[t].wr = th[t].wr
      /\ th'[t].stale = th[t].stale /\ th'[t].node = th[t].node
  BY <1>1 DEF OrderedNoChange, Local, Become, OnlyThread, Fields, Bool
<1>5. ThreadOK(t)'
  BY <1>2, <1>4, BaseOfAnswer
<1>6. ~Owns(t)' /\ \A n : ~Knows(t, n)'
  BY <1>3, <1>4 DEF Owns, Knows, Between
<1>7. ListThread(t)'
  BY <1>3, <1>4 DEF ListThread, Between, Passing, Arrived
<1> QED
  BY <1>1, <1>2, <1>4, <1>5, <1>6, <1>7, BaseLocal, ListLocal

\* remove() stages the link that bypasses its node.
LEMMA UnlinkKeeps ==
  ASSUME Base, ListInv, kind = "ordered", NEW t \in Thread, OrderedUnlink(t), UNCHANGED kind
  PROVE  Base' /\ ListInv'
<1> DEFINE pred == th[t].loc.pred
           curr == th[t].loc.curr
           k == th[t].call.key
           v == mem[next(curr)]
<1>1. /\ kind \in ListKinds /\ ListMem /\ ListThread(t) /\ used \subseteq Node
      /\ DOMAIN th[t] = Fields /\ DOMAIN th = Thread
  BY DEF ListKinds, ListInv, Base, ThreadOK
<1>2. th[t].pc = "located" /\ Found(t) /\ UNCHANGED <<mem, owner, used, calls>>
  BY DEF OrderedUnlink, ReadWrite, Read, Local, AtPc
<1>3. DOMAIN th[t].wr = {} /\ th[t].node = none
  BY <1>1, <1>2 DEF ListThread
<1>4. Value(t, next(curr)) = v
  BY <1>3 DEF Value
<1>5. Become(t, [[[th[t] EXCEPT !.pc = "commit", !.ret = Yes]
                    EXCEPT !.wr = next(pred) :> v @@ @]
                    EXCEPT !.rd = @ \cup {next(curr)}])
  BY <1>4 DEF OrderedUnlink, ReadWrite, Read, Local
<1>6. /\ OnlyThread(t) /\ DOMAIN th'[t] = Fields
      /\ th'[t].pc = "commit" /\ th'[t].ret = Yes
      /\ th'[t].call = th[t].call /\ th'[t].wr = next(pred) :> v @@ th[t].wr
      /\ th'[t].stale = th[t].stale /\ th'[t].node = th[t].node
  BY <1>1, <1>5 DEF Become, OnlyThread, Fields
<1>7. DOMAIN th'[t].wr = {next(pred)} /\ th'[t].wr[next(pred)] = v
  BY <1>3, <1>6 DEF :>, @@
<1>8. ThreadOK(t)'
  BY <1>2, <1>6, BaseOfAnswer
<1>9. k \in Key /\ k \in Int /\ -1 < k /\ k < Above
  BY <1>1, <1>2, ListRequest, KeysEnclosed
<1>10. /\ pred \in used \cup {head} /\ curr \in used \cup {tail}
       /\ KeyOf(pred) < KeyOf(curr) /\ KeyOf(curr) = k
  BY <1>1, <1>2 DEF ListThread, Between, Found
<1>11. curr \in used
  BY <1>1, <1>9, <1>10 DEF ListMem
<1>12. v \in used \cup {tail} /\ KeyOf(pred) < KeyOf(v)
  <2>1. v \in used \cup {tail} /\ KeyOf(curr) < KeyOf(v)
    BY <1>1, <1>11, PlainNext DEF ListMem
  <2> QED BY <1>1, <1>10, <2>1, KeysInt
<1>13. ListThread(t)'
  <2>1. ASSUME NEW x \in DOMAIN th'[t].wr
        PROVE  \E p \in used' \cup {head} :
                 /\ x = next(p)
                 /\ th'[t].wr[x] \in used' \cup {tail}
                 /\ mem'[key(p)] < mem'[key(th'[t].wr[x])]
    BY <1>2, <1>7, <1>10, <1>12, <2>1 DEF KeyOf
  <2> QED BY SMTT(30), <1>6, <2>1 DEF ListThread, Between, Passing, Arrived, KeyOf
<1>14. ~Owns(t)'
  BY <1>3, <1>6 DEF Owns
<1>15. ASSUME NEW u \in Thread \ {t}, Owns(u) PROVE ~Knows(t, th[u].node)'
  <2>1. /\ th[u].node \in used /\ ~Knows(t, th[u].node)
        /\ \A n \in used \cup {head} : NextNode(n) # th[u].node
    BY <1>1, <1>15 DEF ListInv, ListPrivate
  <2>2. v # th[u].node
    BY <1>11, <2>1, PlainNext
  <2>3. next(pred) # next(th[u].node)
    BY <1>2, <2>1, Locations DEF Knows, Between
  <2>4. th'[u].node = th[u].node /\ th'[t].pc \notin Between
    BY <1>6, <1>15 DEF OnlyThread, Between
  <2> QED BY <1>7, <1>14, <2>2, <2>3, <2>4 DEF Knows
<1> QED
  BY <1>1, <1>2, <1>6, <1>8, <1>13, <1>14, <1>15, BaseLocal, ListLocal

\* add() allocates its node, which nobody else knows, and stages the link to it.
LEMMA AddKeeps ==
  ASSUME Base, ListInv, kind = "ordered", NEW t \in Thread, OrderedAdd(t), UNCHANGED kind
  PROVE  Base' /\ ListInv'
<1> DEFINE pred == th[t].loc.pred
           curr == th[t].loc.curr
           k == th[t].call.key
<1>1. /\ kind \in ListKinds /\ ListMem /\ ListThread(t) /\ used \subseteq Node
      /\ DOMAIN th[t] = Fields /\ DOMAIN th = Thread
  BY DEF ListKinds, ListInv, Base, ThreadOK
<1>2. th[t].pc = "located" /\ ~Found(t) /\ UNCHANGED <<owner, calls>>
  BY DEF OrderedAdd, ReadNew, AtPc
<1>3. DOMAIN th[t].wr = {} /\ th[t].node = none
  BY SMTT(30), <1>1, <1>2 DEF ListThread
<1>4. PICK n \in Node \ used :
        /\ used' = used \cup {n}
        /\ mem' = (next(n) :> curr @@ key(n) :> k) @@ mem
        /\ Become(t, [[th[t] EXCEPT !.pc = "commit", !.ret = Yes]
                        EXCEPT !.rd = @ \cup {next(pred)},
                               !.wr = next(pred) :> n @@ @, !.node = n])
  BY DEF OrderedAdd, ReadNew
<1>5. /\ OnlyThread(t) /\ DOMAIN th'[t] = Fields
      /\ th'[t].pc = "commit" /\ th'[t].ret = Yes
      /\ th'[t].call = th[t].call /\ th'[t].wr = next(pred) :> n @@ th[t].wr
      /\ th'[t].stale = th[t].stale /\ th'[t].node = n
  BY <1>1, <1>4 DEF Become, OnlyThread, Fields
<1>6. DOMAIN th'[t].wr = {next(pred)} /\ th'[t].wr[next(pred)] = n
  BY <1>3, <1>5 DEF :>, @@
<1>7. ThreadOK(t)'
  <2>1. th'[t].call \in Asked'
    BY <1>2, <1>5 DEF Base, ThreadOK, Asked
  <2>2. th'[t].stale \in BOOLEAN
    BY <1>5 DEF Base, ThreadOK
  <2> QED BY <1>5, <2>1, <2>2 DEF ThreadOK, IsAnswer
<1>8. Base'
  <2>1. /\ used' \subseteq Node /\ calls' \in 0..MaxCalls
        /\ \A l \in DOMAIN owner' : owner'[l] \in Thread \cup {none}
    BY <1>2, <1>4 DEF Base
  <2> QED BY <1>5, <1>7, <2>1, BaseStep
<1>9. k \in Key /\ k \in Int /\ -1 < k /\ k < Above
  BY <1>1, <1>2, ListRequest, KeysEnclosed
<1>10. /\ pred \in used \cup {head} /\ curr \in used \cup {tail}
       /\ KeyOf(pred) < k /\ KeyOf(curr) \in Int /\ KeyOf(curr) >= k
  BY <1>1, <1>2, KeysInt DEF ListThread, Between, Arrived
<1>11. k < KeyOf(curr)
  BY <1>2, <1>9, <1>10 DEF Found
<1>12. n \notin {head, tail, none} /\ n \notin used
  BY ObjectAssumption
<1>13. /\ DOMAIN mem' = DOMAIN mem \cup {next(n), key(n)}
       /\ mem'[next(n)] = curr /\ mem'[key(n)] = k
       /\ \A x \in DOMAIN mem : x # next(n) /\ x # key(n) => mem'[x] = mem[x]
  BY <1>4, Locations DEF :>, @@
<1>14. ASSUME NEW m \in used \cup {head, tail}
       PROVE  mem'[next(m)] = mem[next(m)] /\ mem'[key(m)] = mem[key(m)]
  <2>1. next(m) \in DOMAIN mem /\ key(m) \in DOMAIN mem /\ m # n
    BY <1>1, <1>12 DEF ListMem
  <2> QED BY <1>13, <2>1, Locations
<1>15. KeysKept
  BY <1>14 DEF KeysKept
<1>16. ASSUME NEW m \in used' \cup {head}
       PROVE  mem'[next(m)] \in used' \cup {tail} /\ mem'[key(m)] < mem'[key(mem'[next(m)])]
  <2>1. CASE m = n
    BY <1>4, <1>10, <1>11, <1>13, <1>14, <2>1 DEF KeyOf
  <2>2. CASE m # n
    <3>1. m \in used \cup {head} /\ mem[next(m)] \in used \cup {tail}
          /\ mem[key(m)] < mem[key(mem[next(m)])]
      BY <1>1, <1>4, <2>2, PlainNext DEF ListMem, KeyOf
    <3> QED BY <1>4, <1>14, <3>1
  <2> QED BY SMTT(30), <2>1, <2>2
<1>17. ListMem'
  <2>1. \A m \in used' \cup {head} :
          NextNode(m)' \in used' \cup {tail} /\ KeyOf(m)' < KeyOf(NextNode(m))'
    BY <1>16, PlainNext DEF KeyOf
  <2>2. \A m \in used' \ used :
          next(m) \in DOMAIN mem' /\ key(m) \in DOMAIN mem' /\ mem'[key(m)] \in Key
    BY <1>4, <1>9, <1>13
  <2> QED BY <1>1, <1>4, <1>13, <1>14, <1>15, <2>1, <2>2, ListMemStep
<1>18. ASSUME NEW u \in Thread PROVE ListThread(u)'
  <2>1. CASE u = t
    <3>1. ASSUME NEW x \in DOMAIN th'[t].wr
          PROVE  \E p \in used' \cup {head} :
                   /\ x = next(p)
                   /\ th'[t].wr[x] \in used' \cup {tail}
                   /\ mem'[key(p)] < mem'[key(th'[t].wr[x])]
      <4>1. x = next(pred) /\ th'[t].wr[x] = n
        BY <1>6, <3>1
      <4>2. mem'[key(pred)] < mem'[key(n)]
        BY <1>10, <1>13, <1>14 DEF KeyOf
      <4> QED BY <1>4, <1>10, <4>1, <4>2
    <3> QED BY <1>5, <2>1, <3>1 DEF ListThread, Between, Passing, Arrived, KeyOf
  <2>2. CASE u # t
    <3>1. ListThread(u) /\ AsBefore(u) /\ used \subseteq used'
      BY <1>1, <1>4, <1>5, <2>2 DEF ListInv, OnlyThread, AsBefore
    <3> QED BY <1>1, <1>15, <3>1, ListThreadKept
  <2> QED BY <2>1, <2>2
<1>19. ListPrivate(t)'
  <2>1. \A m \in used' \cup {head} : NextNode(m)' # n
    <3>1. \A m \in used \cup {head} : mem[next(m)] # n
      BY <1>1, <1>12, PlainNext DEF ListMem
    <3> QED BY <1>4, <1>10, <1>12, <1>13, <1>14, <3>1, PlainNext
  <2>2. ASSUME NEW u \in Thread \ {t} PROVE ~Knows(u, n)'
    <3>1. ~Knows(u, n)
      BY <1>1, <1>12, KnownUsed
    <3>2. th'[u] = th[u]
      BY <1>5 DEF OnlyThread
    <3> QED BY <3>1, <3>2 DEF Knows, Owns
  <2> QED BY SMTT(30), <1>4, <1>5, <2>1, <2>2 DEF ListPrivate
<1>20. ASSUME NEW u \in Thread, u # t, Owns(u)' PROVE ListPrivate(u)'
  <2>1. th'[u] = th[u] /\ Owns(u)
    BY <1>5, <1>20 DEF OnlyThread, Owns
  <2>2. /\ th[u].node \in used
        /\ \A m \in used \cup {head} : mem[next(m)] # th[u].node
        /\ \A v \in Thread \ {u} : ~Knows(v, th[u].node)
    BY <1>1, <2>1, PlainNext DEF ListInv, ListPrivate
  <2>3. ~Knows(t, th[u].node)
    BY <1>20, <2>2
  <2>4. pred # th[u].node /\ curr # th[u].node /\ n # th[u].node
    BY SMTT(30), <1>2, <1>12, <2>2, <2>3 DEF Knows, Between
  <2>5. \A m \in used' \cup {head} : NextNode(m)' # th'[u].node
    BY <1>4, <1>13, <1>14, <2>1, <2>2, <2>4, PlainNext
  <2>6. ASSUME NEW v \in Thread \ {u} PROVE ~Knows(v, th[u].node)'
    <3>1. CASE v = t
      <4>1. th'[t].pc \notin Between /\ next(pred) # next(th[u].node)
        BY <1>5, <2>4, Locations DEF Between
      <4> QED BY <1>5, <1>6, <2>1, <2>4, <3>1, <4>1 DEF Knows
    <3>2. CASE v # t
      <4>1. th'[v] = th[v] /\ ~Knows(v, th[u].node)
        BY <1>5, <2>2, <3>2 DEF OnlyThread
      <4> QED BY <2>1, <4>1 DEF Knows, Owns
    <3> QED BY <3>1, <3>2
  <2> QED BY <1>4, <2>1, <2>2, <2>5, <2>6 DEF ListPrivate
<1>21. \A u \in Thread : ListPrivate(u)'
  BY <1>19, <1>20 DEF ListPrivate
<1> QED
  BY <1>8, <1>17, <1>18, <1>21 DEF ListInv

\* A commit of the ordered list links a private node, or bypasses one.
LEMMA OrderedCommit ==
  ASSUME Base, ListInv, kind = "ordered", NEW t \in Thread, Commit(t), UNCHANGED kind
  PROVE  Base' /\ ListInv'
<1> DEFINE w == th[t].wr
<1>1. /\ kind \in ListKinds /\ ListMem /\ ListThread(t) /\ used \subseteq Node
  BY DEF ListKinds, ListInv, Base
<1>2. /\ Base' /\ UNCHANGED <<owner, used, calls>> /\ mem' = w @@ mem
      /\ th'[t].pc = "return" /\ th'[t].wr = << >>
      /\ \A u \in Thread \ {t} : AsBefore(u)
  BY CommitEffect
<1>3. \A x \in DOMAIN w : \E p \in used \cup {head} :
        x = next(p) /\ w[x] \in used \cup {tail} /\ KeyOf(p) < KeyOf(w[x])
  BY <1>1 DEF ListThread
<1>4. /\ DOMAIN mem' = DOMAIN w \cup DOMAIN mem
      /\ \A x \in DOMAIN w : mem'[x] = w[x]
      /\ \A x \in DOMAIN mem : x \notin DOMAIN w => mem'[x] = mem[x]
  BY <1>2 DEF @@
<1> HIDE DEF w
<1>5. \A m \in used \cup {head} : next(m) \in DOMAIN w =>
        w[next(m)] \in used \cup {tail} /\ KeyOf(m) < KeyOf(w[next(m)])
  BY <1>3, Locations
<1>6. KeysKept
  BY <1>1, <1>3, <1>4, Locations DEF KeysKept, ListMem
<1>7. mem'[next(tail)] = mem[next(tail)]
  BY <1>1, <1>3, <1>4, Locations, ObjectAssumption DEF ListMem
<1>8. ASSUME NEW m \in used \cup {head}
      PROVE  mem'[next(m)] \in used \cup {tail} /\ mem'[key(m)] < mem'[key(mem'[next(m)])]
  <2>1. CASE next(m) \in DOMAIN w
    <3>1. mem'[next(m)] = w[next(m)]
      BY <1>4, <2>1
    <3> QED BY <1>5, <1>6, <2>1, <3>1 DEF KeyOf, KeysKept
  <2>2. CASE next(m) \notin DOMAIN w
    <3>1. mem'[next(m)] = mem[next(m)]
      BY <1>1, <1>4, <2>2 DEF ListMem
    <3>2. mem[next(m)] \in used \cup {tail} /\ mem[key(m)] < mem[key(mem[next(m)])]
      BY <1>1, PlainNext DEF ListMem, KeyOf
    <3> QED BY <1>6, <3>1, <3>2 DEF KeysKept
  <2> QED BY <2>1, <2>2
<1>9. ListMem'
  <2>1. \A m \in used' \cup {head} :
          NextNode(m)' \in used' \cup {tail} /\ KeyOf(m)' < KeyOf(NextNode(m))'
    BY <1>2, <1>8, PlainNext DEF KeyOf
  <2> QED BY <1>1, <1>2, <1>4, <1>6, <1>7, <2>1, ListMemStep
<1>10. ListThread(t)' /\ ~Owns(t)' /\ \A n : ~Knows(t, n)'
  BY <1>2, ListOutside
<1>11. ASSUME NEW u \in Thread PROVE ListThread(u)'
  <2>1. CASE u # t
    <3>1. ListThread(u) /\ AsBefore(u)
      BY <1>1, <1>2, <2>1 DEF ListInv
    <3> QED BY <1>1, <1>2, <1>6, <3>1, ListThreadKept
  <2> QED BY <1>10, <2>1
<1>12. ASSUME NEW u \in Thread, u # t, Owns(u)' PROVE ListPrivate(u)'
  <2>1. Owns(u) /\ th'[u].node = th[u].node
    BY <1>2, <1>12 DEF AsBefore, Owns
  <2>2. /\ th[u].node \in used
        /\ \A m \in used \cup {head} : mem[next(m)] # th[u].node
        /\ \A v \in Thread \ {u} : ~Knows(v, th[u].node)
    BY <1>1, <2>1, PlainNext DEF ListInv, ListPrivate
  <2>3. \A x \in DOMAIN w : w[x] # th[u].node
    BY <1>12, <2>2 DEF Knows, w
  <2>4. \A m \in used' \cup {head} : NextNode(m)' # th'[u].node
    <3>1. \A m \in used \cup {head} : mem'[next(m)] # th[u].node
      BY <1>1, <1>4, <2>2, <2>3 DEF ListMem
    <3> QED BY <1>2, <2>1, <3>1, PlainNext
  <2>5. ASSUME NEW v \in Thread \ {u} PROVE ~Knows(v, th[u].node)'
    <3>1. CASE v = t
      BY <1>10, <3>1
    <3>2. CASE v # t
      <4>1. AsBefore(v) /\ ~Knows(v, th[u].node)
        BY <1>2, <2>2, <3>2
      <4> QED BY <2>1, <4>1 DEF Knows, Owns, AsBefore
    <3> QED BY <3>1, <3>2
  <2> QED BY <1>2, <2>1, <2>2, <2>4, <2>5 DEF ListPrivate
<1>13. \A u \in Thread : ListPrivate(u)'
  BY <1>10, <1>12 DEF ListPrivate
<1> QED
  BY <1>2, <1>9, <1>11, <1>13 DEF ListInv

\* An attempt that fails gives its private node back.
LEMMA OrderedRetry ==
  ASSUME Base, ListInv, kind = "ordered", NEW t \in Thread,
         Retry(t, FALSE, th[t].node # none), UNCHANGED kind
  PROVE  Base' /\ ListInv'
<1> DEFINE n == th[t].node
<1>1. kind \in ListKinds /\ ListMem /\ ListThread(t) /\ ListPrivate(t) /\ used \subseteq Node
  BY DEF ListKinds, ListInv, Base
<1>2. /\ Base' /\ OnlyThread(t) /\ UNCHANGED mem /\ th[t].pc = "commit"
      /\ used' = IF n # none THEN used \ {n} ELSE used
      /\ th'[t].pc = "begin" /\ th'[t].wr = << >> /\ th'[t].node = none
  BY RetryEffect
<1>3. ListThread(t)' /\ ~Owns(t)' /\ \A m : ~Knows(t, m)'
  BY <1>2, ListOutside
<1>4. CASE n = none
  BY <1>1, <1>2, <1>3, <1>4, ListLocal
<1>5. CASE n # none
  <2>1. /\ n \in used /\ used' = used \ {n} /\ Owns(t)
        /\ \A m \in used \cup {head} : NextNode(m) # n
        /\ \A u \in Thread \ {t} : ~Knows(u, n)
    BY <1>1, <1>2, <1>5 DEF ListPrivate, Owns
  <2>2. n # head /\ n # tail
    BY <1>1, <2>1, ObjectAssumption
  <2>3. \A m : NextNode(m)' = NextNode(m) /\ KeyOf(m)' = KeyOf(m)
    BY <1>2 DEF NextNode, KeyOf, Ptr
  <2>4. ListMem'
    <3>1. \A m \in used' \cup {head} :
            NextNode(m)' \in used' \cup {tail} /\ KeyOf(m)' < KeyOf(NextNode(m))'
      <4> SUFFICES ASSUME NEW m \in used' \cup {head}
                   PROVE  NextNode(m) \in used' \cup {tail} /\ KeyOf(m) < KeyOf(NextNode(m))
        BY <2>3, <1>2 DEF KeyOf
      <4>1. m \in used \cup {head}
        BY <2>1
      <4> QED BY <1>1, <2>1, <4>1 DEF ListMem
    <3>2. \A m \in used' : KeyOf(m)' \in Key
      BY <1>1, <2>1, <2>3 DEF ListMem
    <3>3. \A m \in used' \cup {head, tail} : next(m) \in DOMAIN mem' /\ key(m) \in DOMAIN mem'
      BY <1>1, <1>2, <2>1 DEF ListMem
    <3>4. KeyOf(head)' = -1 /\ KeyOf(tail)' = Above /\ NextNode(tail)' \in {none, tail}
      BY <1>1, <2>3 DEF ListMem
    <3> QED BY <3>1, <3>2, <3>3, <3>4 DEF ListMem
  <2>5. ASSUME NEW u \in Thread PROVE ListThread(u)'
    <3>1. CASE u # t
      <4>1. th'[u] = th[u] /\ ListThread(u) /\ ~Knows(u, n)
        BY <1>1, <1>2, <2>1, <3>1 DEF ListInv, OnlyThread
      <4>2. th[u].pc \in {"idle", "begin", "walk", "located", "commit", "return"}
        BY <4>1 DEF ListThread
      <4>3. th[u].pc \in Between => th[u].loc.pred # n /\ th[u].loc.curr # n
        BY <4>1 DEF Knows
      <4>4. ASSUME NEW x \in DOMAIN th[u].wr
            PROVE  \E p \in used' \cup {head} :
                     /\ x = next(p)
                     /\ th[u].wr[x] \in used' \cup {tail}
                     /\ KeyOf(p)' < mem'[key(th[u].wr[x])]
        <5>1. PICK p \in used \cup {head} :
                x = next(p) /\ th[u].wr[x] \in used \cup {tail} /\ KeyOf(p) < KeyOf(th[u].wr[x])
          BY <4>1, <4>4 DEF ListThread
        <5>2. p # n /\ th[u].wr[x] # n
          BY <4>1, <4>4, <5>1 DEF Knows
        <5> QED BY <1>2, <2>1, <5>1, <5>2 DEF KeyOf
      <4>5. th[u].pc \in Between =>
              /\ th[u].loc.pred \in used' \cup {head} /\ th[u].loc.curr \in used' \cup {tail}
              /\ KeyOf(th[u].loc.pred) < th[u].call.key
              /\ KeyOf(th[u].loc.pred) < KeyOf(th[u].loc.curr)
        BY <2>1, <4>1, <4>3 DEF ListThread
      <4>6. /\ th[u].pc \in Passing => KeyOf(th[u].loc.curr) < th[u].call.key
            /\ th[u].pc \in Arrived => KeyOf(th[u].loc.curr) >= th[u].call.key
            /\ th[u].pc \in {"begin", "walk", "located"} => th[u].node = none
            /\ th[u].pc # "commit" => DOMAIN th[u].wr = {}
        BY <4>1 DEF ListThread
      <4>7. Passing' = Passing /\ th[u].pc # "follow" /\ th[u].pc \notin {"unlink", "mark", "detach"}
        BY <4>2 DEF Passing
      <4> QED BY <1>2, <4>1, <4>2, <4>4, <4>5, <4>6, <4>7 DEF ListThread, KeyOf
    <3> QED BY <1>3, <3>1
  <2>6. ASSUME NEW u \in Thread, u # t, Owns(u)' PROVE ListPrivate(u)'
    <3>1. th'[u] = th[u] /\ Owns(u)
      BY <1>2, <2>6 DEF OnlyThread, Owns
    <3>2. /\ th[u].node \in used
          /\ \A m \in used \cup {head} : NextNode(m) # th[u].node
          /\ \A v \in Thread \ {u} : ~Knows(v, th[u].node)
      BY <1>1, <3>1 DEF ListInv, ListPrivate
    <3>3. th[u].node # n
      BY <2>1, <2>6, <3>1 DEF Knows
    <3>4. ASSUME NEW v \in Thread \ {u} PROVE ~Knows(v, th[u].node)'
      <4>1. CASE v = t
        BY <1>3, <4>1
      <4>2. CASE v # t
        <5>1. th'[v] = th[v] /\ ~Knows(v, th[u].node)
          BY <1>2, <3>2, <4>2 DEF OnlyThread
        <5> QED BY <3>1, <5>1 DEF Knows, Owns
      <4> QED BY <4>1, <4>2
    <3> QED BY <2>1, <2>3, <3>1, <3>2, <3>3, <3>4 DEF ListPrivate
  <2>7. \A u \in Thread : ListPrivate(u)'
    BY <1>3, <2>6 DEF ListPrivate
  <2> QED BY <1>2, <2>4, <2>5, <2>7 DEF ListInv
<1> QED
  BY <1>4, <1>5

\* The ordered list of zoo/.
LEMMA OrderedKeeps ==
  ASSUME Base, ListInv, kind = "ordered", NEW t \in Thread, OrderedStep(t), UNCHANGED kind
  PROVE  Base' /\ ListInv'
<1>1. kind \in ListKinds
  BY DEF ListKinds
<1> QED
  BY <1>1, ListCall, LocateKeeps, NoChangeKeeps, AddKeeps, UnlinkKeeps, OrderedCommit,
     OrderedRetry, ListReturn DEF OrderedStep

----------------------------------------------------------------------------
(* Steps of a transaction's body.                                          *)

\* The effect of Read(): the local state that is given, and one read more.
LEMMA ReadEffect ==
  ASSUME Base, NEW t \in Thread, NEW where, NEW x, NEW new, DOMAIN new = Fields,
         Read(t, where, x, new)
  PROVE  /\ OnlyThread(t) /\ UNCHANGED <<mem, owner, used, calls>>
         /\ th[t].pc = where /\ DOMAIN th'[t] = Fields
         /\ th'[t].pc = new.pc /\ th'[t].call = new.call /\ th'[t].loc = new.loc
         /\ th'[t].node = new.node /\ th'[t].rd = new.rd \cup {x} /\ th'[t].wr = new.wr
         /\ th'[t].stale = new.stale /\ th'[t].ret = new.ret
<1>1. Become(t, [new EXCEPT !.rd = new.rd \cup {x}])
  BY DEF Read, Local
<1>2. OnlyThread(t) /\ th'[t] = [new EXCEPT !.rd = new.rd \cup {x}]
  BY <1>1 DEF Become, OnlyThread, Base
<1>3. th[t].pc = where /\ UNCHANGED <<mem, owner, used, calls>>
  BY DEF Read, Local, AtPc
<1> QED
  BY <1>2, <1>3 DEF Fields

\* The same of ReadWrite(), which adds to the staged values.
LEMMA ReadWriteEffect ==
  ASSUME Base, NEW t \in Thread, NEW where, NEW x, NEW w, NEW new, DOMAIN new = Fields,
         ReadWrite(t, where, x, w, new)
  PROVE  /\ OnlyThread(t) /\ UNCHANGED <<mem, owner, used, calls>>
         /\ th[t].pc = where /\ DOMAIN th'[t] = Fields
         /\ th'[t].pc = new.pc /\ th'[t].call = new.call /\ th'[t].loc = new.loc
         /\ th'[t].node = new.node /\ th'[t].rd = new.rd \cup {x} /\ th'[t].wr = w @@ new.wr
         /\ th'[t].stale = new.stale /\ th'[t].ret = new.ret
<1> DEFINE more == [new EXCEPT !.wr = w @@ new.wr]
<1>1. /\ DOMAIN more = Fields /\ more.pc = new.pc /\ more.call = new.call
      /\ more.loc = new.loc /\ more.node = new.node /\ more.rd = new.rd
      /\ more.wr = w @@ new.wr /\ more.stale = new.stale /\ more.ret = new.ret
  BY DEF Fields
<1>2. Read(t, where, x, more)
  BY DEF ReadWrite
<1> HIDE DEF more
<1> QED
  BY <1>1, <1>2, ReadEffect

\* A step inside an operation with an answer of the right type.
LEMMA BaseOfInside ==
  ASSUME Base, NEW t \in Thread, UNCHANGED kind, DOMAIN th'[t] = Fields,
         th[t].pc # "idle", th'[t].pc # "idle", th'[t].call = th[t].call,
         IsAnswer(th'[t].ret), th'[t].stale = th[t].stale,
         th'[t].node = th[t].node
  PROVE  ThreadOK(t)'
  BY DEF Base, ThreadOK, Asked, IsAnswer

\* The operation that a thread runs.
LEMMA OpOfCall ==
  ASSUME Base, NEW t \in Thread, th[t].pc # "idle"
  PROVE  Op(t) = th[t].call.op /\ th[t].call \in Asked
<1>1. th[t].call \in Asked
  BY DEF Base, ThreadOK
<1>2. Asked \subseteq Requests
  BY DEF Asked, Requests
<1> QED
  BY <1>1, <1>2, RequestAssumption DEF Op

----------------------------------------------------------------------------
(* The rings.                                                              *)

Rings == {"bounded", "batch"}

\* The locations of a ring differ, and are used modulo the capacity.
LEMMA RingLocations ==
  /\ ring_head # ring_tail
  /\ \A i : items(i) # ring_head /\ items(i) # ring_tail
  BY DEF ring_head, ring_tail, items

\* What a body sees at the ends.
LEMMA Seen ==
  ASSUME NEW t \in Thread
  PROVE  Value(t, ring_tail) = TailSeen(t) /\ Value(t, ring_head) = HeadSeen(t)
  BY DEF Value, TailSeen, HeadSeen

\* A thread that has staged nothing sees what is committed, which is in range.
LEMMA FreshExact ==
  ASSUME RingMem', NEW t \in Thread, DOMAIN th'[t].wr = {},
         th'[t].pc \notin {"enq", "deq", "item"}
  PROVE  RingExact(t)'
<1>1. TailSeen(t)' = mem'[ring_tail] /\ HeadSeen(t)' = mem'[ring_head]
  BY DEF TailSeen, HeadSeen
<1>2. mem'[ring_tail] - mem'[ring_head] \in 0..Capacity
  BY DEF RingMem
<1> QED
  BY <1>1, <1>2 DEF RingExact

\* A step of a ring that leaves the memory alone.
LEMMA RingLocal ==
  ASSUME RingInv, kind \in Rings, NEW t \in Thread, OnlyThread(t), UNCHANGED <<kind, mem>>,
         RingLocals(t)',
         th'[t].pc \notin {"idle", "return"} /\ ~th'[t].stale => RingExact(t)'
  PROVE  RingInv'
<1>1. RingMem /\ RingMem'
  BY DEF RingInv, Rings, RingMem
<1>2. ASSUME NEW u \in Thread, u # t
      PROVE  /\ RingLocals(u)'
             /\ th'[u].pc \notin {"idle", "return"} /\ ~th'[u].stale => RingExact(u)'
  <2>1. th'[u] = th[u] /\ RingLocals(u)
        /\ (th[u].pc \notin {"idle", "return"} /\ ~th[u].stale => RingExact(u))
    BY <1>2 DEF OnlyThread, RingInv, Rings
  <2> QED BY <2>1 DEF RingLocals, RingExact, TailSeen, HeadSeen
<1> QED
  BY <1>1, <1>2 DEF RingInv

\* The same, of a step that does not stage anything and leaves no local
\* variable to say anything about.
LEMMA RingLeaves ==
  ASSUME RingInv, kind \in Rings, NEW t \in Thread, OnlyThread(t), UNCHANGED <<kind, mem>>,
         th[t].pc \notin {"idle", "return", "commit"}, th'[t].pc \in {"again", "commit"},
         th'[t].pc = "again" => th'[t].call.op = "both",
         th'[t].wr = th[t].wr, th[t].rd \subseteq th'[t].rd, th'[t].stale = th[t].stale
  PROVE  RingInv'
<1>1. RingLocals(t) /\ (~th[t].stale => RingExact(t))
  BY DEF RingInv, Rings
<1>2. RingLocals(t)'
  BY <1>1 DEF RingLocals
<1>3. ASSUME ~th'[t].stale PROVE RingExact(t)'
  <2>1. TailSeen(t)' = TailSeen(t) /\ HeadSeen(t)' = HeadSeen(t)
    BY DEF TailSeen, HeadSeen
  <2>2. RingExact(t)
    BY <1>1, <1>3
  <2>3. ring_head \notin DOMAIN th[t].wr
    BY <2>2 DEF RingExact
  <2> QED BY <2>1, <2>2, <2>3 DEF RingExact
<1> QED
  BY <1>2, <1>3, RingLocal

\* Call(), Return() and Retry() leave a thread that has read and staged nothing.
LEMMA RingOutside ==
  ASSUME Base, RingInv, kind \in Rings, NEW t \in Thread, OnlyThread(t), UNCHANGED <<kind, mem>>,
         th'[t].pc \in {"idle", "begin"}, th'[t].wr = << >>
  PROVE  RingInv'
<1>1. DOMAIN th'[t].wr = {} /\ RingMem'
  BY DEF RingInv, Rings, RingMem
<1>2. RingLocals(t)'
  BY <1>1 DEF RingLocals
<1>3. RingExact(t)'
  BY <1>1, FreshExact
<1> QED
  BY <1>2, <1>3, RingLocal

\* head or tail is read first.
LEMMA RingBegins ==
  ASSUME Base, RingInv, kind \in Rings, NEW t \in Thread, UNCHANGED kind,
         ReadRingHead(t) \/ ReadTailFirst(t)
  PROVE  Base' /\ RingInv'
<1>1. DOMAIN th[t] = Fields /\ IsAnswer(th[t].ret) /\ RingMem
  BY DEF Base, ThreadOK, RingInv, Rings
<1>2. RingLocals(t) /\ (th[t].pc \notin {"idle", "return"} /\ ~th[t].stale => RingExact(t))
  BY DEF RingInv, Rings
<1>3. CASE ReadRingHead(t)
  <2> DEFINE pc == CASE Op(t) = "deq" -> "deq" [] Op(t) = "size" -> "size" [] OTHER -> "enq"
             new == [th[t] EXCEPT !.pc = pc, !.loc = [h |-> Value(t, ring_head)]]
  <2>1. /\ DOMAIN new = Fields /\ new.pc = pc /\ new.call = th[t].call
        /\ new.loc = [h |-> Value(t, ring_head)] /\ new.node = th[t].node
        /\ new.rd = th[t].rd /\ new.wr = th[t].wr /\ new.stale = th[t].stale
        /\ new.ret = th[t].ret
    BY <1>1 DEF Fields
  <2>2. Read(t, "begin", ring_head, new)
    BY <1>3 DEF ReadRingHead
  <2>3. /\ pc \in {"deq", "size", "enq"}
        /\ pc = "enq" => Op(t) # "deq" /\ Op(t) # "size"
    OBVIOUS
  <2> HIDE DEF pc, new
  <2>4. /\ OnlyThread(t) /\ UNCHANGED <<mem, owner, used, calls>>
        /\ th[t].pc = "begin" /\ DOMAIN th'[t] = Fields
        /\ th'[t].pc = pc /\ th'[t].call = th[t].call
        /\ th'[t].loc = [h |-> Value(t, ring_head)] /\ th'[t].node = th[t].node
        /\ th'[t].rd = th[t].rd \cup {ring_head} /\ th'[t].wr = th[t].wr
        /\ th'[t].stale = th[t].stale /\ th'[t].ret = th[t].ret
    BY <2>1, <2>2, ReadEffect
  <2>5. Base'
    BY <2>3, <2>4, BaseOfSame, BaseLocal
  <2>6. DOMAIN th[t].wr = {} /\ Value(t, ring_head) = mem[ring_head]
    BY <1>2, <2>4 DEF RingLocals, Value
  <2>7. pc = "enq" => th[t].call.val \in Val
    <3>1. Op(t) = th[t].call.op /\ th[t].call \in RingRequest
      BY <2>4, OpOfCall DEF Asked, Rings, ListKinds
    <3> QED BY <2>3, <3>1 DEF RingRequest
  <2>8. /\ mem[ring_head] \in Nat /\ mem[ring_tail] \in Nat /\ Capacity - 1 <= mem[ring_head]
        /\ mem[ring_tail] - mem[ring_head] \in 0..Capacity
        /\ mem[ring_head] <= mem[ring_tail]
    BY <1>1, ObjectAssumption DEF RingMem
  <2>9. RingLocals(t)'
    BY <2>3, <2>4, <2>6, <2>7, <2>8 DEF RingLocals
  <2>10. RingExact(t)'
    <3>1. TailSeen(t)' = mem[ring_tail] /\ HeadSeen(t)' = mem[ring_head]
      BY <2>4, <2>6 DEF TailSeen, HeadSeen
    <3> QED BY <2>3, <2>4, <2>6, <2>8, <3>1 DEF RingExact
  <2> QED BY <2>4, <2>5, <2>9, <2>10, RingLocal
<1>4. CASE ReadTailFirst(t)
  <2> DEFINE new == [th[t] EXCEPT !.pc = "size2", !.loc = [t |-> Value(t, ring_tail)]]
  <2>1. /\ DOMAIN new = Fields /\ new.pc = "size2" /\ new.call = th[t].call
        /\ new.loc = [t |-> Value(t, ring_tail)] /\ new.node = th[t].node
        /\ new.rd = th[t].rd /\ new.wr = th[t].wr /\ new.stale = th[t].stale
        /\ new.ret = th[t].ret
    BY <1>1 DEF Fields
  <2>2. Read(t, "begin", ring_tail, new)
    BY <1>4 DEF ReadTailFirst
  <2> HIDE DEF new
  <2>4. /\ OnlyThread(t) /\ UNCHANGED <<mem, owner, used, calls>>
        /\ th[t].pc = "begin" /\ DOMAIN th'[t] = Fields
        /\ th'[t].pc = "size2" /\ th'[t].call = th[t].call
        /\ th'[t].loc = [t |-> Value(t, ring_tail)] /\ th'[t].node = th[t].node
        /\ th'[t].rd = th[t].rd \cup {ring_tail} /\ th'[t].wr = th[t].wr
        /\ th'[t].stale = th[t].stale /\ th'[t].ret = th[t].ret
    BY <2>1, <2>2, ReadEffect
  <2>5. Base'
    BY <2>4, BaseOfSame, BaseLocal
  <2>6. DOMAIN th[t].wr = {} /\ Value(t, ring_tail) = mem[ring_tail]
    BY <1>2, <2>4 DEF RingLocals, Value
  <2>7. mem[ring_tail] \in Nat /\ RingMem'
    BY <1>1, <2>4 DEF RingMem
  <2>8. RingLocals(t)'
    BY <2>4, <2>6, <2>7 DEF RingLocals
  <2>9. RingExact(t)'
    BY <2>4, <2>6, <2>7, FreshExact
  <2> QED BY <2>4, <2>5, <2>8, <2>9, RingLocal
<1> QED
  BY <1>3, <1>4

\* enq_tx() stages the next position, if the ring has room.
LEMMA EnqKeeps ==
  ASSUME Base, RingInv, kind \in Rings, NEW t \in Thread, UNCHANGED kind,
         Enq(t) \/ EnqRefused(t)
  PROVE  Base' /\ RingInv'
<1> DEFINE both == Op(t) = "both"
           T == mem[ring_tail]
           v == th[t].call.val
<1>1. DOMAIN th[t] = Fields /\ IsAnswer(th[t].ret) /\ RingMem
  BY DEF Base, ThreadOK, RingInv, Rings
<1>2. RingLocals(t) /\ (th[t].pc \notin {"idle", "return"} /\ ~th[t].stale => RingExact(t))
  BY DEF RingInv, Rings
<1>3. \A ok \in BOOLEAN :
        /\ DOMAIN AfterEnq(t, ok) = Fields
        /\ AfterEnq(t, ok).pc = IF both THEN "again" ELSE "commit"
        /\ AfterEnq(t, ok).ret \in {Yes, No, th[t].ret}
        /\ AfterEnq(t, ok).call = th[t].call /\ AfterEnq(t, ok).loc = th[t].loc
        /\ AfterEnq(t, ok).node = th[t].node /\ AfterEnq(t, ok).rd = th[t].rd
        /\ AfterEnq(t, ok).wr = th[t].wr /\ AfterEnq(t, ok).stale = th[t].stale
  BY <1>1 DEF AfterEnq, Fields
<1>4. \A a \in {Yes, No, th[t].ret} : IsAnswer(a)
  BY <1>1 DEF IsAnswer
<1>5. th[t].pc = "enq"
  BY DEF Enq, EnqRefused, ReadWrite, Read, Local, AtPc
<1>6. both => th[t].call.op = "both"
  BY <1>5, OpOfCall
<1>7. CASE EnqRefused(t)
  <2> DEFINE new == AfterEnq(t, FALSE)
  <2>0. Read(t, "enq", ring_tail, new)
    BY <1>7 DEF EnqRefused
  <2>1. /\ DOMAIN new = Fields /\ new.pc = IF both THEN "again" ELSE "commit"
        /\ IsAnswer(new.ret) /\ new.call = th[t].call /\ new.node = th[t].node
        /\ new.rd = th[t].rd /\ new.wr = th[t].wr /\ new.stale = th[t].stale
    BY <1>3, <1>4
  <2> HIDE DEF new
  <2>2. /\ OnlyThread(t) /\ UNCHANGED <<mem, owner, used, calls>>
        /\ DOMAIN th'[t] = Fields /\ th'[t].pc = IF both THEN "again" ELSE "commit"
        /\ th'[t].call = th[t].call /\ th'[t].node = th[t].node
        /\ th'[t].rd = th[t].rd \cup {ring_tail} /\ th'[t].wr = th[t].wr
        /\ th'[t].stale = th[t].stale /\ IsAnswer(th'[t].ret)
    BY <2>0, <2>1, ReadEffect
  <2>3. Base'
    BY <1>5, <2>2, BaseOfInside, BaseLocal
  <2> QED BY <1>5, <1>6, <2>2, <2>3, RingLeaves
<1>8. CASE Enq(t)
  <2> DEFINE w == (items(T) :> v) @@ (ring_tail :> T + 1)
             new == AfterEnq(t, TRUE)
  <2>1. DOMAIN th[t].wr = {} /\ v \in Val /\ Value(t, ring_tail) = T /\ T \in Nat
    BY <1>1, <1>2, <1>5 DEF RingLocals, Value, RingMem
  <2>2. ReadWrite(t, "enq", ring_tail, w, new) /\ T - th[t].loc.h # Capacity
    BY <1>8, <2>1 DEF Enq, Full
  <2>0. /\ DOMAIN new = Fields /\ new.pc = IF both THEN "again" ELSE "commit"
        /\ IsAnswer(new.ret) /\ new.call = th[t].call /\ new.node = th[t].node
        /\ new.rd = th[t].rd /\ new.wr = th[t].wr /\ new.stale = th[t].stale
    BY <1>3, <1>4
  <2> HIDE DEF new
  <2>3. /\ OnlyThread(t) /\ UNCHANGED <<mem, owner, used, calls>>
        /\ DOMAIN th'[t] = Fields /\ th'[t].pc = IF both THEN "again" ELSE "commit"
        /\ th'[t].call = th[t].call /\ th'[t].node = th[t].node
        /\ th'[t].rd = th[t].rd \cup {ring_tail} /\ th'[t].wr = w @@ th[t].wr
        /\ th'[t].stale = th[t].stale /\ IsAnswer(th'[t].ret)
    BY <2>0, <2>2, ReadWriteEffect
  <2>4. Base'
    BY <1>5, <2>3, BaseOfInside, BaseLocal
  <2>5. /\ DOMAIN th'[t].wr = {items(T), ring_tail}
        /\ th'[t].wr[items(T)] = v /\ th'[t].wr[ring_tail] = T + 1
    BY <2>1, <2>3, RingLocations DEF :>, @@
  <2>6. RingLocals(t)'
    BY <1>6, <2>1, <2>3, <2>5, RingLocations DEF RingLocals
  <2>7. ASSUME ~th'[t].stale PROVE RingExact(t)'
    <3>1. RingExact(t) /\ TailSeen(t) = T /\ HeadSeen(t) = mem[ring_head]
      BY <1>2, <1>5, <2>1, <2>3, <2>7 DEF TailSeen, HeadSeen
    <3>2. ring_head \in th[t].rd /\ th[t].loc.h = mem[ring_head] /\ T - mem[ring_head] \in 0..Capacity
      BY <1>5, <3>1 DEF RingExact
    <3>3. TailSeen(t)' = T + 1 /\ HeadSeen(t)' = mem[ring_head]
      BY <2>3, <2>5, RingLocations DEF TailSeen, HeadSeen
    <3>4. (T + 1) - mem[ring_head] \in 0..Capacity
      BY <1>1, <2>1, <2>2, <3>2, ObjectAssumption DEF RingMem
    <3> QED BY <2>1, <2>3, <2>5, <3>2, <3>3, <3>4, RingLocations DEF RingExact
  <2> QED BY <2>3, <2>4, <2>6, <2>7, RingLocal
<1> QED
  BY <1>7, <1>8

\* A batch reads the head again, with what it has staged.
LEMMA DeqAgainKeeps ==
  ASSUME Base, RingInv, kind \in Rings, NEW t \in Thread, UNCHANGED kind, DeqAgain(t)
  PROVE  Base' /\ RingInv'
<1> DEFINE new == [th[t] EXCEPT !.pc = "deq", !.loc = [h |-> Value(t, ring_head)]]
<1>1. DOMAIN th[t] = Fields /\ RingMem
  BY DEF Base, ThreadOK, RingInv, Rings
<1>2. RingLocals(t) /\ (th[t].pc \notin {"idle", "return"} /\ ~th[t].stale => RingExact(t))
  BY DEF RingInv, Rings
<1>3. /\ DOMAIN new = Fields /\ new.pc = "deq" /\ new.call = th[t].call
      /\ new.loc = [h |-> Value(t, ring_head)] /\ new.node = th[t].node
      /\ new.rd = th[t].rd /\ new.wr = th[t].wr /\ new.stale = th[t].stale
      /\ new.ret = th[t].ret
  BY <1>1 DEF Fields
<1>4. Read(t, "again", ring_head, new)
  BY DEF DeqAgain
<1> HIDE DEF new
<1>5. /\ OnlyThread(t) /\ UNCHANGED <<mem, owner, used, calls>>
      /\ th[t].pc = "again" /\ DOMAIN th'[t] = Fields
      /\ th'[t].pc = "deq" /\ th'[t].call = th[t].call
      /\ th'[t].loc = [h |-> Value(t, ring_head)] /\ th'[t].node = th[t].node
      /\ th'[t].rd = th[t].rd \cup {ring_head} /\ th'[t].wr = th[t].wr
      /\ th'[t].stale = th[t].stale /\ th'[t].ret = th[t].ret
  BY <1>3, <1>4, ReadEffect
<1>6. Base'
  BY <1>5, BaseOfSame, BaseLocal
<1>7. HeadSeen(t) \in Nat /\ th'[t].loc.h = HeadSeen(t)
  BY <1>1, <1>2, <1>5, Seen DEF HeadSeen, RingLocals, RingMem
<1>8. RingLocals(t)'
  BY <1>2, <1>5, <1>7 DEF RingLocals
<1>9. ASSUME ~th'[t].stale PROVE RingExact(t)'
  <2>1. TailSeen(t)' = TailSeen(t) /\ HeadSeen(t)' = HeadSeen(t) /\ RingExact(t)
    BY <1>2, <1>5, <1>9 DEF TailSeen, HeadSeen
  <2> QED BY <1>5, <1>7, <2>1 DEF RingExact
<1> QED
  BY <1>5, <1>6, <1>8, <1>9, RingLocal

\* deq_tx() finds the ring empty, or not.
LEMMA DeqReadKeeps ==
  ASSUME Base, RingInv, kind \in Rings, NEW t \in Thread, UNCHANGED kind,
         DeqRefused(t) \/ DeqRead(t)
  PROVE  Base' /\ RingInv'
<1>1. DOMAIN th[t] = Fields /\ RingMem /\ IsAnswer(th[t].ret)
  BY DEF Base, ThreadOK, RingInv, Rings
<1>2. RingLocals(t) /\ (th[t].pc \notin {"idle", "return"} /\ ~th[t].stale => RingExact(t))
  BY DEF RingInv, Rings
<1>3. CASE DeqRefused(t)
  <2> DEFINE ret == IF Op(t) = "both" THEN Void ELSE th[t].ret
             new == [th[t] EXCEPT !.pc = "commit", !.ret = ret]
  <2>0. IsAnswer(ret)
    BY <1>1 DEF IsAnswer
  <2>1. /\ DOMAIN new = Fields /\ new.pc = "commit" /\ new.call = th[t].call
        /\ new.node = th[t].node /\ new.ret = ret
        /\ new.rd = th[t].rd /\ new.wr = th[t].wr /\ new.stale = th[t].stale
    BY <1>1 DEF Fields
  <2>2. Read(t, "deq", ring_tail, new)
    BY <1>3 DEF DeqRefused
  <2> HIDE DEF new, ret
  <2>3. /\ OnlyThread(t) /\ UNCHANGED <<mem, owner, used, calls>>
        /\ th[t].pc = "deq" /\ DOMAIN th'[t] = Fields
        /\ th'[t].pc = "commit" /\ th'[t].call = th[t].call /\ th'[t].node = th[t].node
        /\ th'[t].rd = th[t].rd \cup {ring_tail} /\ th'[t].wr = th[t].wr
        /\ th'[t].stale = th[t].stale /\ th'[t].ret = ret
    BY <2>1, <2>2, ReadEffect
  <2>4. Base'
    BY <2>0, <2>3, BaseOfInside, BaseLocal
  <2> QED BY <2>3, <2>4, RingLeaves
<1>4. CASE DeqRead(t)
  <2> DEFINE new == [th[t] EXCEPT !.pc = "item"]
  <2>1. /\ DOMAIN new = Fields /\ new.pc = "item" /\ new.call = th[t].call
        /\ new.loc = th[t].loc /\ new.node = th[t].node /\ new.ret = th[t].ret
        /\ new.rd = th[t].rd /\ new.wr = th[t].wr /\ new.stale = th[t].stale
    BY <1>1 DEF Fields
  <2>2. Read(t, "deq", ring_tail, new) /\ TailSeen(t) # th[t].loc.h
    BY <1>4, Seen DEF DeqRead, Empty
  <2> HIDE DEF new
  <2>3. /\ OnlyThread(t) /\ UNCHANGED <<mem, owner, used, calls>>
        /\ th[t].pc = "deq" /\ DOMAIN th'[t] = Fields
        /\ th'[t].pc = "item" /\ th'[t].call = th[t].call /\ th'[t].node = th[t].node
        /\ th'[t].rd = th[t].rd \cup {ring_tail} /\ th'[t].wr = th[t].wr
        /\ th'[t].loc = th[t].loc
        /\ th'[t].stale = th[t].stale /\ th'[t].ret = th[t].ret
    BY <2>1, <2>2, ReadEffect
  <2>4. Base'
    BY <2>3, BaseOfSame, BaseLocal
  <2>5. th[t].call.op # "both" =>
          /\ DOMAIN th[t].wr = {} /\ Capacity - 1 <= th[t].loc.h
          /\ th[t].loc.h < mem[ring_tail]
    <3>1. th[t].call.op # "both" =>
            /\ DOMAIN th[t].wr = {} /\ Capacity - 1 <= th[t].loc.h
            /\ th[t].loc.h <= mem[ring_tail] /\ th[t].loc.h \in Nat
      BY <1>2, <2>3 DEF RingLocals
    <3>2. DOMAIN th[t].wr = {} => TailSeen(t) = mem[ring_tail]
      BY DEF TailSeen
    <3>3. mem[ring_tail] \in Nat
      BY <1>1 DEF RingMem
    <3> QED BY <2>2, <3>1, <3>2, <3>3
  <2>6. RingLocals(t)'
    <3>1. th[t].call.op # "both" => th[t].loc.h <= mem[ring_tail]
      BY <1>2, <2>3 DEF RingLocals
    <3> QED BY <1>2, <2>3, <2>5, <3>1 DEF RingLocals
  <2>7. ASSUME ~th'[t].stale PROVE RingExact(t)'
    <3>1. TailSeen(t)' = TailSeen(t) /\ HeadSeen(t)' = HeadSeen(t) /\ RingExact(t)
      BY <1>2, <2>3, <2>7 DEF TailSeen, HeadSeen
    <3> QED BY <2>2, <2>3, <3>1 DEF RingExact
  <2> QED BY <2>3, <2>4, <2>6, <2>7, RingLocal
<1> QED
  BY <1>3, <1>4

\* deq_tx() takes the item and moves the head.
LEMMA DeqItemKeeps ==
  ASSUME Base, RingInv, kind \in Rings, NEW t \in Thread, UNCHANGED kind, DeqItem(t)
  PROVE  Base' /\ RingInv'
<1> DEFINE h == th[t].loc.h
           x == items(h)
           ret == IF Op(t) = "both" THEN Void ELSE <<"value", Value(t, x)>>
           new == [th[t] EXCEPT !.pc = "commit", !.ret = ret]
<1>1. DOMAIN th[t] = Fields /\ RingMem
  BY DEF Base, ThreadOK, RingInv, Rings
<1>2. RingLocals(t) /\ (th[t].pc \notin {"idle", "return"} /\ ~th[t].stale => RingExact(t))
  BY DEF RingInv, Rings
<1>3. /\ DOMAIN new = Fields /\ new.pc = "commit" /\ new.call = th[t].call
      /\ new.node = th[t].node /\ new.ret = ret
      /\ new.rd = th[t].rd /\ new.wr = th[t].wr /\ new.stale = th[t].stale
  BY <1>1 DEF Fields
<1>4. ReadWrite(t, "item", x, ring_head :> h + 1, new)
  BY DEF DeqItem
<1>5. th[t].pc = "item"
  BY DEF DeqItem, ReadWrite, Read, Local, AtPc
<1>6. IsAnswer(ret)
  <2>1. CASE Op(t) = "both"
    BY <2>1 DEF IsAnswer
  <2>2. CASE Op(t) # "both"
    <3>1. th[t].call.op # "both"
      BY <1>5, <2>2, OpOfCall
    <3>2. /\ h \in Nat /\ DOMAIN th[t].wr = {} /\ Capacity - 1 <= h /\ h < mem[ring_tail]
      BY <1>2, <1>5, <3>1 DEF RingLocals
    <3>3. mem[items(h)] \in Val /\ Value(t, x) = mem[items(h)]
      BY <1>1, <3>2 DEF RingMem, Value
    <3>4. ret = <<"value", mem[items(h)]>>
      BY <2>2, <3>3
    <3> QED BY <3>3, <3>4 DEF IsAnswer
  <2> QED BY <2>1, <2>2
<1> HIDE DEF new, ret
<1>7. /\ OnlyThread(t) /\ UNCHANGED <<mem, owner, used, calls>>
      /\ DOMAIN th'[t] = Fields
      /\ th'[t].pc = "commit" /\ th'[t].call = th[t].call /\ th'[t].node = th[t].node
      /\ th'[t].rd = th[t].rd \cup {x} /\ th'[t].wr = (ring_head :> h + 1) @@ th[t].wr
      /\ th'[t].stale = th[t].stale /\ th'[t].ret = ret
  BY <1>3, <1>4, ReadWriteEffect
<1>8. Base'
  BY <1>5, <1>6, <1>7, BaseOfInside, BaseLocal
<1>9. /\ DOMAIN th'[t].wr = DOMAIN th[t].wr \cup {ring_head}
      /\ th'[t].wr[ring_head] = h + 1
      /\ \A y \in DOMAIN th[t].wr : y # ring_head => th'[t].wr[y] = th[t].wr[y]
  BY <1>7 DEF :>, @@
<1>10. h \in Nat
  BY <1>2, <1>5 DEF RingLocals
<1>11. RingLocals(t)'
  BY <1>2, <1>7, <1>9, <1>10, RingLocations DEF RingLocals
<1>12. ASSUME ~th'[t].stale PROVE RingExact(t)'
  <2>1. RingExact(t)
    BY <1>2, <1>5, <1>7, <1>12
  <2>2. /\ ring_head \notin DOMAIN th[t].wr /\ ring_head \in th[t].rd /\ ring_tail \in th[t].rd
        /\ h = HeadSeen(t) /\ TailSeen(t) # HeadSeen(t)
        /\ TailSeen(t) - HeadSeen(t) \in 0..Capacity
    BY <1>5, <2>1 DEF RingExact
  <2>3. h = mem[ring_head]
    BY <2>2 DEF HeadSeen
  <2>4. TailSeen(t)' = TailSeen(t) /\ HeadSeen(t)' = h + 1
    BY <1>7, <1>9, RingLocations DEF TailSeen, HeadSeen
  <2>5. TailSeen(t) \in Nat
    BY <1>1, <1>2 DEF TailSeen, RingMem, RingLocals
  <2>6. TailSeen(t) - (h + 1) \in 0..Capacity
    BY <1>10, <2>2, <2>5, ObjectAssumption
  <2> QED BY <1>7, <1>9, <2>1, <2>2, <2>3, <2>4, <2>6, RingLocations DEF RingExact
<1> QED
  BY <1>7, <1>8, <1>11, <1>12, RingLocal

\* size() subtracts what it has read.
LEMMA SizeKeeps ==
  ASSUME Base, RingInv, kind \in Rings, NEW t \in Thread, UNCHANGED kind, Size(t)
  PROVE  Base' /\ RingInv'
<1>1. DOMAIN th[t] = Fields /\ RingMem
  BY DEF Base, ThreadOK, RingInv, Rings
<1>2. RingLocals(t)
  BY SMTT(30) DEF RingInv, Rings
<1>3. PICK where \in {"size", "size2"}, x \in {ring_tail, ring_head}, d \in Int :
        Read(t, where, x, [th[t] EXCEPT !.pc = "commit", !.ret = <<"size", d>>])
  <2>1. CASE AtPc(t, "size")
    <3>1. /\ th[t].loc.h \in Nat /\ Value(t, ring_tail) = mem[ring_tail] /\ mem[ring_tail] \in Nat
      BY <1>1, <1>2, <2>1 DEF RingLocals, RingMem, Value, AtPc
    <3>2. Value(t, ring_tail) - th[t].loc.h \in Int
      BY <3>1
    <3> QED BY <2>1, <3>2 DEF Size, AtPc
  <2>2. CASE AtPc(t, "size2")
    <3>1. /\ th[t].loc.t \in Nat /\ Value(t, ring_head) = mem[ring_head] /\ mem[ring_head] \in Nat
      BY <1>1, <1>2, <2>2 DEF RingLocals, RingMem, Value, AtPc
    <3>2. th[t].loc.t - Value(t, ring_head) \in Int
      BY <3>1
    <3> QED BY <2>2, <3>2 DEF Size, AtPc
  <2> QED BY <2>1, <2>2 DEF Size
<1> DEFINE new == [th[t] EXCEPT !.pc = "commit", !.ret = <<"size", d>>]
<1>4. /\ DOMAIN new = Fields /\ new.pc = "commit" /\ new.call = th[t].call
      /\ new.node = th[t].node /\ new.ret = <<"size", d>>
      /\ new.rd = th[t].rd /\ new.wr = th[t].wr /\ new.stale = th[t].stale
  BY <1>1 DEF Fields
<1>5. Read(t, where, x, new)
  BY <1>3
<1> HIDE DEF new
<1>6. /\ OnlyThread(t) /\ UNCHANGED <<mem, owner, used, calls>>
      /\ th[t].pc = where /\ DOMAIN th'[t] = Fields
      /\ th'[t].pc = "commit" /\ th'[t].call = th[t].call /\ th'[t].node = th[t].node
      /\ th'[t].rd = th[t].rd \cup {x} /\ th'[t].wr = th[t].wr
      /\ th'[t].stale = th[t].stale /\ th'[t].ret = <<"size", d>>
  BY <1>4, <1>5, ReadEffect
<1>7. IsAnswer(<<"size", d>>)
  BY <1>3 DEF IsAnswer
<1>8. Base'
  BY <1>6, <1>7, BaseOfInside, BaseLocal
<1> QED
  BY <1>6, <1>8, RingLeaves

\* A commit of a ring moves the ends by at most one, in range, and fills the
\* position that it adds; whoever has read what it changes will not commit.
LEMMA RingCommit ==
  ASSUME Base, RingInv, kind \in Rings, NEW t \in Thread, UNCHANGED kind, Commit(t)
  PROVE  Base' /\ RingInv'
<1> DEFINE w == th[t].wr
           H == mem[ring_head]
           T == mem[ring_tail]
<1>1. /\ Base' /\ th[t].pc = "commit" /\ ~th[t].stale /\ mem' = w @@ mem
      /\ th'[t].pc = "return" /\ th'[t].wr = << >>
      /\ \A u \in Thread \ {t} :
           /\ AsBefore(u) /\ th'[u].rd = th[u].rd
           /\ ~th'[u].stale => ~th[u].stale /\ th[u].rd \cap DOMAIN w = {}
  BY CommitEffect
<1>2. RingMem /\ RingExact(t)
  BY <1>1 DEF RingInv, Rings
<1>3. /\ DOMAIN mem' = DOMAIN w \cup DOMAIN mem
      /\ \A x \in DOMAIN w : mem'[x] = w[x]
      /\ \A x \in DOMAIN mem : x \notin DOMAIN w => mem'[x] = mem[x]
  BY <1>1 DEF @@
<1> HIDE DEF w
<1>4. /\ {ring_head, ring_tail} \cup {items(i) : i \in Nat} \subseteq DOMAIN mem
      /\ H \in Nat /\ T \in Nat /\ Capacity - 1 <= H
  BY <1>2 DEF RingMem
<1>5. /\ ring_head \in DOMAIN w => mem'[ring_head] = H + 1
      /\ ring_head \notin DOMAIN w => mem'[ring_head] = H
      /\ ring_tail \in DOMAIN w => mem'[ring_tail] = T + 1 /\ items(T) \in DOMAIN w
      /\ ring_tail \notin DOMAIN w => mem'[ring_tail] = T
  BY <1>2, <1>3, <1>4 DEF RingExact, w
<1>6. /\ mem'[ring_head] \in Nat /\ mem'[ring_tail] \in Nat
      /\ Capacity - 1 <= mem'[ring_head] /\ T <= mem'[ring_tail]
  BY <1>4, <1>5, ObjectAssumption
<1>7. mem'[ring_tail] - mem'[ring_head] \in 0..Capacity
  <2>1. TailSeen(t) = mem'[ring_tail] /\ HeadSeen(t) = mem'[ring_head]
    BY <1>3, <1>4 DEF TailSeen, HeadSeen, w
  <2> QED BY <1>2, <2>1 DEF RingExact
<1>8. ASSUME NEW i \in Nat, Capacity - 1 <= i, i < mem'[ring_tail] PROVE mem'[items(i)] \in Val
  <2>1. CASE items(i) \in DOMAIN w
    <3>1. w[items(i)] \in Val
      BY <1>2, <2>1, RingLocations DEF RingExact, w
    <3> QED BY <1>3, <2>1, <3>1
  <2>2. CASE items(i) \notin DOMAIN w
    <3>1. mem'[items(i)] = mem[items(i)]
      BY <1>3, <1>4, <2>2
    <3>2. i < T
      BY <1>4, <1>5, <1>8, <2>2
    <3> QED BY <1>2, <1>8, <3>1, <3>2 DEF RingMem
  <2> QED BY <2>1, <2>2
<1>9. RingMem'
  <2>1. {ring_head, ring_tail} \cup {items(i) : i \in Nat} \subseteq DOMAIN mem'
    BY <1>3, <1>4
  <2> QED BY <1>6, <1>7, <1>8, <2>1 DEF RingMem
<1>10. RingLocals(t)'
  BY <1>1 DEF RingLocals
<1>11. ASSUME NEW u \in Thread, u # t PROVE RingLocals(u)'
  <2>1. AsBefore(u) /\ RingLocals(u)
    BY <1>1, <1>11 DEF RingInv, Rings
  <2>2. \A h \in Nat : (h <= T => h <= mem'[ring_tail]) /\ (h < T => h < mem'[ring_tail])
    BY <1>4, <1>6
  <2>3. th[u].pc \in {"deq", "item"} /\ th[u].call.op # "both" =>
          /\ DOMAIN th[u].wr = {} /\ Capacity - 1 <= th[u].loc.h
          /\ th[u].loc.h <= mem'[ring_tail]
          /\ th[u].pc = "item" => th[u].loc.h < mem'[ring_tail]
    BY <2>1, <2>2 DEF RingLocals
  <2> QED BY <2>1, <2>3 DEF RingLocals, AsBefore
<1>12. ASSUME NEW u \in Thread, u # t, th'[u].pc \notin {"idle", "return"}, ~th'[u].stale
       PROVE  RingExact(u)'
  <2>1. /\ AsBefore(u) /\ th'[u].rd = th[u].rd /\ RingExact(u)
        /\ \A x \in th[u].rd : x \notin DOMAIN w
    BY <1>1, <1>12 DEF RingInv, Rings, AsBefore
  <2>2. /\ ring_head \in th[u].rd => mem'[ring_head] = H
        /\ ring_tail \in th[u].rd => mem'[ring_tail] = T
    BY <1>5, <2>1
  <2>3. CASE DOMAIN th[u].wr = {}
    <3>1. /\ TailSeen(u)' = mem'[ring_tail] /\ HeadSeen(u)' = mem'[ring_head]
          /\ TailSeen(u) = T /\ HeadSeen(u) = H
      BY <2>1, <2>3 DEF TailSeen, HeadSeen, AsBefore
    <3>2. /\ th[u].pc \in {"enq", "deq", "item"} => ring_head \in th[u].rd /\ th[u].loc.h = H
          /\ th[u].pc = "item" => ring_tail \in th[u].rd /\ T # H
      BY <2>1, <3>1 DEF RingExact
    <3> QED BY <1>7, <2>1, <2>2, <2>3, <3>1, <3>2 DEF RingExact, AsBefore
  <2>4. CASE DOMAIN th[u].wr # {}
    <3>1. mem'[ring_head] = H /\ mem'[ring_tail] = T
      BY <2>1, <2>2, <2>4 DEF RingExact
    <3>2. TailSeen(u)' = TailSeen(u) /\ HeadSeen(u)' = HeadSeen(u)
      BY <2>1, <3>1 DEF TailSeen, HeadSeen, AsBefore
    <3> QED BY <2>1, <3>1, <3>2 DEF RingExact, AsBefore
  <2> QED BY <2>3, <2>4
<1> QED
  BY <1>1, <1>9, <1>10, <1>11, <1>12 DEF RingInv

\* The bounded queue and the queue of the batch benchmark.
LEMMA RingKeeps ==
  ASSUME Base, RingInv, kind \in Rings, NEW t \in Thread, UNCHANGED kind, RingStep(t)
  PROVE  Base' /\ RingInv'
<1>1. CASE Call(t, {r \in RingRequest : r.op = "size" => kind = "bounded"})
  <2> DEFINE R == {r \in RingRequest : r.op = "size" => kind = "bounded"}
  <2>1. R \subseteq Asked
    BY DEF Asked, Rings, ListKinds
  <2> HIDE DEF R
  <2>2. Call(t, R)
    BY <1>1 DEF R
  <2>3. /\ Base' /\ OnlyThread(t) /\ UNCHANGED <<mem, owner, used>>
        /\ \E r \in R : th'[t] = Begin(r)
    BY <2>1, <2>2, CallEffect
  <2>4. PICK r : th'[t] = Begin(r)
    BY <2>3
  <2>5. th'[t].pc = "begin" /\ th'[t].wr = << >>
    BY <2>4, BeginFields
  <2> QED BY <2>3, <2>5, RingOutside
<1>2. CASE Retry(t, Op(t) = "deq" \/ (kind = "batch" /\ Op(t) = "enq"), FALSE)
  <2> DEFINE keeps == Op(t) = "deq" \/ (kind = "batch" /\ Op(t) = "enq")
  <2>1. keeps \in BOOLEAN /\ FALSE \in BOOLEAN
    OBVIOUS
  <2> HIDE DEF keeps
  <2>2. Retry(t, keeps, FALSE)
    BY <1>2 DEF keeps
  <2>3. /\ Base' /\ OnlyThread(t) /\ UNCHANGED <<mem, owner, calls>>
        /\ th'[t].pc = "begin" /\ th'[t].wr = << >>
    BY <2>1, <2>2, RetryEffect
  <2> QED BY <2>3, RingOutside
<1>3. CASE Return(t)
  <2>1. /\ Base' /\ OnlyThread(t) /\ UNCHANGED mem
        /\ th'[t].pc = "idle" /\ th'[t].wr = << >>
    BY <1>3, ReturnEffect
  <2> QED BY <2>1, RingOutside
<1> QED
  BY <1>1, <1>2, <1>3, RingBegins, EnqKeeps, DeqAgainKeeps, DeqReadKeeps, DeqItemKeeps,
     SizeKeeps, RingCommit DEF RingStep

----------------------------------------------------------------------------
(* The stack.                                                              *)

\* A step of the stack that leaves the memory alone: t does not learn of the
\* private node of another thread.
LEMMA StackLocal ==
  ASSUME StackInv, kind = "stack", NEW t \in Thread, OnlyThread(t),
         UNCHANGED <<kind, mem, used>>, StackThread(t)', ~Owns(t)',
         \A u \in Thread \ {t} : Owns(u) =>
           \A x \in DOMAIN th'[t].wr : th'[t].wr[x] # th[u].node
  PROVE  StackInv'
<1>1. StackMem'
  BY DEF StackInv, StackMem
<1>2. ASSUME NEW u \in Thread, u # t PROVE StackThread(u)'
  <2>1. th'[u] = th[u] /\ StackThread(u)
    BY <1>2 DEF OnlyThread, StackInv
  <2>2. ASSUME Owns(u), NEW v \in Thread \ {u}
        PROVE  /\ \A x \in DOMAIN th'[v].wr : th'[v].wr[x] # th[u].node
               /\ Owns(v)' => th'[v].node # th[u].node
    <3>1. CASE v = t
      BY <1>2, <2>2, <3>1
    <3>2. CASE v # t
      <4>1. th'[v] = th[v] /\ (Owns(v)' => Owns(v))
        BY <3>2 DEF OnlyThread, Owns
      <4> QED BY <2>1, <2>2, <4>1 DEF StackThread
    <3> QED BY <3>1, <3>2
  <2>3. Owns(u)' => Owns(u)
    BY <2>1 DEF Owns
  <2> QED BY <2>1, <2>2, <2>3 DEF StackThread
<1> QED
  BY <1>1, <1>2 DEF StackInv

\* Call() and Return(), and what comes after them, know of no node.
LEMMA StackOutside ==
  ASSUME StackInv, kind = "stack", NEW t \in Thread, OnlyThread(t),
         UNCHANGED <<kind, mem, used>>, th'[t].wr = << >>,
         th'[t].pc # "commit", th'[t].pc = "begin" => th'[t].node = none
  PROVE  StackInv'
<1>1. DOMAIN th'[t].wr = {} /\ ~Owns(t)'
  BY DEF Owns
<1>2. StackThread(t)'
  BY <1>1 DEF StackThread
<1> QED
  BY <1>1, <1>2, StackLocal

\* The top of the stack is no field of a node.
LEMMA StackLocations == \A n : top # value(n) /\ top # next(n)
  BY DEF top, value, next

\* push() allocates its node, which nobody else knows, and stages the new top.
LEMMA PushKeeps ==
  ASSUME Base, StackInv, kind = "stack", NEW t \in Thread, UNCHANGED kind, Push(t)
  PROVE  Base' /\ StackInv'
<1> DEFINE v == th[t].call.val
<1>1. /\ DOMAIN th[t] = Fields /\ DOMAIN th = Thread /\ StackMem /\ StackThread(t)
      /\ used \subseteq Node
  BY DEF Base, ThreadOK, StackInv
<1>2. th[t].pc = "begin" /\ UNCHANGED <<owner, calls>>
  BY DEF Push, ReadNew, AtPc
<1>3. DOMAIN th[t].wr = {} /\ th[t].node = none /\ Value(t, top) = mem[top]
  BY <1>1, <1>2 DEF StackThread, Value
<1>4. PICK n \in Node \ used :
        /\ used' = used \cup {n}
        /\ mem' = ((value(n) :> v) @@ (next(n) :> mem[top])) @@ mem
        /\ Become(t, [[th[t] EXCEPT !.pc = "commit", !.ret = Void]
                        EXCEPT !.rd = @ \cup {top}, !.wr = top :> n @@ @, !.node = n])
  BY <1>3 DEF Push, ReadNew
<1>5. /\ OnlyThread(t) /\ DOMAIN th'[t] = Fields
      /\ th'[t].pc = "commit" /\ th'[t].ret = Void
      /\ th'[t].call = th[t].call /\ th'[t].wr = top :> n @@ th[t].wr
      /\ th'[t].stale = th[t].stale /\ th'[t].node = n
  BY <1>1, <1>4 DEF Become, OnlyThread, Fields
<1>6. DOMAIN th'[t].wr = {top} /\ th'[t].wr[top] = n
  BY <1>3, <1>5 DEF :>, @@
<1>7. th[t].call \in StackRequest /\ v \in Val
  <2>1. Op(t) = "push" /\ Op(t) = th[t].call.op /\ th[t].call \in StackRequest
    BY <1>2, OpOfCall DEF Push, Asked, ListKinds
  <2> QED BY <2>1 DEF StackRequest
<1>8. Base'
  <2>1. th'[t].call \in Asked'
    BY <1>2, <1>5 DEF Base, ThreadOK, Asked
  <2>2. th'[t].stale \in BOOLEAN
    BY <1>5 DEF Base, ThreadOK
  <2>3. ThreadOK(t)'
    BY <1>5, <2>1, <2>2 DEF ThreadOK, IsAnswer
  <2>4. /\ used' \subseteq Node /\ calls' \in 0..MaxCalls
        /\ \A l \in DOMAIN owner' : owner'[l] \in Thread \cup {none}
    BY <1>2, <1>4 DEF Base
  <2> QED BY <1>5, <2>3, <2>4, BaseStep
<1>9. n \notin used /\ n # none
  BY ObjectAssumption
<1>10. /\ DOMAIN mem' = DOMAIN mem \cup {value(n), next(n)}
       /\ mem'[value(n)] = v /\ mem'[next(n)] = mem[top] /\ mem'[top] = mem[top]
       /\ \A x \in DOMAIN mem : x # value(n) /\ x # next(n) => mem'[x] = mem[x]
  BY <1>1, <1>4, Locations, StackLocations DEF :>, @@, StackMem
<1>11. \A m \in used : mem'[value(m)] = mem[value(m)] /\ mem'[next(m)] = mem[next(m)]
  BY <1>1, <1>9, <1>10, Locations DEF StackMem
<1>12. StackMem'
  BY <1>1, <1>4, <1>7, <1>10, <1>11 DEF StackMem
<1>13. StackThread(t)'
  <2>1. mem'[top] # n /\ \A m \in used' : mem'[next(m)] # n
    BY <1>1, <1>4, <1>9, <1>10, <1>11 DEF StackMem
  <2>2. ASSUME NEW u \in Thread \ {t}
        PROVE  /\ \A x \in DOMAIN th'[u].wr : th'[u].wr[x] # n
               /\ Owns(u)' => th'[u].node # n
    <3>1. th'[u] = th[u] /\ StackThread(u) /\ (Owns(u)' => Owns(u))
      BY <1>5 DEF OnlyThread, StackInv, Owns
    <3> QED BY <1>9, <3>1 DEF StackThread
  <2> QED BY <1>4, <1>5, <1>6, <2>1, <2>2 DEF StackThread
<1>14. ASSUME NEW u \in Thread, u # t PROVE StackThread(u)'
  <2>1. th'[u] = th[u] /\ StackThread(u) /\ (Owns(u)' => Owns(u))
    BY <1>5, <1>14 DEF OnlyThread, StackInv, Owns
  <2>2. \A x \in DOMAIN th'[u].wr : x = top /\ th'[u].wr[x] \in used' \cup {none}
    BY <1>4, <2>1 DEF StackThread
  <2>3. ASSUME Owns(u)'
        PROVE  /\ th'[u].node \in used'
               /\ mem'[top] # th'[u].node
               /\ \A m \in used' : mem'[next(m)] # th'[u].node
    BY <1>4, <1>10, <1>11, <2>1, <2>3 DEF StackThread
  <2>4. ASSUME Owns(u)', NEW q \in Thread \ {u}
        PROVE  /\ \A x \in DOMAIN th'[q].wr : th'[q].wr[x] # th'[u].node
               /\ Owns(q)' => th'[q].node # th'[u].node
    <3>1. CASE q = t
      <4>1. th[u].node \in used
        BY <2>1, <2>4 DEF StackThread
      <4> QED BY <1>5, <1>6, <1>9, <2>1, <3>1, <4>1
    <3>2. CASE q # t
      <4>1. th'[q] = th[q] /\ (Owns(q)' => Owns(q))
        BY <1>5, <3>2 DEF OnlyThread, Owns
      <4> QED BY <2>1, <2>4, <4>1 DEF StackThread
    <3> QED BY <3>1, <3>2
  <2> QED BY <2>1, <2>2, <2>3, <2>4 DEF StackThread
<1> QED
  BY <1>8, <1>12, <1>13, <1>14 DEF StackInv

\* try_pop() and empty() read the top.
LEMMA PopKeeps ==
  ASSUME Base, StackInv, kind = "stack", NEW t \in Thread, UNCHANGED kind,
         TryPop(t) \/ IsEmpty(t)
  PROVE  Base' /\ StackInv'
<1> DEFINE n == mem[top]
<1>1. /\ DOMAIN th[t] = Fields /\ StackMem /\ StackThread(t)
  BY DEF Base, ThreadOK, StackInv
<1>2. th[t].pc = "begin"
  BY DEF TryPop, IsEmpty, ReadWrite, Read, Local, AtPc
<1>3. DOMAIN th[t].wr = {} /\ th[t].node = none /\ Value(t, top) = n
  BY <1>1, <1>2 DEF StackThread, Value
<1>4. CASE (TryPop(t) /\ n = none) \/ IsEmpty(t)
  <2>1. PICK ret \in {Yes, No} : Read(t, "begin", top, [th[t] EXCEPT !.pc = "commit", !.ret = ret])
    BY <1>3, <1>4 DEF TryPop, IsEmpty, Bool
  <2> DEFINE new == [th[t] EXCEPT !.pc = "commit", !.ret = ret]
  <2>2. /\ DOMAIN new = Fields /\ new.pc = "commit" /\ new.call = th[t].call
        /\ new.node = th[t].node /\ new.ret = ret
        /\ new.rd = th[t].rd /\ new.wr = th[t].wr /\ new.stale = th[t].stale
    BY <1>1 DEF Fields
  <2>3. Read(t, "begin", top, new)
    BY <2>1
  <2> HIDE DEF new
  <2>4. /\ OnlyThread(t) /\ UNCHANGED <<mem, owner, used, calls>>
        /\ DOMAIN th'[t] = Fields
        /\ th'[t].pc = "commit" /\ th'[t].call = th[t].call /\ th'[t].node = th[t].node
        /\ th'[t].wr = th[t].wr /\ th'[t].stale = th[t].stale /\ th'[t].ret = ret
    BY <2>2, <2>3, ReadEffect
  <2>5. Base'
    BY <1>2, <2>1, <2>4, BaseOfAnswer, BaseLocal
  <2>6. StackThread(t)' /\ ~Owns(t)' /\ DOMAIN th'[t].wr = {}
    BY <1>3, <2>4 DEF StackThread, Owns
  <2> QED BY <2>4, <2>5, <2>6, StackLocal
<1>5. CASE TryPop(t) /\ n # none
  <2> DEFINE ret == <<"value", mem[value(n)]>>
             new == [th[t] EXCEPT !.pc = "commit", !.ret = ret]
             then == mem[next(n)]
  <2>1. n \in used /\ mem[value(n)] \in Val /\ then \in used \cup {none}
    BY <1>1, <1>5 DEF StackMem
  <2>2. /\ DOMAIN new = Fields /\ new.pc = "commit" /\ new.call = th[t].call
        /\ new.node = th[t].node /\ new.ret = ret
        /\ new.rd = th[t].rd /\ new.wr = th[t].wr /\ new.stale = th[t].stale
    BY <1>1 DEF Fields
  <2>3. ReadWrite(t, "begin", top, top :> then, new)
    BY <1>3, <1>5 DEF TryPop
  <2>4. IsAnswer(ret)
    BY <2>1 DEF IsAnswer
  <2> HIDE DEF new, ret
  <2>5. /\ OnlyThread(t) /\ UNCHANGED <<mem, owner, used, calls>>
        /\ DOMAIN th'[t] = Fields
        /\ th'[t].pc = "commit" /\ th'[t].call = th[t].call /\ th'[t].node = th[t].node
        /\ th'[t].wr = top :> then @@ th[t].wr /\ th'[t].stale = th[t].stale
        /\ th'[t].ret = ret
    BY <2>2, <2>3, ReadWriteEffect
  <2>6. Base'
    BY <1>2, <2>4, <2>5, BaseOfInside, BaseLocal
  <2>7. DOMAIN th'[t].wr = {top} /\ th'[t].wr[top] = then
    BY <1>3, <2>5 DEF :>, @@
  <2>8. StackThread(t)' /\ ~Owns(t)'
    BY <1>3, <2>1, <2>5, <2>7 DEF StackThread, Owns
  <2>9. \A u \in Thread \ {t} : Owns(u) => then # th[u].node
    BY <2>1 DEF StackInv, StackThread
  <2> QED BY <2>5, <2>6, <2>7, <2>8, <2>9, StackLocal
<1> QED
  BY <1>4, <1>5

\* A commit of the stack moves the top to a node that no other thread owns.
LEMMA StackCommit ==
  ASSUME Base, StackInv, kind = "stack", NEW t \in Thread, UNCHANGED kind, Commit(t)
  PROVE  Base' /\ StackInv'
<1> DEFINE w == th[t].wr
<1>1. /\ Base' /\ UNCHANGED used /\ mem' = w @@ mem
      /\ th'[t].pc = "return" /\ th'[t].wr = << >>
      /\ \A u \in Thread \ {t} : AsBefore(u)
  BY CommitEffect
<1>2. StackMem /\ StackThread(t)
  BY DEF StackInv
<1>3. \A x \in DOMAIN w : x = top /\ w[x] \in used \cup {none}
  BY <1>2 DEF StackThread
<1>4. /\ DOMAIN mem' = DOMAIN w \cup DOMAIN mem
      /\ \A x \in DOMAIN w : mem'[x] = w[x]
      /\ \A x \in DOMAIN mem : x \notin DOMAIN w => mem'[x] = mem[x]
  BY <1>1 DEF @@
<1> HIDE DEF w
<1>5. \A m \in used : mem'[value(m)] = mem[value(m)] /\ mem'[next(m)] = mem[next(m)]
  BY <1>2, <1>3, <1>4, StackLocations DEF StackMem
<1>6. /\ mem'[top] \in used \cup {none}
      /\ mem'[top] = mem[top] \/ (top \in DOMAIN w /\ mem'[top] = w[top])
  BY <1>2, <1>3, <1>4 DEF StackMem
<1>7. StackMem'
  BY <1>1, <1>2, <1>4, <1>5, <1>6 DEF StackMem
<1>8. StackThread(t)' /\ ~Owns(t)' /\ DOMAIN th'[t].wr = {}
  BY <1>1 DEF StackThread, Owns
<1>9. ASSUME NEW u \in Thread, u # t PROVE StackThread(u)'
  <2>1. AsBefore(u) /\ StackThread(u) /\ (Owns(u)' => Owns(u))
    BY <1>1, <1>9 DEF StackInv, Owns, AsBefore
  <2>2. Owns(u) => \A x \in DOMAIN w : w[x] # th[u].node
    BY <1>9, <2>1 DEF StackThread, w
  <2>3. Owns(u)' =>
          /\ th'[u].node \in used'
          /\ mem'[top] # th'[u].node
          /\ \A m \in used' : mem'[next(m)] # th'[u].node
    BY <1>1, <1>5, <1>6, <2>1, <2>2 DEF StackThread, AsBefore
  <2>4. ASSUME Owns(u)', NEW q \in Thread \ {u}
        PROVE  /\ \A x \in DOMAIN th'[q].wr : th'[q].wr[x] # th'[u].node
               /\ Owns(q)' => th'[q].node # th'[u].node
    <3>1. CASE q # t
      <4>1. AsBefore(q) /\ (Owns(q)' => Owns(q))
        BY <1>1, <3>1 DEF AsBefore, Owns
      <4> QED BY <2>1, <2>4, <4>1 DEF StackThread, AsBefore
    <3> QED BY <1>8, <3>1
  <2> QED BY <1>1, <2>1, <2>3, <2>4 DEF StackThread, AsBefore
<1> QED
  BY <1>1, <1>7, <1>8, <1>9 DEF StackInv

\* An attempt that fails gives its private node back.
LEMMA StackRetry ==
  ASSUME Base, StackInv, kind = "stack", NEW t \in Thread, UNCHANGED kind,
         Retry(t, FALSE, th[t].node # none)
  PROVE  Base' /\ StackInv'
<1> DEFINE n == th[t].node
<1>1. StackMem /\ StackThread(t)
  BY DEF StackInv
<1>2. /\ Base' /\ OnlyThread(t) /\ UNCHANGED mem /\ th[t].pc = "commit"
      /\ used' = IF n # none THEN used \ {n} ELSE used
      /\ th'[t].pc = "begin" /\ th'[t].wr = << >> /\ th'[t].node = none
  BY RetryEffect
<1>3. CASE n = none
  BY <1>2, <1>3, StackOutside
<1>4. CASE n # none
  <2>1. /\ used' = used \ {n} /\ mem[top] # n /\ \A m \in used : mem[next(m)] # n
        /\ \A u \in Thread \ {t} :
             /\ \A x \in DOMAIN th[u].wr : th[u].wr[x] # n
             /\ Owns(u) => th[u].node # n
    BY <1>1, <1>2, <1>4 DEF StackThread, Owns
  <2>2. StackMem'
    BY <1>1, <1>2, <2>1 DEF StackMem
  <2>3. StackThread(t)' /\ ~Owns(t)' /\ DOMAIN th'[t].wr = {}
    BY <1>2 DEF StackThread, Owns
  <2>4. ASSUME NEW u \in Thread, u # t PROVE StackThread(u)'
    <3>1. th'[u] = th[u] /\ StackThread(u) /\ (Owns(u)' => Owns(u))
      BY <1>2, <2>4 DEF OnlyThread, StackInv, Owns
    <3>2. \A x \in DOMAIN th'[u].wr : x = top /\ th'[u].wr[x] \in used' \cup {none}
      BY <2>1, <2>4, <3>1 DEF StackThread
    <3>3. Owns(u)' =>
            /\ th'[u].node \in used'
            /\ mem'[top] # th'[u].node
            /\ \A m \in used' : mem'[next(m)] # th'[u].node
      BY <1>2, <2>1, <2>4, <3>1 DEF StackThread
    <3>4. ASSUME Owns(u)', NEW q \in Thread \ {u}
          PROVE  /\ \A x \in DOMAIN th'[q].wr : th'[q].wr[x] # th'[u].node
                 /\ Owns(q)' => th'[q].node # th'[u].node
      <4>1. CASE q # t
        <5>1. th'[q] = th[q] /\ (Owns(q)' => Owns(q))
          BY <1>2, <4>1 DEF OnlyThread, Owns
        <5> QED BY <3>1, <3>4, <5>1 DEF StackThread
      <4> QED BY <2>3, <4>1
    <3> QED BY <3>1, <3>2, <3>3, <3>4 DEF StackThread
  <2> QED BY <1>2, <2>2, <2>3, <2>4 DEF StackInv
<1> QED
  BY <1>3, <1>4

\* The stack of the benchmark.
LEMMA StackKeeps ==
  ASSUME Base, StackInv, kind = "stack", NEW t \in Thread, UNCHANGED kind, StackStep(t)
  PROVE  Base' /\ StackInv'
<1>1. CASE Call(t, StackRequest)
  <2>1. StackRequest \subseteq Asked
    BY DEF Asked, ListKinds
  <2>2. /\ Base' /\ OnlyThread(t) /\ UNCHANGED <<mem, owner, used>>
        /\ \E r \in StackRequest : th'[t] = Begin(r)
    BY <1>1, <2>1, CallEffect
  <2>3. PICK r : th'[t] = Begin(r)
    BY <2>2
  <2>4. th'[t].pc = "begin" /\ th'[t].wr = << >> /\ th'[t].node = none
    BY <2>3, BeginFields
  <2> QED BY <2>2, <2>4, StackOutside
<1>2. CASE Return(t)
  <2>1. /\ Base' /\ OnlyThread(t) /\ UNCHANGED <<mem, used>>
        /\ th'[t].pc = "idle" /\ th'[t].wr = << >>
    BY <1>2, ReturnEffect
  <2> QED BY <2>1, StackOutside
<1> QED
  BY <1>1, <1>2, PushKeeps, PopKeeps, StackCommit, StackRetry DEF StackStep

----------------------------------------------------------------------------
(* The bank.                                                               *)

\* An execute() of the bank example reads an account and stages its balance.
LEMMA ExecuteKeeps ==
  ASSUME Base, kind = "bank", NEW t \in Thread, UNCHANGED kind, NEW where, NEW x, NEW w,
         NEW then \in {"withdraw", "commit"},
         where # "idle",
         ReadWrite(t, where, x, w, [th[t] EXCEPT !.pc = then, !.ret = Void])
  PROVE  Base'
<1> DEFINE new == [th[t] EXCEPT !.pc = then, !.ret = Void]
<1>1. DOMAIN th[t] = Fields
  BY DEF Base, ThreadOK
<1>2. /\ DOMAIN new = Fields /\ new.pc = then /\ new.call = th[t].call
      /\ new.node = th[t].node /\ new.ret = Void /\ new.stale = th[t].stale
  BY <1>1 DEF Fields
<1>3. ReadWrite(t, where, x, w, new)
  OBVIOUS
<1> HIDE DEF new
<1>4. /\ OnlyThread(t) /\ UNCHANGED <<mem, owner, used, calls>>
      /\ th[t].pc = where /\ DOMAIN th'[t] = Fields
      /\ th'[t].pc = then /\ th'[t].call = th[t].call /\ th'[t].node = th[t].node
      /\ th'[t].ret = Void /\ th'[t].stale = th[t].stale
  BY <1>2, <1>3, ReadWriteEffect
<1> QED
  BY <1>4, BaseOfAnswer, BaseLocal

\* The transactions of the bank example.
LEMMA BankKeeps ==
  ASSUME Base, kind = "bank", NEW t \in Thread, UNCHANGED kind, BankStep(t)
  PROVE  Base'
<1>1. CASE Call(t, BankRequest)
  <2>1. BankRequest \subseteq Asked
    BY DEF Asked, ListKinds
  <2> QED BY <1>1, <2>1, CallEffect
<1>2. CASE Execute(t) \/ Transfer(t)
  <2>1. PICK x, w : \E where \in {"begin", "withdraw"}, then \in {"withdraw", "commit"} :
          ReadWrite(t, where, x, w, [th[t] EXCEPT !.pc = then, !.ret = Void])
    BY <1>2 DEF Execute, Transfer, Add, Withdraw
  <2> QED BY <2>1, ExecuteKeeps
<1>3. CASE Retry(t, FALSE, FALSE)
  BY <1>3, RetryEffect
<1> QED
  BY <1>1, <1>2, <1>3, CommitEffect, ReturnEffect DEF BankStep

----------------------------------------------------------------------------
(* The linked queue.                                                       *)

\* The ends of the queue are no fields of a node.
LEMMA QueueLocations ==
  /\ queue_head # queue_tail
  /\ \A n : /\ queue_head # value(n) /\ queue_head # next(n)
            /\ queue_tail # value(n) /\ queue_tail # next(n)
  BY DEF queue_head, queue_tail, value, next

\* A step of the queue that leaves the memory alone.
LEMMA QueueLocal ==
  ASSUME QueueInv, kind = "queue", NEW t \in Thread, OnlyThread(t),
         UNCHANGED <<kind, mem, used>>, QueueThread(t)',
         Unlinked(t)' => Unlinked(t) /\ th'[t].node = th[t].node
  PROVE  QueueInv'
<1>1. QueueMem'
  <2>1. QueueMem
    BY DEF QueueInv
  <2>2. \A p, len : Way(p, len) => Way(p, len)'
    BY DEF Way
  <2> QED BY <2>1, <2>2 DEF QueueMem
<1>2. ASSUME NEW u \in Thread, u # t PROVE QueueThread(u)'
  <2>1. th'[u] = th[u] /\ QueueThread(u)
    BY <1>2 DEF OnlyThread, QueueInv
  <2> QED BY <2>1 DEF QueueThread, Unlinked
<1>3. ASSUME NEW u \in Thread PROVE Unlinked(u)' => Unlinked(u) /\ th'[u].node = th[u].node
  BY DEF OnlyThread, Unlinked
<1>4. \A u, v \in Thread : u # v /\ Unlinked(u) /\ Unlinked(v) => th[u].node # th[v].node
  BY DEF QueueInv
<1>5. \A u, v \in Thread : u # v /\ Unlinked(u)' /\ Unlinked(v)' => th'[u].node # th'[v].node
  BY <1>3, <1>4
<1> QED
  BY <1>1, <1>2, <1>5 DEF QueueInv

\* enqueue() allocates its node before the transaction.
LEMMA AllocateKeeps ==
  ASSUME Base, QueueInv, kind = "queue", NEW t \in Thread, UNCHANGED kind, AllocateNode(t)
  PROVE  Base' /\ QueueInv'
<1> DEFINE v == th[t].call.val
<1>1. /\ DOMAIN th[t] = Fields /\ DOMAIN th = Thread /\ QueueMem /\ QueueThread(t)
      /\ used \subseteq Node
  BY DEF Base, ThreadOK, QueueInv
<1>2. /\ th[t].pc = "begin" /\ Op(t) = "enq" /\ th[t].node = none
      /\ UNCHANGED <<owner, calls>>
  BY DEF AllocateNode, AtPc
<1>3. PICK n \in Node \ used :
        /\ used' = used \cup {n}
        /\ mem' = (value(n) :> v) @@ (next(n) :> none) @@ mem
        /\ Become(t, [th[t] EXCEPT !.node = n])
  BY DEF AllocateNode
<1>4. /\ OnlyThread(t) /\ DOMAIN th'[t] = Fields
      /\ th'[t].pc = "begin" /\ th'[t].ret = th[t].ret
      /\ th'[t].call = th[t].call /\ th'[t].wr = th[t].wr
      /\ th'[t].stale = th[t].stale /\ th'[t].node = n
  BY <1>1, <1>2, <1>3 DEF Become, OnlyThread, Fields
<1>5. v \in Val /\ th[t].call.op = "enq"
  <2>1. Op(t) = th[t].call.op /\ th[t].call \in QueueRequest
    BY <1>2, OpOfCall DEF Asked, ListKinds
  <2> QED BY <1>2, <2>1 DEF QueueRequest
<1>6. Base'
  <2>1. th'[t].call \in Asked' /\ IsAnswer(th'[t].ret) /\ th'[t].stale \in BOOLEAN
    BY <1>2, <1>4 DEF Base, ThreadOK, Asked
  <2>2. ThreadOK(t)'
    BY <1>4, <2>1 DEF ThreadOK, IsAnswer
  <2>3. /\ used' \subseteq Node /\ calls' \in 0..MaxCalls
        /\ \A l \in DOMAIN owner' : owner'[l] \in Thread \cup {none}
    BY <1>2, <1>3 DEF Base
  <2> QED BY <1>4, <2>2, <2>3, BaseStep
<1>7. n \notin used /\ n # none /\ n # head
  BY ObjectAssumption
<1>8. /\ DOMAIN mem' = DOMAIN mem \cup {value(n), next(n)}
      /\ mem'[value(n)] = v /\ mem'[next(n)] = none
      /\ \A x \in DOMAIN mem : x # value(n) /\ x # next(n) => mem'[x] = mem[x]
  BY <1>3, Locations DEF :>, @@
<1>9. /\ \A m \in used \cup {head} : mem'[next(m)] = mem[next(m)]
      /\ \A m \in used : mem'[value(m)] = mem[value(m)]
      /\ mem'[queue_head] = mem[queue_head] /\ mem'[queue_tail] = mem[queue_tail]
  BY <1>1, <1>7, <1>8, Locations, QueueLocations DEF QueueMem
<1>10. QueueMem'
  <2>1. \E len \in Nat : \E p \in [0..len -> used' \cup {head}] : Way(p, len)'
    <3>0. PICK len \in Nat : \E p \in [0..len -> used \cup {head}] : Way(p, len)
      BY <1>1 DEF QueueMem
    <3>1. PICK p \in [0..len -> used \cup {head}] : Way(p, len)
      BY <3>0
    <3>2. p \in [0..len -> used' \cup {head}]
      BY <1>3
    <3>3. \A i \in 0..(len - 1) : i \in 0..len
      OBVIOUS
    <3>4. \A i \in 0..(len - 1) : mem'[next(p[i])] = p[i + 1]
      BY <1>9, <3>1, <3>3 DEF Way
    <3>5. Way(p, len)'
      BY <1>9, <3>1, <3>2, <3>4 DEF Way
    <3> QED BY <3>2, <3>5
  <2>2. \A m \in used' \cup {head} : next(m) \in DOMAIN mem' /\ mem'[next(m)] \in used' \cup {none}
    BY <1>1, <1>3, <1>8, <1>9 DEF QueueMem
  <2>3. \A m \in used' : value(m) \in DOMAIN mem' /\ mem'[value(m)] \in Val
    BY <1>1, <1>3, <1>5, <1>8, <1>9 DEF QueueMem
  <2>4. /\ {queue_head, queue_tail} \subseteq DOMAIN mem'
        /\ mem'[queue_head] \in used' \cup {head} /\ mem'[queue_tail] \in used' \cup {head}
        /\ mem'[next(mem'[queue_tail])] = none
    BY <1>1, <1>3, <1>8, <1>9 DEF QueueMem
  <2> QED BY <2>1, <2>2, <2>3, <2>4 DEF QueueMem
<1>11. QueueThread(t)'
  <2>1. /\ n # mem'[queue_head] /\ n # mem'[queue_tail]
        /\ \A m \in used' \cup {head} : mem'[next(m)] # n
    BY <1>1, <1>3, <1>7, <1>8, <1>9 DEF QueueMem
  <2>2. DOMAIN th[t].wr = {}
    BY <1>1, <1>2 DEF QueueThread
  <2> QED BY <1>3, <1>4, <1>5, <1>8, <2>1, <2>2 DEF QueueThread
<1>12. ASSUME NEW u \in Thread, u # t PROVE QueueThread(u)'
  <2>1. th'[u] = th[u] /\ QueueThread(u) /\ (Unlinked(u)' <=> Unlinked(u))
    BY <1>4, <1>12 DEF OnlyThread, QueueInv, Unlinked
  <2>2. Unlinked(u) =>
          /\ th[u].call.op = "enq" /\ th[u].node \in used'
          /\ th[u].node # mem'[queue_head] /\ th[u].node # mem'[queue_tail]
          /\ mem'[next(th[u].node)] = none
          /\ \A m \in used' \cup {head} : mem'[next(m)] # th[u].node
    <3>1. Unlinked(u) => th[u].node # none
      BY DEF Unlinked
    <3> QED BY <1>3, <1>8, <1>9, <2>1, <3>1 DEF QueueThread
  <2>3. mem[queue_head] \in used \cup {head}
    BY <1>1 DEF QueueMem
  <2>4. mem'[next(mem'[queue_head])] = mem[next(mem[queue_head])]
    BY <1>9, <2>3
  <2> QED BY <1>3, <1>9, <2>1, <2>2, <2>4 DEF QueueThread
<1>13. \A u, q \in Thread : u # q /\ Unlinked(u)' /\ Unlinked(q)' => th'[u].node # th'[q].node
  <2>1. \A u \in Thread : u # t /\ Unlinked(u)' => Unlinked(u) /\ th'[u].node = th[u].node
    BY <1>4 DEF OnlyThread, Unlinked
  <2>2. \A u \in Thread : Unlinked(u) => th[u].node \in used
    BY DEF QueueInv, QueueThread
  <2>3. \A u, q \in Thread : u # q /\ Unlinked(u) /\ Unlinked(q) => th[u].node # th[q].node
    BY DEF QueueInv
  <2> QED BY <1>4, <1>7, <2>1, <2>2, <2>3
<1> QED
  BY <1>6, <1>10, <1>11, <1>12, <1>13 DEF QueueInv

\* The bodies of enqueue() and of dequeue().
LEMMA LinkNodeKeeps ==
  ASSUME Base, QueueInv, kind = "queue", NEW t \in Thread, UNCHANGED kind, LinkNode(t)
  PROVE  Base' /\ QueueInv'
<1> DEFINE n == th[t].node
           T == mem[queue_tail]
           new == [th[t] EXCEPT !.pc = "commit", !.ret = Void]
           w == (next(T) :> n) @@ (queue_tail :> n)
<1>1. DOMAIN th[t] = Fields /\ QueueMem /\ QueueThread(t)
  BY DEF Base, ThreadOK, QueueInv
<1>2. th[t].pc = "begin" /\ n # none
  BY DEF LinkNode, ReadWrite, Read, Local, AtPc
<1>3. DOMAIN th[t].wr = {} /\ Value(t, queue_tail) = T
  BY <1>1, <1>2 DEF QueueThread, Value
<1>4. /\ DOMAIN new = Fields /\ new.pc = "commit" /\ new.call = th[t].call
      /\ new.node = n /\ new.ret = Void
      /\ new.rd = th[t].rd /\ new.wr = th[t].wr /\ new.stale = th[t].stale
  BY <1>1 DEF Fields
<1>5. ReadWrite(t, "begin", queue_tail, w, new)
  BY <1>3 DEF LinkNode
<1> HIDE DEF new, w
<1>6. /\ OnlyThread(t) /\ UNCHANGED <<mem, owner, used, calls>>
      /\ DOMAIN th'[t] = Fields
      /\ th'[t].pc = "commit" /\ th'[t].call = th[t].call /\ th'[t].node = n
      /\ th'[t].rd = th[t].rd \cup {queue_tail} /\ th'[t].wr = w @@ th[t].wr
      /\ th'[t].stale = th[t].stale /\ th'[t].ret = Void
  BY <1>4, <1>5, ReadWriteEffect
<1>7. Base'
  BY <1>2, <1>6, BaseOfAnswer, BaseLocal
<1>8. /\ DOMAIN th'[t].wr = {queue_tail, next(T)}
      /\ th'[t].wr[queue_tail] = n /\ th'[t].wr[next(T)] = n
  BY <1>3, <1>6, QueueLocations DEF :>, @@, w
<1>9. Unlinked(t)
  BY <1>2 DEF Unlinked
<1>10. QueueThread(t)'
  <2>1. /\ th[t].call.op = "enq" /\ n \in used /\ n # mem[queue_head] /\ n # T
        /\ mem[next(n)] = none /\ \A m \in used \cup {head} : mem[next(m)] # n
    BY <1>1, <1>9 DEF QueueThread
  <2> QED BY <1>2, <1>6, <1>8, <2>1 DEF QueueThread
<1> QED
  BY <1>6, <1>7, <1>9, <1>10, QueueLocal

\* try_deq() only reads, up to the staged write of the head.
LEMMA DequeueKeeps ==
  ASSUME Base, QueueInv, kind = "queue", NEW t \in Thread, UNCHANGED kind,
         ReadQueueHead(t) \/ DequeueNode(t)
  PROVE  Base' /\ QueueInv'
<1> DEFINE H == mem[queue_head]
<1>1. DOMAIN th[t] = Fields /\ QueueMem /\ QueueThread(t)
  BY DEF Base, ThreadOK, QueueInv
<1>2. CASE ReadQueueHead(t)
  <2> DEFINE new == [th[t] EXCEPT !.pc = "next", !.loc = [h |-> H]]
  <2>1. th[t].pc = "begin" /\ Op(t) = "deq"
    BY <1>2 DEF ReadQueueHead, Read, Local, AtPc
  <2>2. DOMAIN th[t].wr = {} /\ Value(t, queue_head) = H
    BY <1>1, <2>1 DEF QueueThread, Value
  <2>3. /\ DOMAIN new = Fields /\ new.pc = "next" /\ new.call = th[t].call
        /\ new.loc = [h |-> H] /\ new.node = th[t].node /\ new.ret = th[t].ret
        /\ new.rd = th[t].rd /\ new.wr = th[t].wr /\ new.stale = th[t].stale
    BY <1>1 DEF Fields
  <2>4. Read(t, "begin", queue_head, new)
    BY <1>2, <2>2 DEF ReadQueueHead
  <2> HIDE DEF new
  <2>5. /\ OnlyThread(t) /\ UNCHANGED <<mem, owner, used, calls>>
        /\ DOMAIN th'[t] = Fields /\ th'[t].loc = [h |-> H]
        /\ th'[t].pc = "next" /\ th'[t].call = th[t].call /\ th'[t].node = th[t].node
        /\ th'[t].rd = th[t].rd \cup {queue_head} /\ th'[t].wr = th[t].wr
        /\ th'[t].stale = th[t].stale /\ th'[t].ret = th[t].ret
    BY <2>3, <2>4, ReadEffect
  <2>6. Base'
    BY <2>1, <2>5, BaseOfSame, BaseLocal
  <2>7. th[t].node = none
    <3>1. th[t].call.op = "deq"
      BY <2>1, OpOfCall
    <3> QED BY <1>1, <2>1, <3>1 DEF QueueThread, Unlinked
  <2>8. H \in used \cup {head}
    BY <1>1 DEF QueueMem
  <2>9. QueueThread(t)' /\ ~Unlinked(t)'
    BY <2>2, <2>5, <2>7, <2>8 DEF QueueThread, Unlinked
  <2> QED BY <2>5, <2>6, <2>9, QueueLocal
<1>3. CASE DequeueNode(t)
  <2> DEFINE h == th[t].loc.h
             n == mem[next(h)]
  <2>1. th[t].pc = "next"
    BY <1>3 DEF DequeueNode, AtPc
  <2>2. /\ DOMAIN th[t].wr = {} /\ Value(t, next(h)) = n /\ th[t].node = none
        /\ h \in used \cup {head}
    BY <1>1, <2>1 DEF QueueThread, Value
  <2>3. ~th[t].stale => queue_head \in th[t].rd /\ h = H
    BY <1>1, <2>1 DEF QueueThread
  <2>4. CASE n = none
    <3> DEFINE new == [th[t] EXCEPT !.pc = "commit", !.ret = No]
    <3>1. /\ DOMAIN new = Fields /\ new.pc = "commit" /\ new.call = th[t].call
          /\ new.node = th[t].node /\ new.ret = No
          /\ new.rd = th[t].rd /\ new.wr = th[t].wr /\ new.stale = th[t].stale
      BY <1>1 DEF Fields
    <3>2. Read(t, "next", next(h), new)
      BY <1>3, <2>2, <2>4 DEF DequeueNode
    <3> HIDE DEF new
    <3>3. /\ OnlyThread(t) /\ UNCHANGED <<mem, owner, used, calls>>
          /\ DOMAIN th'[t] = Fields
          /\ th'[t].pc = "commit" /\ th'[t].call = th[t].call /\ th'[t].node = th[t].node
          /\ th'[t].wr = th[t].wr
          /\ th'[t].stale = th[t].stale /\ th'[t].ret = No
      BY <3>1, <3>2, ReadEffect
    <3>4. Base'
      BY <2>1, <3>3, BaseOfAnswer, BaseLocal
    <3>5. QueueThread(t)' /\ ~Unlinked(t)'
      BY <2>2, <3>3 DEF QueueThread, Unlinked
    <3> QED BY <3>3, <3>4, <3>5, QueueLocal
  <2>5. CASE n # none
    <3> DEFINE ret == <<"value", mem[value(n)]>>
               new == [th[t] EXCEPT !.pc = "commit", !.ret = ret]
    <3>1. /\ DOMAIN new = Fields /\ new.pc = "commit" /\ new.call = th[t].call
          /\ new.node = th[t].node /\ new.ret = ret
          /\ new.rd = th[t].rd /\ new.wr = th[t].wr /\ new.stale = th[t].stale
      BY <1>1 DEF Fields
    <3>2. ReadWrite(t, "next", next(h), queue_head :> n, new)
      BY <1>3, <2>2, <2>5 DEF DequeueNode
    <3>3. n \in used /\ mem[value(n)] \in Val
      BY <1>1, <2>2, <2>5 DEF QueueMem
    <3>4. IsAnswer(ret)
      BY <3>3 DEF IsAnswer
    <3> HIDE DEF new, ret
    <3>5. /\ OnlyThread(t) /\ UNCHANGED <<mem, owner, used, calls>>
          /\ DOMAIN th'[t] = Fields
          /\ th'[t].pc = "commit" /\ th'[t].call = th[t].call /\ th'[t].node = th[t].node
          /\ th'[t].rd = th[t].rd \cup {next(h)} /\ th'[t].wr = queue_head :> n @@ th[t].wr
          /\ th'[t].stale = th[t].stale /\ th'[t].ret = ret
      BY <3>1, <3>2, ReadWriteEffect
    <3>6. Base'
      BY <2>1, <3>4, <3>5, BaseOfInside, BaseLocal
    <3>7. DOMAIN th'[t].wr = {queue_head} /\ th'[t].wr[queue_head] = n
      BY <2>2, <3>5 DEF :>, @@
    <3>8. QueueThread(t)' /\ ~Unlinked(t)'
      BY <2>2, <2>3, <2>5, <3>5, <3>7 DEF QueueThread, Unlinked
    <3> QED BY <3>5, <3>6, <3>8, QueueLocal
  <2> QED BY <2>4, <2>5
<1> QED
  BY <1>2, <1>3

\* A commit of enqueue() appends its node to the way from the head to the tail.
LEMMA EnqueueCommit ==
  ASSUME Base, QueueInv, kind = "queue", NEW t \in Thread, UNCHANGED kind, Commit(t),
         th[t].node # none
  PROVE  Base' /\ QueueInv'
<1> DEFINE w == th[t].wr
           n == th[t].node
           H == mem[queue_head]
           T == mem[queue_tail]
<1>1. /\ Base' /\ UNCHANGED used /\ mem' = w @@ mem
      /\ th[t].pc = "commit" /\ ~th[t].stale
      /\ th'[t].pc = "return" /\ th'[t].wr = << >>
      /\ \A u \in Thread \ {t} :
           /\ AsBefore(u) /\ th'[u].rd = th[u].rd
           /\ ~th'[u].stale => ~th[u].stale /\ th[u].rd \cap DOMAIN w = {}
  BY CommitEffect
<1>2. QueueMem /\ QueueThread(t) /\ Unlinked(t) /\ used \subseteq Node
  BY <1>1 DEF QueueInv, Unlinked, Base
<1>3. /\ DOMAIN w = {queue_tail, next(T)} /\ w[queue_tail] = n /\ w[next(T)] = n
      /\ n \in used /\ n # H /\ n # T /\ mem[next(n)] = none
      /\ \A m \in used \cup {head} : mem[next(m)] # n
  BY <1>1, <1>2 DEF QueueThread
<1>4. H \in used \cup {head} /\ T \in used \cup {head} /\ mem[next(T)] = none
  BY <1>2 DEF QueueMem
<1>5. /\ DOMAIN mem' = DOMAIN w \cup DOMAIN mem
      /\ mem'[queue_tail] = n /\ mem'[next(T)] = n
      /\ \A x \in DOMAIN mem : x # queue_tail /\ x # next(T) => mem'[x] = mem[x]
  BY <1>1, <1>3 DEF @@
<1>6. /\ \A m \in used \cup {head} : m # T => mem'[next(m)] = mem[next(m)]
      /\ \A m \in used : mem'[value(m)] = mem[value(m)]
      /\ mem'[queue_head] = H
  BY <1>2, <1>5, Locations, QueueLocations DEF QueueMem
<1> HIDE DEF w, n, H, T
<1>7. QueueMem'
  <2>1. \E len \in Nat : \E p \in [0..len -> used' \cup {head}] : Way(p, len)'
    <3>0. PICK len \in Nat : \E p \in [0..len -> used \cup {head}] : Way(p, len)
      BY <1>2 DEF QueueMem
    <3>1. PICK p \in [0..len -> used \cup {head}] : Way(p, len)
      BY <3>0
    <3>q. PICK q : q = [i \in 0..(len + 1) |-> IF i = len + 1 THEN n ELSE p[i]]
      OBVIOUS
    <3>2. /\ p[0] = H /\ p[len] = T
          /\ \A i \in 0..(len - 1) : mem[next(p[i])] = p[i + 1]
          /\ \A i, j \in 0..len : i # j => p[i] # p[j]
      BY <3>1 DEF Way, H, T
    <3>3. \A i \in 0..len : p[i] \in used \cup {head} /\ q[i] = p[i]
      BY <3>q
    <3>4. q[len + 1] = n
      BY <3>q
    <3>5. q \in [0..(len + 1) -> used' \cup {head}]
      BY <1>1, <1>3, <3>q
    <3>6. \A i \in 0..len : p[i] # n
      <4>1. ASSUME NEW i \in 0..len, i # 0 PROVE p[i] # n
        <5>1. i - 1 \in 0..(len - 1) /\ i - 1 \in 0..len /\ (i - 1) + 1 = i
          BY <4>1
        <5>2. mem[next(p[i - 1])] = p[i]
          BY <3>2, <5>1
        <5> QED BY <1>3, <3>3, <5>1, <5>2
      <4> QED BY <1>3, <3>2, <4>1
    <3>7. ASSUME NEW i \in 0..((len + 1) - 1) PROVE mem'[next(q[i])] = q[i + 1]
      <4>1. CASE i = len
        BY <1>5, <3>2, <3>3, <3>4, <4>1
      <4>2. CASE i # len
        <5>1. i \in 0..(len - 1) /\ i \in 0..len /\ i + 1 \in 0..len /\ len \in 0..len
          BY <4>2
        <5>2. p[i] # T
          BY <3>2, <4>2, <5>1
        <5> QED BY <1>6, <3>2, <3>3, <5>1, <5>2
      <4> QED BY <4>1, <4>2
    <3>8. ASSUME NEW i \in 0..(len + 1), NEW j \in 0..(len + 1), i # j PROVE q[i] # q[j]
      <4>1. CASE i = len + 1
        BY <3>3, <3>4, <3>6, <3>8, <4>1
      <4>2. CASE j = len + 1
        BY <3>3, <3>4, <3>6, <3>8, <4>2
      <4>3. CASE i # len + 1 /\ j # len + 1
        <5>1. i \in 0..len /\ j \in 0..len
          BY <4>3
        <5> QED BY <3>2, <3>3, <3>8, <5>1
      <4> QED BY <4>1, <4>2, <4>3
    <3>9. q[0] = mem'[queue_head] /\ q[len + 1] = mem'[queue_tail]
      BY <1>5, <1>6, <3>2, <3>3, <3>4
    <3>10. Way(q, len + 1)'
      BY <3>5, <3>7, <3>8, <3>9 DEF Way
    <3>11. len + 1 \in Nat
      OBVIOUS
    <3> QED BY <3>5, <3>10, <3>11
  <2>2. \A m \in used' \cup {head} : next(m) \in DOMAIN mem' /\ mem'[next(m)] \in used' \cup {none}
    BY <1>1, <1>2, <1>3, <1>5, <1>6 DEF QueueMem
  <2>3. \A m \in used' : value(m) \in DOMAIN mem' /\ mem'[value(m)] \in Val
    BY <1>1, <1>2, <1>5, <1>6 DEF QueueMem
  <2>4. /\ {queue_head, queue_tail} \subseteq DOMAIN mem'
        /\ mem'[queue_head] \in used' \cup {head} /\ mem'[queue_tail] \in used' \cup {head}
        /\ mem'[next(mem'[queue_tail])] = none
    BY <1>1, <1>2, <1>3, <1>4, <1>5, <1>6 DEF QueueMem
  <2> QED BY <2>1, <2>2, <2>3, <2>4 DEF QueueMem
<1>8. QueueThread(t)' /\ ~Unlinked(t)'
  BY <1>1 DEF QueueThread, Unlinked
<1>9. ASSUME NEW u \in Thread, u # t PROVE QueueThread(u)'
  <2>1. /\ AsBefore(u) /\ QueueThread(u) /\ (Unlinked(u)' <=> Unlinked(u))
        /\ th'[u].rd = th[u].rd
        /\ ~th'[u].stale => ~th[u].stale /\ queue_tail \notin th[u].rd /\ next(T) \notin th[u].rd
    BY <1>1, <1>3, <1>9 DEF QueueInv, Unlinked, AsBefore
  <2>2. Unlinked(u) => th[u].node # n
    BY <1>2, <1>9 DEF QueueInv, n
  <2>3. Unlinked(u) =>
          /\ th[u].call.op = "enq" /\ th[u].node \in used'
          /\ th[u].node # mem'[queue_head] /\ th[u].node # mem'[queue_tail]
          /\ mem'[next(th[u].node)] = none
          /\ \A m \in used' \cup {head} : mem'[next(m)] # th[u].node
    BY <1>1, <1>5, <1>6, <2>1, <2>2 DEF QueueThread, H, T
  <2>4. th[u].pc = "commit" /\ th[u].node # none => th'[u].stale
    BY <2>1 DEF QueueThread
  <2>5. th[u].pc = "next" /\ ~th'[u].stale => queue_head \in th[u].rd /\ th[u].loc.h = H
    BY <2>1 DEF QueueThread, H
  <2>6. th[u].pc = "commit" /\ th[u].node = none /\ ~th'[u].stale =>
          \/ DOMAIN th[u].wr = {}
          \/ /\ DOMAIN th[u].wr = {queue_head}
             /\ queue_head \in th[u].rd /\ next(H) \in th[u].rd
             /\ th[u].wr[queue_head] = mem'[next(H)]
             /\ th[u].wr[queue_head] # none
    <3>1. th[u].pc = "commit" /\ th[u].node = none /\ ~th'[u].stale =>
            \/ DOMAIN th[u].wr = {}
            \/ /\ DOMAIN th[u].wr = {queue_head}
               /\ queue_head \in th[u].rd /\ next(H) \in th[u].rd
               /\ th[u].wr[queue_head] = mem[next(H)]
               /\ th[u].wr[queue_head] # none
      BY <2>1 DEF QueueThread, H
    <3>2. ~th'[u].stale /\ next(H) \in th[u].rd => H # T
      BY <2>1
    <3> QED BY <1>4, <1>6, <3>1, <3>2
  <2>7. /\ th[u].pc \in {"begin", "next"} => DOMAIN th[u].wr = {}
        /\ th[u].pc = "next" => th[u].loc.h \in used' \cup {head} /\ th[u].node = none
    BY <1>1, <2>1 DEF QueueThread
  <2> QED BY <1>6, <2>1, <2>3, <2>4, <2>5, <2>6, <2>7 DEF QueueThread, AsBefore
<1>10. \A u, q \in Thread : u # q /\ Unlinked(u)' /\ Unlinked(q)' => th'[u].node # th'[q].node
  <2>1. \A u \in Thread : u # t /\ Unlinked(u)' => Unlinked(u) /\ th'[u].node = th[u].node
    BY <1>1 DEF AsBefore, Unlinked
  <2>2. \A u, q \in Thread : u # q /\ Unlinked(u) /\ Unlinked(q) => th[u].node # th[q].node
    BY DEF QueueInv
  <2> QED BY <1>8, <2>1, <2>2
<1> QED
  BY <1>1, <1>7, <1>8, <1>9, <1>10 DEF QueueInv

\* A commit of dequeue() moves the head one node on, or changes nothing.
LEMMA DequeueCommit ==
  ASSUME Base, QueueInv, kind = "queue", NEW t \in Thread, UNCHANGED kind, Commit(t),
         th[t].node = none
  PROVE  Base' /\ QueueInv'
<1> DEFINE w == th[t].wr
           H == mem[queue_head]
           T == mem[queue_tail]
           n == mem[next(H)]
<1>1. /\ Base' /\ UNCHANGED used /\ mem' = w @@ mem
      /\ th[t].pc = "commit" /\ ~th[t].stale
      /\ th'[t].pc = "return" /\ th'[t].wr = << >>
      /\ \A u \in Thread \ {t} :
           /\ AsBefore(u) /\ th'[u].rd = th[u].rd
           /\ ~th'[u].stale => ~th[u].stale /\ th[u].rd \cap DOMAIN w = {}
  BY CommitEffect
<1>2. QueueMem /\ QueueThread(t) /\ used \subseteq Node
  BY <1>1 DEF QueueInv, Base
<1>3. DOMAIN w = {} \/ (DOMAIN w = {queue_head} /\ w[queue_head] = n /\ n # none)
  BY <1>1, <1>2 DEF QueueThread
<1>4. /\ H \in used \cup {head} /\ T \in used \cup {head} /\ mem[next(T)] = none
      /\ n \in used \cup {none} /\ {queue_head, queue_tail} \subseteq DOMAIN mem
  BY <1>2 DEF QueueMem
<1>5. /\ DOMAIN mem' = DOMAIN mem
      /\ \A x \in DOMAIN mem : x # queue_head => mem'[x] = mem[x]
      /\ DOMAIN w = {} => mem'[queue_head] = H
      /\ DOMAIN w # {} => mem'[queue_head] = n /\ n \in used /\ queue_head \in DOMAIN w
  BY <1>1, <1>3, <1>4 DEF @@
<1>6. /\ \A m \in used \cup {head} : mem'[next(m)] = mem[next(m)]
      /\ \A m \in used : mem'[value(m)] = mem[value(m)]
      /\ mem'[queue_tail] = T
  BY <1>2, <1>5, Locations, QueueLocations DEF QueueMem
<1> HIDE DEF w, n, H, T
<1>7. QueueMem'
  <2>1. \E len \in Nat : \E p \in [0..len -> used' \cup {head}] : Way(p, len)'
    <3>0. PICK len \in Nat : \E p \in [0..len -> used \cup {head}] : Way(p, len)
      BY <1>2 DEF QueueMem
    <3>1. PICK p \in [0..len -> used \cup {head}] : Way(p, len)
      BY <3>0
    <3>2. /\ p[0] = H /\ p[len] = T
          /\ \A i \in 0..(len - 1) : mem[next(p[i])] = p[i + 1]
          /\ \A i, j \in 0..len : i # j => p[i] # p[j]
      BY <3>1 DEF Way, H, T
    <3>3. \A i \in 0..(len - 1) : mem'[next(p[i])] = p[i + 1]
      <4>1. \A i \in 0..(len - 1) : p[i] \in used \cup {head}
        OBVIOUS
      <4> QED BY <1>6, <3>2, <4>1
    <3>4. CASE DOMAIN w = {}
      <4>1. Way(p, len)'
        BY <1>1, <1>5, <1>6, <3>2, <3>3, <3>4 DEF Way
      <4> QED BY <1>1, <4>1
    <3>5. CASE DOMAIN w # {}
      <4>1. len # 0
        BY <1>3, <1>4, <3>2, <3>5 DEF n
      <4>2. p[1] = n
        <5>1. 0 \in 0..(len - 1) /\ 0 + 1 = 1
          BY <4>1
        <5> QED BY <3>2, <5>1 DEF n
      <4> DEFINE q == [i \in 0..(len - 1) |-> p[i + 1]]
      <4>3. /\ len - 1 \in Nat
            /\ \A i \in 0..(len - 1) : i + 1 \in 0..len /\ q[i] = p[i + 1]
        BY <4>1
      <4>4. q \in [0..(len - 1) -> used' \cup {head}]
        BY <1>1, <4>3
      <4> HIDE DEF q
      <4>5. ASSUME NEW i \in 0..((len - 1) - 1) PROVE mem'[next(q[i])] = q[i + 1]
        <5>1. i \in 0..(len - 1) /\ i + 1 \in 0..(len - 1)
          BY <4>3
        <5> QED BY <3>3, <4>3, <5>1
      <4>6. ASSUME NEW i \in 0..(len - 1), NEW j \in 0..(len - 1), i # j PROVE q[i] # q[j]
        <5>1. i + 1 # j + 1
          BY <4>6
        <5> QED BY <3>2, <4>3, <5>1
      <4>7. q[0] = mem'[queue_head]
        <5>1. 0 \in 0..(len - 1) /\ 0 + 1 = 1
          BY <4>1
        <5> QED BY <1>5, <3>5, <4>2, <4>3, <5>1
      <4>8. q[len - 1] = mem'[queue_tail]
        <5>1. len - 1 \in 0..(len - 1) /\ (len - 1) + 1 = len
          BY <4>3
        <5> QED BY <1>6, <3>2, <4>3, <5>1
      <4>9. Way(q, len - 1)'
        BY <4>4, <4>5, <4>6, <4>7, <4>8 DEF Way
      <4> QED BY <4>3, <4>4, <4>9
    <3> QED BY <3>4, <3>5
  <2>2. \A m \in used' \cup {head} : next(m) \in DOMAIN mem' /\ mem'[next(m)] \in used' \cup {none}
    BY <1>1, <1>2, <1>5, <1>6 DEF QueueMem
  <2>3. \A m \in used' : value(m) \in DOMAIN mem' /\ mem'[value(m)] \in Val
    BY <1>1, <1>2, <1>5, <1>6 DEF QueueMem
  <2>4. /\ {queue_head, queue_tail} \subseteq DOMAIN mem'
        /\ mem'[queue_head] \in used' \cup {head} /\ mem'[queue_tail] \in used' \cup {head}
        /\ mem'[next(mem'[queue_tail])] = none
    BY <1>1, <1>4, <1>5, <1>6
  <2> QED BY <2>1, <2>2, <2>3, <2>4 DEF QueueMem
<1>8. QueueThread(t)' /\ ~Unlinked(t)'
  BY <1>1 DEF QueueThread, Unlinked
<1>9. ASSUME NEW u \in Thread, u # t PROVE QueueThread(u)'
  <2>1. /\ AsBefore(u) /\ QueueThread(u) /\ (Unlinked(u)' <=> Unlinked(u))
        /\ th'[u].rd = th[u].rd
        /\ ~th'[u].stale => ~th[u].stale /\ (DOMAIN w # {} => queue_head \notin th[u].rd)
    BY <1>1, <1>5, <1>9 DEF QueueInv, Unlinked, AsBefore
  <2>2. Unlinked(u) =>
          /\ th[u].call.op = "enq" /\ th[u].node \in used
          /\ th[u].node # H /\ th[u].node # T /\ mem[next(th[u].node)] = none
          /\ \A m \in used \cup {head} : mem[next(m)] # th[u].node
    BY <2>1 DEF QueueThread, H, T
  <2>3. Unlinked(u) => th[u].node # n
    BY <1>4, <2>2 DEF n
  <2>4. Unlinked(u) =>
          /\ th[u].call.op = "enq" /\ th[u].node \in used'
          /\ th[u].node # mem'[queue_head] /\ th[u].node # mem'[queue_tail]
          /\ mem'[next(th[u].node)] = none
          /\ \A m \in used' \cup {head} : mem'[next(m)] # th[u].node
    BY <1>1, <1>5, <1>6, <2>2, <2>3
  <2>5. th[u].pc = "commit" /\ th[u].node # none /\ ~th'[u].stale =>
          /\ queue_tail \in th[u].rd
          /\ DOMAIN th[u].wr = {queue_tail, next(T)}
          /\ th[u].wr[queue_tail] = th[u].node /\ th[u].wr[next(T)] = th[u].node
    BY <2>1 DEF QueueThread, T
  <2>6. th[u].pc = "next" /\ ~th'[u].stale =>
          queue_head \in th[u].rd /\ th[u].loc.h = mem'[queue_head]
    BY <1>5, <2>1 DEF QueueThread, H
  <2>7. th[u].pc = "commit" /\ th[u].node = none /\ ~th'[u].stale =>
          \/ DOMAIN th[u].wr = {}
          \/ /\ DOMAIN th[u].wr = {queue_head} /\ mem'[queue_head] = H
             /\ queue_head \in th[u].rd /\ next(H) \in th[u].rd
             /\ th[u].wr[queue_head] = mem'[next(H)]
             /\ th[u].wr[queue_head] # none
    BY <1>4, <1>5, <1>6, <2>1 DEF QueueThread, H
  <2>8. /\ th[u].pc \in {"begin", "next"} => DOMAIN th[u].wr = {}
        /\ th[u].pc = "next" => th[u].loc.h \in used' \cup {head} /\ th[u].node = none
    BY <1>1, <2>1 DEF QueueThread
  <2> QED BY <1>6, <2>1, <2>4, <2>5, <2>6, <2>7, <2>8 DEF QueueThread, AsBefore
<1>10. \A u, q \in Thread : u # q /\ Unlinked(u)' /\ Unlinked(q)' => th'[u].node # th'[q].node
  <2>1. \A u \in Thread : u # t /\ Unlinked(u)' => Unlinked(u) /\ th'[u].node = th[u].node
    BY <1>1 DEF AsBefore, Unlinked
  <2>2. \A u, q \in Thread : u # q /\ Unlinked(u) /\ Unlinked(q) => th[u].node # th[q].node
    BY DEF QueueInv
  <2> QED BY <1>8, <2>1, <2>2
<1> QED
  BY <1>1, <1>7, <1>8, <1>9, <1>10 DEF QueueInv

\* The linked queue of the benchmark.
LEMMA QueueKeeps ==
  ASSUME Base, QueueInv, kind = "queue", NEW t \in Thread, UNCHANGED kind, QueueStep(t)
  PROVE  Base' /\ QueueInv'
<1>1. CASE Call(t, QueueRequest)
  <2>1. QueueRequest \subseteq Asked
    BY DEF Asked, ListKinds
  <2>2. /\ Base' /\ OnlyThread(t) /\ UNCHANGED <<mem, owner, used>>
        /\ \E r \in QueueRequest : th'[t] = Begin(r)
    BY <1>1, <2>1, CallEffect
  <2>3. PICK r : th'[t] = Begin(r)
    BY <2>2
  <2>4. th'[t].pc = "begin" /\ th'[t].wr = << >> /\ th'[t].node = none
    BY <2>3, BeginFields
  <2>5. QueueThread(t)' /\ ~Unlinked(t)'
    BY <2>4 DEF QueueThread, Unlinked
  <2> QED BY <2>2, <2>5, QueueLocal
<1>2. CASE Return(t)
  <2>1. /\ Base' /\ OnlyThread(t) /\ UNCHANGED <<mem, used>>
        /\ th'[t].pc = "idle" /\ th'[t].wr = << >>
    BY <1>2, ReturnEffect
  <2>2. QueueThread(t)' /\ ~Unlinked(t)'
    BY <2>1 DEF QueueThread, Unlinked
  <2> QED BY <2>1, <2>2, QueueLocal
<1>3. CASE Retry(t, FALSE, FALSE)
  <2>1. /\ Base' /\ OnlyThread(t) /\ UNCHANGED <<mem, used>> /\ th[t].pc = "commit"
        /\ th'[t].pc = "begin" /\ th'[t].wr = << >> /\ th'[t].call = th[t].call
        /\ th'[t].node = th[t].node
    BY <1>3, RetryEffect
  <2>2. QueueThread(t)
    BY DEF QueueInv
  <2>3. (Unlinked(t)' => Unlinked(t)) /\ DOMAIN th'[t].wr = {}
    BY <2>1 DEF Unlinked
  <2>4. QueueThread(t)'
    BY <2>1, <2>2, <2>3 DEF QueueThread
  <2> QED BY <2>1, <2>3, <2>4, QueueLocal
<1> QED
  BY <1>1, <1>2, <1>3, AllocateKeeps, LinkNodeKeeps, DequeueKeeps, EnqueueCommit, DequeueCommit
     DEF QueueStep

----------------------------------------------------------------------------
(* Every step of every container keeps the invariant.                      *)

\* A step that changes nothing.
LEMMA StutterKeeps ==
  ASSUME ObjectInv, UNCHANGED vars
  PROVE  ObjectInv'
<1>1. UNCHANGED <<kind, mem, owner, used, th, calls>>
  BY DEF vars
<1>2. Base'
  BY <1>1 DEF ObjectInv, Base, ThreadOK, Asked, IsAnswer
<1>3. ListInv'
  <2>1. ASSUME kind \in ListKinds PROVE ListMem'
    BY <1>1, <2>1, ListMemSame DEF ObjectInv, ListInv
  <2>2. ASSUME kind \in ListKinds, NEW t \in Thread PROVE ListThread(t)' /\ ListPrivate(t)'
    <3>1. ListMem /\ ListThread(t) /\ ListPrivate(t) /\ KeysKept /\ AsBefore(t)
      BY <1>1, <2>2 DEF ObjectInv, ListInv, KeysKept, AsBefore
    <3>2. ListThread(t)'
      BY <1>1, <3>1, ListThreadKept
    <3>3. \A n : NextNode(n)' = NextNode(n)
      BY <1>1 DEF NextNode, Ptr
    <3>4. \A u \in Thread : \A n : Knows(u, n)' => Knows(u, n)
      BY <1>1 DEF Knows, Owns
    <3>5. ListPrivate(t)'
      BY <1>1, <3>1, <3>3, <3>4 DEF ListPrivate, Owns
    <3> QED BY <3>2, <3>5
  <2> QED BY <1>1, <2>1, <2>2 DEF ListInv
<1>4. RingInv'
  <2>1. ASSUME kind \in Rings PROVE RingMem'
    BY <1>1, <2>1 DEF ObjectInv, RingInv, RingMem, Rings
  <2>2. ASSUME kind \in Rings, NEW t \in Thread
        PROVE  /\ RingLocals(t)'
               /\ th'[t].pc \notin {"idle", "return"} /\ ~th'[t].stale => RingExact(t)'
    <3>1. RingLocals(t) /\ (th[t].pc \notin {"idle", "return"} /\ ~th[t].stale => RingExact(t))
      BY <2>2 DEF ObjectInv, RingInv, Rings
    <3> QED BY <1>1, <3>1 DEF RingLocals, RingExact, TailSeen, HeadSeen
  <2> QED BY <1>1, <2>1, <2>2 DEF RingInv, Rings
<1>5. QueueInv'
  <2>1. ASSUME kind = "queue" PROVE QueueMem'
    <3>1. QueueMem
      BY <2>1 DEF ObjectInv, QueueInv
    <3>2. \A p, len : Way(p, len) => Way(p, len)'
      BY <1>1 DEF Way
    <3> QED BY <1>1, <3>1, <3>2 DEF QueueMem
  <2>2. ASSUME kind = "queue", NEW t \in Thread PROVE QueueThread(t)'
    <3>1. QueueThread(t)
      BY <2>2 DEF ObjectInv, QueueInv
    <3> QED BY <1>1, <3>1 DEF QueueThread, Unlinked
  <2>3. kind = "queue" =>
          \A t, u \in Thread : t # u /\ Unlinked(t)' /\ Unlinked(u)' => th'[t].node # th'[u].node
    BY <1>1 DEF ObjectInv, QueueInv, Unlinked
  <2> QED BY <1>1, <2>1, <2>2, <2>3 DEF QueueInv
<1>6. StackInv'
  <2>1. ASSUME kind = "stack" PROVE StackMem'
    BY <1>1, <2>1 DEF ObjectInv, StackInv, StackMem
  <2>2. ASSUME kind = "stack", NEW t \in Thread PROVE StackThread(t)'
    <3>1. StackThread(t)
      BY <2>2 DEF ObjectInv, StackInv
    <3> QED BY <1>1, <3>1 DEF StackThread, Owns
  <2> QED BY <1>1, <2>1, <2>2 DEF StackInv
<1> QED
  BY <1>2, <1>3, <1>4, <1>5, <1>6 DEF ObjectInv

\* The invariants of containers of other kinds say nothing.
LEMMA OtherKinds ==
  ASSUME UNCHANGED kind
  PROVE  /\ kind \notin ListKinds => ListInv'
         /\ kind \notin Rings => RingInv'
         /\ kind # "queue" => QueueInv'
         /\ kind # "stack" => StackInv'
  BY DEF ListInv, RingInv, Rings, QueueInv, StackInv

\* The invariant is inductive.
LEMMA ObjectKept ==
  ASSUME ObjectInv, [Next]_vars
  PROVE  ObjectInv'
<1> SUFFICES ASSUME Next PROVE ObjectInv'
  BY StutterKeeps
<1>1. PICK t \in Thread : Step(t)
  BY DEF Next
<1>2. UNCHANGED kind /\ Base /\ ListInv /\ RingInv /\ QueueInv /\ StackInv
  BY <1>1 DEF Step, ObjectInv
<1>3. CASE kind = "ordered" /\ OrderedStep(t)
  <2>1. Base' /\ ListInv'
    BY <1>2, <1>3, OrderedKeeps
  <2> QED BY <1>2, <1>3, <2>1, OtherKinds DEF ObjectInv, Rings
<1>4. CASE kind = "coarse" /\ CoarseStep(t)
  <2>1. Base' /\ ListInv'
    BY <1>2, <1>4, CoarseKeeps
  <2> QED BY <1>2, <1>4, <2>1, OtherKinds DEF ObjectInv, Rings
<1>5. CASE kind = "fine" /\ FineStep(t)
  <2>1. Base' /\ ListInv'
    BY <1>2, <1>5, FineKeeps
  <2> QED BY <1>2, <1>5, <2>1, OtherKinds DEF ObjectInv, Rings
<1>6. CASE kind = "lockfree" /\ LockFreeStep(t)
  <2>1. Base' /\ ListInv'
    BY <1>2, <1>6, LockFreeKeeps
  <2> QED BY <1>2, <1>6, <2>1, OtherKinds DEF ObjectInv, Rings
<1>7. CASE kind \in Rings /\ RingStep(t)
  <2>1. Base' /\ RingInv'
    BY <1>2, <1>7, RingKeeps
  <2> QED BY <1>2, <1>7, <2>1, OtherKinds DEF ObjectInv, Rings, ListKinds
<1>8. CASE kind = "queue" /\ QueueStep(t)
  <2>1. Base' /\ QueueInv'
    BY <1>2, <1>8, QueueKeeps
  <2> QED BY <1>2, <1>8, <2>1, OtherKinds DEF ObjectInv, Rings, ListKinds
<1>9. CASE kind = "stack" /\ StackStep(t)
  <2>1. Base' /\ StackInv'
    BY <1>2, <1>9, StackKeeps
  <2> QED BY <1>2, <1>9, <2>1, OtherKinds DEF ObjectInv, Rings, ListKinds
<1>10. CASE kind = "bank" /\ BankStep(t)
  <2>1. Base'
    BY <1>2, <1>10, BankKeeps
  <2> QED BY <1>2, <1>10, <2>1, OtherKinds DEF ObjectInv, Rings, ListKinds
<1> QED
  BY <1>1, <1>3, <1>4, <1>5, <1>6, <1>7, <1>8, <1>9, <1>10 DEF Step, Rings

----------------------------------------------------------------------------
(* The initial states.                                                     *)

\* A nonempty set of natural numbers has a least element.
LEMMA LeastNat ==
  ASSUME NEW T, T \subseteq Nat, T # {}
  PROVE  \E x \in T : \A y \in T : x <= y
<1> DEFINE R == {p \in Nat \X Nat : p[1] < p[2]}
<1>1. IsWellFoundedOn(R, Nat)
  BY NatLessThanWellFounded, Zenon DEF OpToRel
<1>2. \A x, y \in Nat : <<y, x>> \notin R => x <= y
  OBVIOUS
<1> HIDE DEF R
<1>3. \E x \in T : \A y \in T : ~(<<y, x>> \in R)
  BY <1>1, WFMin, Zenon
<1> QED
  BY <1>2, <1>3

\* What a link of a list holds, and the link of the tail sentinel.
Holds(link, last) ==
  /\ \A n \in NodeOrSentinel : link[n] = IF kind = "lockfree" THEN Link(n) ELSE n
  /\ last \in IF kind = "lockfree" THEN {Link(tail)} ELSE {none, tail}

\* The list that the constructor and add() calls make is sorted.
LEMMA NewListMem ==
  ASSUME NEW s \in SUBSET Key, NEW link, NEW last, NewList(s, link, last), Holds(link, last)
  PROVE  ListMem /\ used \subseteq Node
<1> DEFINE One(f) == \A i, j \in Key : i # j => f[i] # f[j]
           at == CHOOSE f \in [Key -> Node] : One(f)
           more(k) == {j \in s : k < j}
           least(k) == CHOOSE j \in more(k) : \A i \in more(k) : j <= i
           after(k) == IF more(k) = {} THEN tail ELSE at[least(k)]
           links == [x \in {next(at[k]) : k \in s} |->
                      link[after(CHOOSE k \in s : x = next(at[k]))]]
           keys == [x \in {key(at[k]) : k \in s} |-> CHOOSE k \in s : x = key(at[k])]
<1>1. at \in [Key -> Node] /\ One(at)
  <2>1. \E f \in [Key -> Node] : One(f)
    BY KeyAssumption
  <2> QED BY <2>1
<1>2. /\ used = {at[k] : k \in s}
      /\ mem = links @@ keys @@ next(head) :> link[after(-1)] @@ next(tail) :> last
               @@ key(head) :> -1 @@ key(tail) :> Above
  BY DEF NewList
<1>3. ASSUME NEW k \in Int, more(k) # {}
      PROVE  least(k) \in s /\ k < least(k)
  <2>1. more(k) \subseteq Nat
    BY ObjectAssumption
  <2>2. \E j \in more(k) : \A i \in more(k) : j <= i
    <3> HIDE DEF more
    <3> QED BY <1>3, <2>1, LeastNat
  <2>3. least(k) \in more(k)
    <3> HIDE DEF more
    <3> QED BY <2>2
  <2> QED BY <2>3
<1> HIDE DEF least, at
<1>4. ASSUME NEW k \in Int
      PROVE  after(k) = tail \/ \E j \in s : k < j /\ after(k) = at[j]
  BY <1>3
<1> HIDE DEF after
<1>5. DOMAIN links = {next(at[k]) : k \in s} /\ DOMAIN keys = {key(at[k]) : k \in s}
  OBVIOUS
<1>6. ASSUME NEW k \in s
      PROVE  links[next(at[k])] = link[after(k)] /\ keys[key(at[k])] = k
  <2>1. /\ \A j \in s : next(at[k]) = next(at[j]) => j = k
        /\ \A j \in s : key(at[k]) = key(at[j]) => j = k
    BY <1>1, Locations
  <2>2. (CHOOSE j \in s : next(at[k]) = next(at[j])) = k
    BY <2>1
  <2>3. (CHOOSE j \in s : key(at[k]) = key(at[j])) = k
    BY <2>1
  <2>4. links[next(at[k])] = link[after(CHOOSE j \in s : next(at[k]) = next(at[j]))]
    OBVIOUS
  <2>5. keys[key(at[k])] = CHOOSE j \in s : key(at[k]) = key(at[j])
    OBVIOUS
  <2> QED BY <2>2, <2>3, <2>4, <2>5
<1> HIDE DEF links, keys
<1>7. \A k \in s : at[k] \in Node /\ at[k] # head /\ at[k] # tail
  BY <1>1, ObjectAssumption
<1>8. /\ \A x \in DOMAIN links : x # next(head) /\ x # next(tail)
      /\ \A x \in DOMAIN links : \A m : x # key(m)
      /\ \A x \in DOMAIN keys : x # key(head) /\ x # key(tail)
      /\ \A x \in DOMAIN keys : \A m : x # next(m)
  BY <1>5, <1>7, Locations
<1>9. /\ next(head) # next(tail) /\ key(head) # key(tail)
      /\ \A m, n : next(m) # key(n)
  BY Locations, ObjectAssumption
<1>10. /\ DOMAIN mem = DOMAIN links \cup DOMAIN keys
                         \cup {next(head), next(tail), key(head), key(tail)}
       /\ \A x \in DOMAIN links : mem[x] = links[x]
       /\ \A x \in DOMAIN keys : mem[x] = keys[x]
       /\ mem[next(head)] = link[after(-1)] /\ mem[next(tail)] = last
       /\ mem[key(head)] = -1 /\ mem[key(tail)] = Above
  <2>1. DOMAIN mem = DOMAIN links \cup DOMAIN keys
                       \cup {next(head), next(tail), key(head), key(tail)}
    BY <1>2 DEF @@, :>
  <2>2. \A x \in DOMAIN links : mem[x] = links[x]
    BY SMTT(30), <1>2 DEF @@, :>
  <2>3. \A x \in DOMAIN keys : mem[x] = keys[x]
    <3>1. \A x \in DOMAIN keys : x \notin DOMAIN links
      BY SMTT(30), <1>5, <1>8
    <3> QED BY <1>2, <3>1 DEF @@, :>
  <2>4. mem[next(head)] = link[after(-1)] /\ mem[next(tail)] = last
    BY SMTT(30), <1>2, <1>8, <1>9 DEF @@, :>
  <2>5. mem[key(head)] = -1 /\ mem[key(tail)] = Above
    BY <1>2, <1>8, <1>9 DEF @@, :>
  <2> QED BY <2>1, <2>2, <2>3, <2>4, <2>5
<1>11. \A k \in s : /\ next(at[k]) \in DOMAIN mem /\ key(at[k]) \in DOMAIN mem
                    /\ mem[next(at[k])] = link[after(k)] /\ KeyOf(at[k]) = k
  BY <1>5, <1>6, <1>10 DEF KeyOf
<1>12. used \subseteq Node
  BY <1>2, <1>7
<1>13. ASSUME NEW n, NEW k \in Int, KeyOf(n) = k, k < Above, mem[next(n)] = link[after(k)]
       PROVE  NextNode(n) \in used \cup {tail} /\ KeyOf(n) < KeyOf(NextNode(n))
  <2>1. PICK m \in used \cup {tail} : m = after(k) /\ k < KeyOf(m)
    BY <1>2, <1>4, <1>10, <1>11, <1>13 DEF KeyOf
  <2>2. link[m] = IF kind = "lockfree" THEN Link(m) ELSE m
    BY <1>12, <2>1 DEF Holds, NodeOrSentinel
  <2>3. NextNode(n) = m
    BY <1>13, <2>1, <2>2 DEF NextNode, Ptr, Link
  <2> QED BY <1>13, <2>1, <2>3
<1>14. ASSUME NEW n \in used \cup {head}
       PROVE  NextNode(n) \in used \cup {tail} /\ KeyOf(n) < KeyOf(NextNode(n))
  <2>1. CASE n = head
    <3>1. -1 \in Int /\ -1 < Above
      BY KeyAssumption, KeysEnclosed
    <3> QED BY <1>10, <1>13, <2>1, <3>1 DEF KeyOf
  <2>2. CASE n \in used
    <3>1. PICK k \in s : n = at[k]
      BY <1>2, <2>2
    <3> QED BY <1>11, <1>13, <3>1, KeysEnclosed
  <2> QED BY <2>1, <2>2
<1>15. /\ \A n \in used : KeyOf(n) \in Key
       /\ \A n \in used \cup {head, tail} : next(n) \in DOMAIN mem /\ key(n) \in DOMAIN mem
  BY <1>2, <1>10, <1>11
<1>16. KeyOf(head) = -1 /\ KeyOf(tail) = Above
  BY <1>10 DEF KeyOf
<1>17. /\ NextNode(tail) \in {none, tail}
       /\ kind = "lockfree" => mem[next(tail)] = <<tail, FALSE>>
  <2>1. CASE kind = "lockfree"
    <3>1. mem[next(tail)] = Link(tail)
      BY <1>10, <2>1 DEF Holds
    <3>2. NextNode(tail) = tail
      BY <2>1, <3>1 DEF NextNode, Ptr, Link
    <3>3. mem[next(tail)] = <<tail, FALSE>>
      BY <3>1, Zenon DEF Link
    <3> QED BY <3>2, <3>3
  <2>2. CASE kind # "lockfree"
    BY <1>10, <2>2 DEF Holds, NextNode
  <2> QED BY <2>1, <2>2
<1> QED
  BY <1>12, <1>14, <1>15, <1>16, <1>17 DEF ListMem

\* A ring with n elements behind the positions that came and went.
LEMMA NewRingMem ==
  ASSUME NEW n \in 0..Capacity, NEW s \in [1..n -> Val], NewRing(Capacity - 1, s)
  PROVE  RingMem
<1> DEFINE h == Capacity - 1
           places == {items(i) : i \in 0..(Capacity - 1)}
           found(x) == {i \in 1..Len(s) : items(h + i - 1) = x}
           ring == [x \in places |-> IF found(x) = {} THEN none ELSE s[CHOOSE i \in found(x) : TRUE]]
<1>1. Capacity \in Nat /\ Capacity > 0 /\ n \in Nat /\ n <= Capacity /\ h \in Nat
  BY ObjectAssumption
<1>2. Len(s) = n
  BY <1>1
<1>3. mem = (ring_head :> h) @@ (ring_tail :> h + n) @@ ring
  BY <1>2 DEF NewRing
<1>4. ASSUME NEW i \in Nat PROVE items(i) \in places
  <2>1. i % Capacity \in 0..(Capacity - 1) /\ (i % Capacity) % Capacity = i % Capacity
    BY <1>1
  <2>2. items(i) = items(i % Capacity)
    BY <2>1 DEF items
  <2> QED BY <2>1, <2>2
<1>5. ASSUME NEW i \in Nat, Capacity - 1 <= i, i < h + n PROVE ring[items(i)] \in Val
  <2>1. i - h + 1 \in 1..n /\ h + (i - h + 1) - 1 = i
    BY <1>1, <1>5
  <2>2. i - h + 1 \in found(items(i))
    BY <1>2, <2>1
  <2>3. (CHOOSE j \in found(items(i)) : TRUE) \in 1..n
    BY <1>2, <2>2
  <2>4. ring[items(i)] = s[CHOOSE j \in found(items(i)) : TRUE]
    BY <1>4, <2>2
  <2> QED BY <2>3, <2>4
<1>6. DOMAIN ring = places
  OBVIOUS
<1> HIDE DEF ring, places
<1>7. /\ DOMAIN mem = {ring_head, ring_tail} \cup places
      /\ mem[ring_head] = h /\ mem[ring_tail] = h + n
      /\ \A x \in places : x # ring_head /\ x # ring_tail => mem[x] = ring[x]
  BY <1>3, <1>6, RingLocations DEF :>, @@
<1>8. {ring_head, ring_tail} \cup {items(i) : i \in Nat} \subseteq DOMAIN mem
  BY <1>4, <1>7
<1>9. \A i \in Nat : Capacity - 1 <= i /\ i < mem[ring_tail] => mem[items(i)] \in Val
  BY <1>4, <1>5, <1>7, RingLocations
<1>10. /\ mem[ring_head] \in Nat /\ mem[ring_tail] \in Nat
       /\ Capacity - 1 <= mem[ring_head]
       /\ mem[ring_tail] - mem[ring_head] \in 0..Capacity
  BY <1>1, <1>7
<1> QED
  BY <1>8, <1>9, <1>10 DEF RingMem

\* The queue with the dummy alone.
LEMMA NewQueueMem ==
  ASSUME used = {}, NewQueue
  PROVE  QueueMem
<1>1. /\ DOMAIN mem = {queue_head, queue_tail, next(head)}
      /\ mem[queue_head] = head /\ mem[queue_tail] = head /\ mem[next(head)] = none
  BY QueueLocations DEF NewQueue, :>, @@
<1> DEFINE p == [i \in 0..0 |-> head]
<1>2. p \in [0..0 -> used \cup {head}] /\ p[0] = head
  OBVIOUS
<1>3. Way(p, 0)
  BY <1>1, <1>2 DEF Way
<1>4. \E len \in Nat : \E q \in [0..len -> used \cup {head}] : Way(q, len)
  BY <1>2, <1>3
<1> QED
  BY <1>1, <1>4 DEF QueueMem

\* The local state of a thread outside an operation.
LEMMA IdleFields ==
  /\ DOMAIN Idle = Fields
  /\ Idle.pc = "idle" /\ Idle.call = none /\ Idle.ret = none /\ Idle.node = none
  /\ Idle.wr = << >> /\ Idle.stale = FALSE
  BY DEF Idle, Fields

\* The invariant holds initially.
LEMMA ObjectInit ==
  ASSUME Init PROVE ObjectInv
<1>1. /\ kind \in Kinds /\ th = [t \in Thread |-> Idle] /\ calls = 0
  BY DEF Init
<1>2. \A t \in Thread :
        /\ DOMAIN th[t] = Fields /\ th[t].pc = "idle" /\ th[t].call = none
        /\ th[t].ret = none /\ th[t].node = none /\ DOMAIN th[t].wr = {}
        /\ th[t].stale = FALSE
  BY <1>1, IdleFields
<1>3. ASSUME kind \in ListKinds PROVE ListMem /\ used \subseteq Node
  <2>1. CASE kind = "ordered"
    <3>1. PICK s \in SUBSET Key : NewList(s, Plain, none)
      BY <2>1 DEF Init
    <3>2. Holds(Plain, none)
      BY <2>1 DEF Holds, Plain
    <3> QED BY <3>1, <3>2, NewListMem
  <2>2. CASE kind \in {"coarse", "fine"}
    <3>1. PICK s \in SUBSET Key : NewList(s, Plain, tail)
      BY <2>2 DEF Init
    <3>2. Holds(Plain, tail)
      BY <2>2 DEF Holds, Plain
    <3> QED BY <3>1, <3>2, NewListMem
  <2>3. CASE kind = "lockfree"
    <3>1. PICK s \in SUBSET Key : NewList(s, Markable, Link(tail))
      BY <2>3 DEF Init
    <3>2. \A n \in NodeOrSentinel : Markable[n] = Link(n)
      BY DEF Markable
    <3>3. Link(tail) \in {Link(tail)}
      BY Zenon
    <3>4. Holds(Markable, Link(tail))
      BY <2>3, <3>2, <3>3, Zenon DEF Holds
    <3> QED BY <3>1, <3>4, NewListMem
  <2> QED BY <1>3, <2>1, <2>2, <2>3 DEF ListKinds
<1>4. ListInv /\ used \subseteq Node
  <2>1. CASE kind \notin ListKinds
    <3>1. used = {}
      BY <1>1, <2>1, ObjectAssumption DEF Init, ListKinds
    <3> QED BY <2>1, <3>1 DEF ListInv
  <2>2. ASSUME NEW t \in Thread PROVE ListThread(t) /\ ListPrivate(t)
    <3>1. th[t].pc = "idle" /\ DOMAIN th[t].wr = {}
      BY <1>2
    <3> QED BY <3>1 DEF ListThread, ListPrivate, Owns, Between, Passing, Arrived
  <2> QED BY <1>3, <2>1, <2>2 DEF ListInv
<1>5. RingInv
  <2>1. ASSUME kind \in {"bounded", "batch"} PROVE RingMem
    <3>1. PICK n \in 0..Capacity : \E s \in [1..n -> Val] : NewRing(Capacity - 1, s)
      BY <2>1 DEF Init
    <3>2. PICK s \in [1..n -> Val] : NewRing(Capacity - 1, s)
      BY <3>1
    <3> QED BY <3>2, NewRingMem
  <2>2. \A t \in Thread : RingLocals(t) /\ th[t].pc = "idle"
    BY <1>2 DEF RingLocals
  <2> QED BY <2>1, <2>2 DEF RingInv
<1>6. QueueInv
  <2>1. ASSUME kind = "queue" PROVE QueueMem
    <3>1. used = {} /\ NewQueue
      BY <2>1 DEF Init
    <3> QED BY <3>1, NewQueueMem
  <2>2. \A t \in Thread : QueueThread(t) /\ ~Unlinked(t)
    BY <1>2 DEF QueueThread, Unlinked
  <2> QED BY <2>1, <2>2 DEF QueueInv
<1>7. StackInv
  <2>1. ASSUME kind = "stack" PROVE StackMem
    <3>1. used = {} /\ NewStack
      BY <2>1 DEF Init
    <3> QED BY <3>1 DEF NewStack, StackMem, :>
  <2>2. \A t \in Thread : StackThread(t)
    BY <1>2 DEF StackThread, Owns
  <2> QED BY <2>1, <2>2 DEF StackInv
<1>8. Base
  <2>1. \A l \in DOMAIN owner : owner[l] = none
    <3>1. owner = IF kind = "coarse" THEN lock :> none
                  ELSE IF kind = "fine" THEN [n \in NodeOrSentinel |-> none]
                  ELSE << >>
      BY DEF Init
    <3> QED BY <3>1 DEF :>
  <2>2. ASSUME NEW t \in Thread PROVE ThreadOK(t)
    BY <1>2 DEF ThreadOK, IsAnswer
  <2>3. calls \in 0..MaxCalls
    BY <1>1, ObjectAssumption
  <2> QED BY <1>1, <1>4, <2>1, <2>2, <2>3 DEF Base
<1> QED
  BY <1>4, <1>5, <1>6, <1>7, <1>8 DEF ObjectInv

----------------------------------------------------------------------------
(* Walks: what Chain() computes.                                           *)

\* A set with 0 that has n + 1 if it has n has every natural number.
LEMMA NatsAll ==
  ASSUME NEW S, 0 \in S, \A n \in Nat : n \in S => n + 1 \in S
  PROVE  Nat \subseteq S
<1> DEFINE T == Nat \ S
<1> SUFFICES ASSUME T # {} PROVE FALSE
  OBVIOUS
<1>1. PICK x \in T : \A y \in T : x <= y
  BY LeastNat
<1>2. x - 1 \in Nat /\ x - 1 \notin T
  BY <1>1
<1> QED
  BY <1>1, <1>2

\* One step more, from the nodes of w.
Further(w) == w \cup {NextNode(n) : n \in w \ {none}}

\* The nodes within d steps of n0, for every d up to m, if none leads out of S.
WalksTo(S, n0, m) ==
  {g \in [0..m -> SUBSET S] : g[0] = {n0} /\ \A i \in 1..m : g[i] = Further(g[i - 1])}

\* Two such tables agree where both are defined.
LEMMA WalksAgree ==
  ASSUME NEW S, NEW n0, NEW m \in Nat, NEW n \in Nat,
         NEW g \in WalksTo(S, n0, m), NEW h \in WalksTo(S, n0, n)
  PROVE  \A i \in Nat : i <= m /\ i <= n => g[i] = h[i]
<1> DEFINE All == {i \in Nat : i <= m /\ i <= n => g[i] = h[i]}
<1>1. 0 \in All
  BY DEF WalksTo
<1>2. ASSUME NEW i \in Nat, i \in All PROVE i + 1 \in All
  <2>1. SUFFICES ASSUME i + 1 <= m, i + 1 <= n PROVE g[i + 1] = h[i + 1]
    OBVIOUS
  <2>2. g[i] = h[i]
    BY <1>2, <2>1
  <2>3. i + 1 \in 1..m /\ i + 1 \in 1..n /\ (i + 1) - 1 = i
    BY <2>1
  <2>4. g[i + 1] = Further(g[i]) /\ h[i + 1] = Further(h[i])
    BY <2>3 DEF WalksTo
  <2> QED BY <2>2, <2>4
<1> HIDE DEF All
<1>3. Nat \subseteq All
  BY <1>1, <1>2, NatsAll
<1> QED
  BY <1>3 DEF All

\* There is a table for every m.
LEMMA WalksExist ==
  ASSUME NEW S, NEW n0 \in S, \A n \in S \ {none} : NextNode(n) \in S
  PROVE  \A m \in Nat : WalksTo(S, n0, m) # {}
<1> DEFINE All == {m \in Nat : WalksTo(S, n0, m) # {}}
<1>1. 0 \in All
  <2>1. [i \in 0..0 |-> {n0}] \in WalksTo(S, n0, 0)
    BY DEF WalksTo
  <2> QED BY <2>1
<1>2. ASSUME NEW m \in Nat, m \in All PROVE m + 1 \in All
  <2>1. PICK g : g \in WalksTo(S, n0, m)
    BY <1>2
  <2>2. g \in [0..m -> SUBSET S] /\ g[0] = {n0} /\ \A i \in 1..m : g[i] = Further(g[i - 1])
    BY <2>1 DEF WalksTo
  <2> DEFINE h == [i \in 0..(m + 1) |-> IF i = m + 1 THEN Further(g[m]) ELSE g[i]]
  <2>3. Further(g[m]) \in SUBSET S
    <3>1. g[m] \in SUBSET S
      BY <2>2
    <3> QED BY <3>1 DEF Further
  <2>4. h \in [0..(m + 1) -> SUBSET S] /\ h[0] = {n0}
    BY <2>2, <2>3
  <2>5. ASSUME NEW i \in 1..(m + 1) PROVE h[i] = Further(h[i - 1])
    BY <2>2
  <2>6. h \in WalksTo(S, n0, m + 1)
    BY <2>4, <2>5 DEF WalksTo
  <2> QED BY <2>6
<1> HIDE DEF All
<1>3. Nat \subseteq All
  BY <1>1, <1>2, NatsAll
<1> QED
  BY <1>3 DEF All

\* Chain() is what a walk of as many steps as there are nodes, and one more,
\* comes past.
LEMMA ChainWalk ==
  ASSUME NEW S, NEW n0 \in S, \A n \in S \ {none} : NextNode(n) \in S
  PROVE  \E W \in [Nat -> SUBSET S] :
           /\ n0 \in W[0]
           /\ \A d \in Nat : W[d] \subseteq W[d + 1]
           /\ \A d \in Nat : \A n \in W[d] \ {none} : NextNode(n) \in W[d + 1]
           /\ Chain(n0) = W[Cardinality(used) + 1] \ {none}
<1> DEFINE T(m) == CHOOSE g : g \in WalksTo(S, n0, m)
           F == [d \in Nat |-> T(d)[d]]
           Body(f) == [d \in Nat |-> IF d = 0 THEN {n0} ELSE Further(f[d - 1])]
           W == CHOOSE f : f = Body(f)
<1>1. \A m \in Nat : T(m) \in WalksTo(S, n0, m)
  BY WalksExist
<1> HIDE DEF T
<1>2. ASSUME NEW d \in Nat PROVE F[d] = IF d = 0 THEN {n0} ELSE Further(F[d - 1])
  <2>1. T(d) \in WalksTo(S, n0, d)
    BY <1>1
  <2>2. CASE d = 0
    BY <2>1, <2>2 DEF WalksTo
  <2>3. CASE d # 0
    <3>1. d - 1 \in Nat /\ d \in 1..d /\ T(d - 1) \in WalksTo(S, n0, d - 1)
      BY <1>1, <2>3
    <3>2. T(d)[d - 1] = T(d - 1)[d - 1]
      BY <2>1, <3>1, WalksAgree
    <3>3. T(d)[d] = Further(T(d)[d - 1])
      BY <2>1, <3>1 DEF WalksTo
    <3> QED BY <2>3, <3>1, <3>2, <3>3
  <2> QED BY <2>2, <2>3
<1>3. F = Body(F)
  <2>1. F = [d \in Nat |-> F[d]]
    OBVIOUS
  <2> HIDE DEF F
  <2> QED BY <1>2, <2>1
<1> HIDE DEF F
<1>4. W = Body(W)
  <2> HIDE DEF Body
  <2>1. \E f : f = Body(f)
    BY <1>3, Zenon
  <2> QED BY <2>1, Zenon
<1>5. Chain(n0) = W[Cardinality(used) + 1] \ {none}
  BY DEF Chain, Further
<1> HIDE DEF W
<1>6. W[0] = {n0}
  BY <1>4
<1>7. \A d \in Nat : W[d + 1] = Further(W[d])
  <2> TAKE d \in Nat
  <2>1. d + 1 \in Nat /\ d + 1 # 0 /\ (d + 1) - 1 = d
    OBVIOUS
  <2> QED BY <1>4, <2>1
<1>8. \A d \in Nat : W[d] \in SUBSET S
  <2> DEFINE All == {d \in Nat : W[d] \in SUBSET S}
  <2>1. 0 \in All
    BY <1>6
  <2>2. ASSUME NEW d \in Nat, d \in All PROVE d + 1 \in All
    <3>1. W[d] \in SUBSET S
      BY <2>2
    <3>2. Further(W[d]) \in SUBSET S
      BY <3>1 DEF Further
    <3> QED BY <1>7, <3>2
  <2> HIDE DEF All
  <2>3. Nat \subseteq All
    BY <2>1, <2>2, NatsAll
  <2> QED BY <2>3 DEF All
<1>9. W \in [Nat -> SUBSET S]
  <2>1. W = [d \in Nat |-> W[d]]
    BY <1>4
  <2> QED BY <1>8, <2>1
<1>10. \A d \in Nat : W[d] \subseteq W[d + 1] /\ \A n \in W[d] \ {none} : NextNode(n) \in W[d + 1]
  BY <1>7 DEF Further
<1> QED
  BY <1>5, <1>6, <1>9, <1>10

\* A walk of a list comes to the tail sentinel: each step goes to a larger key,
\* so after d steps at least d + 1 nodes have come into question.
LEMMA ListWalk ==
  ASSUME Base, kind \in ListKinds, ListMem
  PROVE  /\ tail \in Chain(head)
         /\ Chain(head) \subseteq used \cup {head, tail}
<1> DEFINE S == used \cup {head, tail, none}
           B == used \cup {head}
           upto(n) == {m \in B : KeyOf(m) <= KeyOf(n)}
<1>1. IsFiniteSet(used) /\ used \subseteq Node
  BY ObjectAssumption, FS_Subset DEF Base
<1>2. /\ IsFiniteSet(B) /\ Cardinality(used) \in Nat /\ Cardinality(B) \in Nat
      /\ Cardinality(B) <= Cardinality(used) + 1
  <2>1. IsFiniteSet(B)
        /\ Cardinality(B) = IF head \in used THEN Cardinality(used) ELSE Cardinality(used) + 1
    BY <1>1, FS_AddElement
  <2>2. Cardinality(used) \in Nat /\ Cardinality(B) \in Nat
    BY <1>1, <2>1, FS_CardinalityType
  <2> QED BY <2>1, <2>2
<1>3. \A n \in S \ {none} : NextNode(n) \in S
  BY DEF ListMem
<1>4. head \in S
  OBVIOUS
<1>5. PICK W \in [Nat -> SUBSET S] :
        /\ head \in W[0]
        /\ \A d \in Nat : W[d] \subseteq W[d + 1]
        /\ \A d \in Nat : \A n \in W[d] \ {none} : NextNode(n) \in W[d + 1]
        /\ Chain(head) = W[Cardinality(used) + 1] \ {none}
  BY <1>3, <1>4, ChainWalk
<1>6. ASSUME NEW n \in B
      PROVE  IsFiniteSet(upto(n)) /\ Cardinality(upto(n)) \in Nat
             /\ Cardinality(upto(n)) <= Cardinality(B)
  <2>1. upto(n) \in SUBSET B
    OBVIOUS
  <2> QED BY <1>2, <2>1, FS_Subset, FS_CardinalityType
<1>7. \A n \in B : KeyOf(n) \in Int
  BY KeysInt
<1> DEFINE Far(d) == tail \in W[d] \/ \E n \in W[d] : n \in B /\ d + 1 <= Cardinality(upto(n))
           All == {d \in Nat : Far(d)}
<1>8. 0 \in All
  <2>1. head \in upto(head)
    BY <1>7
  <2>2. upto(head) # {}
    BY <2>1
  <2>3. Cardinality(upto(head)) # 0
    BY <1>6, <2>2, FS_EmptySet
  <2>4. 0 + 1 <= Cardinality(upto(head))
    <3>1. Cardinality(upto(head)) \in Nat
      BY <1>6
    <3> HIDE DEF upto
    <3> QED BY <2>3, <3>1
  <2> QED BY <1>5, <2>4
<1>9. ASSUME NEW d \in Nat, d \in All PROVE d + 1 \in All
  <2>1. CASE tail \in W[d]
    BY <1>5, <2>1
  <2>2. CASE tail \notin W[d]
    <3>1. PICK n \in W[d] : n \in B /\ d + 1 <= Cardinality(upto(n))
      BY <1>9, <2>2
    <3> DEFINE m == NextNode(n)
    <3>2. n # none
      BY <1>1, <3>1, ObjectAssumption
    <3>3. m \in W[d + 1] /\ m \in used \cup {tail} /\ KeyOf(n) < KeyOf(m)
      BY <1>5, <3>1, <3>2 DEF ListMem
    <3> HIDE DEF m
    <3>4. CASE m = tail
      BY <3>3, <3>4
    <3>5. CASE m # tail
      <4>1. m \in B /\ KeyOf(m) \in Int /\ KeyOf(n) \in Int
        BY <1>7, <3>1, <3>3, <3>5
      <4>2. m \notin upto(n) /\ upto(n) \cup {m} \in SUBSET upto(m)
        BY <1>7, <3>1, <3>3, <4>1
      <4> HIDE DEF upto
      <4>3. Cardinality(upto(n) \cup {m}) = Cardinality(upto(n)) + 1
        BY <1>6, <3>1, <4>2, FS_AddElement
      <4>4. Cardinality(upto(n) \cup {m}) <= Cardinality(upto(m))
        BY <1>6, <4>1, <4>2, FS_Subset
      <4>5. (d + 1) + 1 <= Cardinality(upto(m))
        BY <1>6, <3>1, <4>1, <4>3, <4>4
      <4> QED BY <3>3, <4>1, <4>5
    <3> QED BY <3>4, <3>5
  <2> QED BY <2>1, <2>2
<1> HIDE DEF All
<1>10. Nat \subseteq All
  BY <1>8, <1>9, NatsAll
<1>11. Far(Cardinality(used) + 1)
  <2>1. Cardinality(used) + 1 \in Nat
    BY <1>2
  <2> QED BY <1>10, <2>1 DEF All
<1>12. tail \in W[Cardinality(used) + 1]
  <2> HIDE DEF upto
  <2>1. ASSUME NEW n \in B, (Cardinality(used) + 1) + 1 <= Cardinality(upto(n)) PROVE FALSE
    <3>1. Cardinality(upto(n)) \in Nat /\ Cardinality(upto(n)) <= Cardinality(B)
      BY <1>6
    <3> HIDE DEF B
    <3> QED BY <1>2, <2>1, <3>1
  <2> QED BY <1>11, <2>1
<1> QED
  <2>1. Cardinality(used) + 1 \in Nat
    BY <1>2
  <2> QED BY <1>5, <1>12, <2>1, ObjectAssumption

\* A walk of the queue comes to its tail.
LEMMA QueueWalk ==
  ASSUME Base, kind = "queue", QueueMem
  PROVE  mem[queue_tail] \in Chain(mem[queue_head])
<1> DEFINE S == used \cup {head, none}
           B == used \cup {head}
           H == mem[queue_head]
<1>1. IsFiniteSet(used) /\ used \subseteq Node
  BY ObjectAssumption, FS_Subset DEF Base
<1>2. /\ IsFiniteSet(B) /\ Cardinality(used) \in Nat /\ Cardinality(B) \in Nat
      /\ Cardinality(B) <= Cardinality(used) + 1
  <2>1. IsFiniteSet(B)
        /\ Cardinality(B) = IF head \in used THEN Cardinality(used) ELSE Cardinality(used) + 1
    BY <1>1, FS_AddElement
  <2>2. Cardinality(used) \in Nat /\ Cardinality(B) \in Nat
    BY <1>1, <2>1, FS_CardinalityType
  <2> QED BY <2>1, <2>2
<1>3. \A n \in S \ {none} : NextNode(n) \in S
  BY DEF QueueMem, NextNode
<1>4. H \in S
  BY DEF QueueMem
<1>5. PICK W \in [Nat -> SUBSET S] :
        /\ H \in W[0]
        /\ \A d \in Nat : W[d] \subseteq W[d + 1]
        /\ \A d \in Nat : \A n \in W[d] \ {none} : NextNode(n) \in W[d + 1]
        /\ Chain(H) = W[Cardinality(used) + 1] \ {none}
  <2> HIDE DEF H, S
  <2> QED BY <1>3, <1>4, ChainWalk
<1>6. PICK len \in Nat : \E p \in [0..len -> B] : Way(p, len)
  BY DEF QueueMem
<1>7. PICK p \in [0..len -> B] : Way(p, len)
  BY <1>6
<1>8. /\ p[0] = H /\ p[len] = mem[queue_tail]
      /\ \A i \in 0..(len - 1) : mem[next(p[i])] = p[i + 1]
      /\ \A i, j \in 0..len : i # j => p[i] # p[j]
  BY <1>7 DEF Way
<1> HIDE DEF H
<1>9. len <= Cardinality(used)
  <2>1. IsFiniteSet(0..len) /\ Cardinality(0..len) = len + 1
    BY FS_Interval
  <2>2. ~(Cardinality(B) < Cardinality(0..len))
    <3> HIDE DEF B
    <3> QED BY <1>2, <1>8, <2>1, FS_PigeonHole
  <2> QED BY <1>2, <2>1, <2>2
<1> DEFINE All == {i \in Nat : i <= len => p[i] \in W[i]}
<1>10. 0 \in All
  BY <1>5, <1>8
<1>11. ASSUME NEW i \in Nat, i \in All PROVE i + 1 \in All
  <2> SUFFICES ASSUME i + 1 <= len PROVE p[i + 1] \in W[i + 1]
    OBVIOUS
  <2>1. i \in 0..(len - 1) /\ i \in 0..len
    OBVIOUS
  <2>2. p[i] \in W[i] /\ p[i] \in B
    BY <1>11, <2>1
  <2>3. p[i] # none
    BY <1>1, <2>2, ObjectAssumption
  <2>4. NextNode(p[i]) = p[i + 1]
    BY <1>8, <2>1 DEF NextNode
  <2> QED BY <1>5, <2>2, <2>3, <2>4
<1> HIDE DEF All
<1>12. Nat \subseteq All
  BY <1>10, <1>11, NatsAll
<1>13. mem[queue_tail] \in W[len]
  BY <1>8, <1>12 DEF All
<1> DEFINE Later == {i \in Nat : mem[queue_tail] \in W[len + i]}
<1>14. 0 \in Later
  BY <1>13
<1>15. ASSUME NEW i \in Nat, i \in Later PROVE i + 1 \in Later
  <2>1. len + i \in Nat /\ len + (i + 1) = (len + i) + 1
    OBVIOUS
  <2> QED BY <1>5, <1>15, <2>1
<1> HIDE DEF Later
<1>16. Nat \subseteq Later
  BY <1>14, <1>15, NatsAll
<1>17. mem[queue_tail] \in W[Cardinality(used) + 1]
  <2>1. (Cardinality(used) + 1) - len \in Nat
        /\ len + ((Cardinality(used) + 1) - len) = Cardinality(used) + 1
    BY <1>2, <1>9
  <2> QED BY <1>16, <2>1 DEF Later
<1>18. mem[queue_tail] # none
  BY <1>1, ObjectAssumption DEF QueueMem
<1> QED
  BY <1>5, <1>17, <1>18 DEF H

----------------------------------------------------------------------------
(* The theorems.                                                           *)

\* The invariant implies the properties.
LEMMA InvTypeOK == ObjectInv => TypeOK
<1> SUFFICES ASSUME Base PROVE TypeOK
  BY DEF ObjectInv
<1>1. Asked \subseteq Requests
  BY DEF Asked, Requests
<1>2. ASSUME NEW t \in Thread
      PROVE  /\ th[t].call \in Requests \cup {none}
             /\ IsAnswer(th[t].ret)
             /\ th[t].stale \in BOOLEAN
             /\ th[t].node \in Node \cup {none}
  <2>1. ThreadOK(t)
    BY DEF Base
  <2>2. th[t].call \in Requests \cup {none}
    BY <1>1, <2>1 DEF ThreadOK
  <2> QED BY <2>1, <2>2 DEF ThreadOK
<1> QED
  BY <1>2 DEF Base, TypeOK

\* The same of the shape of the containers.
LEMMA InvWellFormed == ObjectInv => WellFormed
<1> SUFFICES ASSUME ObjectInv PROVE WellFormed
  OBVIOUS
<1>1. CASE kind \in ListKinds
  <2>1. ListMem /\ Base
    BY <1>1 DEF ObjectInv, ListInv
  <2>2. tail \in Chain(head) /\ Chain(head) \subseteq used \cup {head, tail}
    BY <1>1, <2>1, ListWalk
  <2>3. \A n \in Chain(head) \ {tail} : KeyOf(n) < KeyOf(NextNode(n))
    BY <2>1, <2>2 DEF ListMem
  <2> QED BY <1>1, <2>2, <2>3 DEF WellFormed, ListKinds
<1>2. CASE kind \in Rings
  <2>1. mem[ring_tail] - mem[ring_head] \in 0..Capacity
    BY <1>2 DEF ObjectInv, RingInv, RingMem, Rings
  <2> QED BY <1>2, <2>1 DEF WellFormed, Rings, ListKinds
<1>3. CASE kind = "queue"
  <2>1. QueueMem /\ Base
    BY <1>3 DEF ObjectInv, QueueInv
  <2>2. mem[queue_tail] \in Chain(mem[queue_head])
    BY <1>3, <2>1, QueueWalk
  <2>3. mem[next(mem[queue_tail])] = none
    BY <2>1 DEF QueueMem
  <2> QED BY <1>3, <2>2, <2>3 DEF WellFormed, ListKinds
<1>4. CASE kind \notin ListKinds /\ kind \notin Rings /\ kind # "queue"
  BY <1>4 DEF WellFormed, Rings
<1> QED
  BY <1>1, <1>2, <1>3, <1>4

\* What every container keeps, at every step of every thread: the inductive
\* invariant of the lists, the rings, the linked queue, the stack and the bank.
THEOREM ObjectInvariant == Spec => []ObjectInv
<1>1. Init => ObjectInv
  BY ObjectInit
<1>2. ObjectInv /\ [Next]_vars => ObjectInv'
  BY ObjectKept
<1> QED
  BY <1>1, <1>2, PTL DEF Spec

\* TypeOK, for any threads, keys, values and capacity: the variables of the
\* containers keep the types of their declarations, and every answer of every
\* operation is one it can give, also from an attempt that does not commit.
THEOREM ContainersTyped == Spec => []TypeOK
  BY ObjectInvariant, InvTypeOK, PTL

\* WellFormed, for any threads, keys, values and capacity: a walk of a list
\* meets ever larger keys and ends in the tail sentinel, a ring holds what
\* fits, and the tail of the linked queue is its last node, reached from its
\* head.
THEOREM ContainersWellFormed == Spec => []WellFormed
  BY ObjectInvariant, InvWellFormed, PTL
==============================================================================
