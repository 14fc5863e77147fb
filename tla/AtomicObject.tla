---------------------------- MODULE AtomicObject ----------------------------
(***************************************************************************)
(* What a shared container promises: a call takes effect at one moment     *)
(* between its call and its return, as if it ran alone, and its answer is  *)
(* the one of that moment.  A call that changes nothing may have had any   *)
(* of the moments of the call, so could holds the answers it might have    *)
(* got; a call that is unsure may return anything (but changes the object  *)
(* like the others).                                                       *)
(***************************************************************************)
EXTENDS Integers, Sequences, FiniteSets

CONSTANTS Thread, Request, Capacity, none

VARIABLES kind, object, request, effect, could, unsure, answer

contents == <<kind, object, request, effect, could, answer>>

ListKinds == {"ordered", "coarse", "fine", "lockfree"}

Res(o, a) == [object |-> o, answer |-> a]
Truth(b) == IF b THEN <<"true">> ELSE <<"false">>

\* Operations on a set of keys, on a sequence of at most cap elements of which
\* the first is taken out, and on the balances of accounts.
OfSet(s, r) ==
  CASE r.op = "add" -> Res(s \cup {r.key}, Truth(r.key \notin s))
    [] r.op = "remove" -> Res(s \ {r.key}, Truth(r.key \in s))
    [] r.op = "contains" -> Res(s, Truth(r.key \in s))

Put(q, v, cap) ==
  IF Len(q) >= cap THEN Res(q, Truth(FALSE)) ELSE Res(Append(q, v), Truth(TRUE))
Take(q) ==
  IF q = << >> THEN Res(q, Truth(FALSE)) ELSE Res(Tail(q), <<"value", Head(q)>>)
OfRing(q, r) ==
  CASE r.op = "enq" -> Put(q, r.val, Capacity)
    [] r.op = "deq" -> Take(q)
    [] r.op = "size" -> Res(q, <<"size", Len(q)>>)
    [] r.op = "both" -> Res(Take(Put(q, r.val, Capacity).object).object, <<"void">>)
OfQueue(q, r) ==
  IF r.op = "enq" THEN Res(Append(q, r.val), <<"void">>) ELSE Take(q)
OfStack(s, r) ==
  CASE r.op = "push" -> Res(<<r.val>> \o s, <<"void">>)
    [] r.op = "pop" -> Take(s)
    [] r.op = "empty" -> Res(s, Truth(s = << >>))

\* A missing account is created, with the amount as its balance.
Credit(b, name, amt, created) ==
  [b EXCEPT ![name] = IF @ = none THEN created ELSE @ + amt]
OfBank(b, r) ==
  Res(CASE r.op = "Add" -> Credit(b, r.name, r.amt, r.amt)
        [] r.op = "Withdraw" -> Credit(b, r.name, -r.amt, r.amt)
        [] r.op = "Transfer" ->
             Credit(Credit(b, r.dest, r.amt, r.amt), r.src, -r.amt, r.amt),
      <<"void">>)

Alone(k, o, r) ==
  CASE k \in ListKinds -> OfSet(o, r)
    [] k \in {"bounded", "batch"} -> OfRing(o, r)
    [] k = "queue" -> OfQueue(o, r)
    [] k = "stack" -> OfStack(o, r)
    [] k = "bank" -> OfBank(o, r)

\* The answer that r would get now, if it changes nothing.
Passive(k, o, r) ==
  LET a == Alone(k, o, r) IN IF a.object = o THEN {a.answer} ELSE {}

\* could, over a step that makes the calls r and the object o.
Widened(k, o, r) ==
  [t \in Thread |-> IF r[t] = none THEN {}
                    ELSE could[t] \cup Passive(k, o, r[t])]

ACall(t) ==
  /\ request[t] = none
  /\ request'[t] \in Request
  /\ request' = [request EXCEPT ![t] = request'[t]]
  /\ answer' = [answer EXCEPT ![t] = none]
  /\ UNCHANGED <<object, effect>>

AEffect(t) ==
  /\ request[t] # none /\ effect[t] = none
  /\ LET a == Alone(kind, object, request[t]) IN
       /\ object' = a.object
       /\ effect' = [effect EXCEPT ![t] = a.answer]
  /\ UNCHANGED <<request, answer>>

AReturn(t) ==
  /\ request[t] # none
  /\ \/ effect[t] # none /\ answer' = [answer EXCEPT ![t] = effect[t]]
     \/ effect[t] = none /\ \E a \in could[t] : answer' = [answer EXCEPT ![t] = a]
     \/ effect[t] = none /\ unsure[t] /\ answer' = [answer EXCEPT ![t] = answer'[t]]
  /\ request' = [request EXCEPT ![t] = none]
  /\ effect' = [effect EXCEPT ![t] = none]
  /\ UNCHANGED object

AInit ==
  /\ request = [t \in Thread |-> none]
  /\ effect = [t \in Thread |-> none]
  /\ could = [t \in Thread |-> {}]
  /\ answer = [t \in Thread |-> none]

ANext ==
  /\ \E t \in Thread : ACall(t) \/ AEffect(t) \/ AReturn(t)
  /\ \E o \in {object'} : could' = Widened(kind, o, request')
  /\ UNCHANGED kind

ASpec == AInit /\ [][ANext]_contents

=============================================================================
