----------------------------- MODULE AtomicList -----------------------------
(***************************************************************************)
(* What zoo::LinkedList, and a bucket of zoo::HashMap, promise: a list of  *)
(* items on which every operation is one step, newest item first.          *)
(***************************************************************************)
EXTENDS Integers, Sequences

CONSTANTS Thread, Key, Val, none

Item == [key : Key, val : Val]
Request ==
  [op : {"add"}, item : Item]
    \cup [op : {"remove", "get"}, key : Key]
    \cup [op : {"update"}, key : Key, item : Item]
    \cup [op : {"size"}]

VARIABLES
  list,    \* the items
  phase,   \* phase[t]: "idle", "called" or "done"
  req,     \* req[t]: the operation t has called
  answer   \* answer[t]: what it returns

avars == <<list, phase, req, answer>>

Matches(k) == {i \in DOMAIN list : list[i].key = k}
First(k) == CHOOSE i \in Matches(k) : \A j \in Matches(k) : i <= j
Without(i) == SubSeq(list, 1, i - 1) \o SubSeq(list, i + 1, Len(list))

AInit ==
  /\ list = << >>
  /\ phase = [t \in Thread |-> "idle"]
  /\ req = [t \in Thread |-> none]
  /\ answer = [t \in Thread |-> none]

ACall(t, r) ==
  /\ phase[t] = "idle"
  /\ phase' = [phase EXCEPT ![t] = "called"]
  /\ req' = [req EXCEPT ![t] = r]
  /\ UNCHANGED <<list, answer>>

\* The new list and the answer of request r.
Effect(r, newList, a) ==
  \/ /\ r.op = "add"
     /\ newList = <<r.item>> \o list /\ a = none
  \/ /\ r.op = "remove"
     /\ newList = IF Matches(r.key) = {} THEN list ELSE Without(First(r.key))
     /\ a = <<"removed", Matches(r.key) # {}>>
  \/ /\ r.op = "get"
     /\ newList = list
     /\ a = <<"item", IF Matches(r.key) = {} THEN none ELSE list[First(r.key)]>>
  \/ /\ r.op = "update"
     /\ newList = IF Matches(r.key) = {} THEN <<r.item>> \o list
                  ELSE [list EXCEPT ![First(r.key)] = r.item]
     /\ a = none
  \/ /\ r.op = "size"
     /\ newList = list /\ a = <<"size", Len(list)>>

ADo(t) ==
  /\ phase[t] = "called"
  /\ Effect(req[t], list', answer'[t])
  /\ answer' = [answer EXCEPT ![t] = answer'[t]]
  /\ phase' = [phase EXCEPT ![t] = "done"]
  /\ UNCHANGED req

\* The operation returns, or throws before it had an effect.
ALeave(t) ==
  /\ phase[t] \in {"called", "done"}
  /\ phase' = [phase EXCEPT ![t] = "idle"]
  /\ req' = [req EXCEPT ![t] = none]
  /\ answer' = [answer EXCEPT ![t] = none]
  /\ UNCHANGED list

ANext ==
  \E t \in Thread : (\E r \in Request : ACall(t, r)) \/ ADo(t) \/ ALeave(t)

ASpec == AInit /\ [][ANext]_avars
=============================================================================
