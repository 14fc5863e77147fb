-------------------------------- MODULE Bank --------------------------------
(***************************************************************************)
(* The transactions of the bank example over its accounts, a zoo::HashMap. *)
(* An account is modelled as one location, none if it is not in the map:   *)
(* get() and set() of a name, which search the same bucket, are one access *)
(* (LinkedList has the search).  A Transfer runs the transactions of an    *)
(* Add and of a Withdraw inside its own, and so reads its own writes.      *)
(***************************************************************************)
EXTENDS SharedObject

account(name) == <<"account", name>>
BankRequest ==
  [op : {"Add", "Withdraw"}, name : Key, amt : Val]
    \cup [op : {"Transfer"}, src : Key, dest : Key, amt : Val]

NewBank == mem = [x \in {account(n) : n \in Key} |-> none]

remove_balance(balance, amt) == balance - amt
add_balance(balance, amt) == remove_balance(balance, -amt)

\* Withdraw::execute() and Add::execute(): the account is created with amt
\* as its balance when it is missing, by a Withdraw too.
Withdraw(t, where, name, amt, then) ==
  LET x == account(name)
      upd == IF Value(t, x) = none THEN amt ELSE remove_balance(Value(t, x), amt)
  IN  ReadWrite(t, where, x, x :> upd, [th[t] EXCEPT !.pc = then, !.ret = Void])

Add(t, where, name, amt, then) ==
  LET x == account(name)
      upd == IF Value(t, x) = none THEN amt ELSE add_balance(Value(t, x), amt)
  IN  ReadWrite(t, where, x, x :> upd, [th[t] EXCEPT !.pc = then, !.ret = Void])

Execute(t) ==
  \/ Op(t) = "Withdraw" /\ Withdraw(t, "begin", th[t].call.name, th[t].call.amt, "commit")
  \/ Op(t) = "Add" /\ Add(t, "begin", th[t].call.name, th[t].call.amt, "commit")

\* Transfer::execute()
Transfer(t) ==
  /\ Op(t) = "Transfer"
  /\ \/ Add(t, "begin", th[t].call.dest, th[t].call.amt, "withdraw")
     \/ Withdraw(t, "withdraw", th[t].call.src, th[t].call.amt, "commit")

BankStep(t) ==
  \/ Call(t, BankRequest)
  \/ Execute(t) \/ Transfer(t)
  \/ Commit(t)
  \/ Retry(t, FALSE, FALSE)
  \/ Return(t)

=============================================================================
