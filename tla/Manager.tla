------------------------------- MODULE Manager -------------------------------
(***************************************************************************)
(* atomically() and the thread-local transaction manager TMan, as one      *)
(* thread sees them: nesting, exceptions, retries, and the saving and      *)
(* restoring of lvalue arguments.  Whether try_commit() succeeds is up to  *)
(* other threads (module TL2) and left open here.                          *)
(***************************************************************************)
EXTENDS Integers, Sequences

CONSTANTS
  Arg,        \* lvalues that may be passed as arguments
  Val,        \* values of arguments and of the TVar
  InitVal,    \* what they hold at the start
  NoVal,      \* nothing staged
  MaxDepth,   \* bound: nesting of calls of atomically()
  MaxCalls,   \* bound: calls from outside a transaction
  MaxTries    \* bound: attempts of one call

ASSUME ManagerAssumption ==
  /\ InitVal \in Val
  /\ NoVal \notin Val
  /\ MaxDepth \in Nat
  /\ MaxCalls \in Nat
  /\ MaxTries \in Nat

VARIABLES
  state,    \* context.state
  staged,   \* the log: value staged for the TVar, or NoVal
  frames,   \* calls of atomically() on the stack: "outer" runs the retry
            \* loop, "inner" found a transaction running
  saved,    \* the tuple of saved arguments of the outer call
  exc,      \* exception in flight: "none", "std" (a std::exception), "other"
  mem,      \* the TVar
  args,     \* the lvalues
  calls,    \* calls made from outside a transaction
  tries,    \* failed attempts of the outer call
  mine,     \* last value this attempt of the outermost call has assigned
  entry,    \* value of the lvalues when the outermost call was made
  escaped   \* a foreign exception has left an outer call

context == <<state, staged>>
stack == <<frames, saved, exc>>
history == <<mine, entry, escaped>>
vars == <<context, stack, mem, args, calls, tries, history>>

Running == state = "RUNNING"
Top == frames[Len(frames)]
Outside == frames = << >>
Pop == SubSeq(frames, 1, Len(frames) - 1)

Init ==
  /\ state = "ABORT"
  /\ staged = NoVal
  /\ frames = << >>
  /\ saved = << >>
  /\ exc = "none"
  /\ mem = InitVal
  /\ args = [a \in Arg |-> InitVal]
  /\ calls = 0
  /\ tries = 0
  /\ mine = NoVal
  /\ entry = args
  /\ escaped = FALSE

----------------------------------------------------------------------------
start_transaction ==
  /\ staged' = NoVal
  /\ state' = "RUNNING"

end_transaction ==
  /\ staged' = NoVal
  /\ state' = "ZOMBIE"

\* atomically(t, args...) with the lvalues S as arguments: inside a running
\* transaction it just runs t().
Call(S) ==
  /\ exc = "none"
  /\ Len(frames) < MaxDepth
  /\ IF Outside
       THEN /\ calls < MaxCalls
            /\ calls' = calls + 1
            /\ mine' = NoVal
            /\ entry' = args
       ELSE UNCHANGED <<calls, mine, entry>>
  /\ IF Running
       THEN /\ frames' = Append(frames, "inner")
            /\ UNCHANGED <<context, saved, tries>>
       ELSE /\ frames' = Append(frames, "outer")
            /\ saved' = [a \in S |-> args[a]]
            /\ tries' = 0
            /\ start_transaction
  /\ UNCHANGED <<exc, mem, args, escaped>>

\* TVar::operator=; a read passes the same assert_in_transaction().
Assign(v) ==
  /\ exc = "none"
  /\ IF Running
       THEN /\ staged' = v
            /\ mine' = IF Outside THEN mine ELSE v
            /\ UNCHANGED <<state, exc>>
       ELSE /\ end_transaction
            /\ exc' = "std"
            /\ UNCHANGED mine
  /\ UNCHANGED <<frames, saved, mem, args, calls, tries, entry, escaped>>

\* The body changes an lvalue it has captured.
Modify(a, v) ==
  /\ exc = "none"
  /\ ~Outside
  /\ args' = [args EXCEPT ![a] = v]
  /\ UNCHANGED <<context, stack, mem, calls, tries, history>>

\* The body throws; for the outer call this stands also for an exception out
\* of try_commit() before it has stored anything.
Throw(k) ==
  /\ exc = "none"
  /\ ~Outside
  /\ exc' = k
  /\ UNCHANGED <<context, frames, saved, mem, args, calls, tries, history>>

\* The code that made the call catches the exception.
Catch ==
  /\ exc # "none"
  /\ exc' = "none"
  /\ UNCHANGED <<context, frames, saved, mem, args, calls, tries, history>>

\* The exception leaves a call of atomically(): only the outer one has a
\* handler, and only for std::exception.
UnwindInner ==
  /\ exc # "none" /\ ~Outside /\ Top = "inner"
  /\ frames' = Pop
  /\ UNCHANGED <<context, saved, exc, mem, args, calls, tries, history>>

HandlerForgets ==
  /\ exc = "std" /\ ~Outside /\ Top = "outer"
  /\ frames' = Pop
  /\ saved' = << >>
  /\ UNCHANGED <<context, exc, mem, args, calls, tries, history>>
UnwindStd ==
  /\ exc = "std" /\ ~Outside /\ Top = "outer"
  /\ frames' = Pop
  /\ saved' = << >>
  /\ end_transaction
  /\ UNCHANGED <<exc, mem, args, calls, tries, history>>

UnwindOther ==
  /\ exc = "other" /\ ~Outside /\ Top = "outer"
  /\ frames' = Pop
  /\ saved' = << >>
  /\ escaped' = TRUE
  /\ UNCHANGED <<context, exc, mem, args, calls, tries, mine, entry>>

----------------------------------------------------------------------------
\* t() returns: a nested call is over.
ReturnInner ==
  /\ exc = "none" /\ ~Outside /\ Top = "inner"
  /\ frames' = Pop
  /\ UNCHANGED <<context, saved, exc, mem, args, calls, tries, history>>

\* try_commit() succeeds and the transaction ends.
Committed ==
  /\ exc = "none" /\ ~Outside /\ Top = "outer"
  /\ mem' = IF staged = NoVal THEN mem ELSE staged
  /\ end_transaction
  /\ frames' = Pop
  /\ saved' = << >>

\* The call returns.
Commit ==
  /\ Committed
  /\ UNCHANGED <<exc, args, calls, tries, history>>

\* `return ret.value();` copies the result and throws: the call ends with an
\* exception although everything is stored.  The handler that a
\* std::exception meets only ends the transaction a second time.
CommitThrows(k) ==
  /\ Committed
  /\ exc' = k
  /\ UNCHANGED <<args, calls, tries, history>>

\* restore_args(saved, args...).
RestoreNothing == UNCHANGED args
RestoreMovedFrom ==
  args' = [a \in Arg |-> IF a \in DOMAIN saved THEN NoVal ELSE args[a]]
RestoreArgs ==
  args' = [a \in Arg |-> IF a \in DOMAIN saved THEN saved[a] ELSE args[a]]

\* try_commit() fails: the body is run again.
RetryKeepsLog ==
  /\ exc = "none" /\ ~Outside /\ Top = "outer"
  /\ tries < MaxTries
  /\ tries' = tries + 1
  /\ RestoreArgs
  /\ mine' = NoVal
  /\ UNCHANGED <<context, stack, mem, calls, entry, escaped>>
Retry ==
  /\ exc = "none" /\ ~Outside /\ Top = "outer"
  /\ tries < MaxTries
  /\ tries' = tries + 1
  /\ RestoreArgs
  /\ start_transaction
  /\ mine' = NoVal
  /\ UNCHANGED <<stack, mem, calls, entry, escaped>>

Next ==
  \/ \E S \in SUBSET Arg : Call(S)
  \/ \E v \in Val : Assign(v)
  \/ \E a \in Arg, v \in Val : Modify(a, v)
  \/ \E k \in {"std", "other"} : Throw(k)
  \/ Catch
  \/ UnwindInner
  \/ UnwindStd
  \/ UnwindOther
  \/ ReturnInner
  \/ Commit
  \/ \E k \in {"std", "other"} : CommitThrows(k)
  \/ Retry

Spec == Init /\ [][Next]_vars

----------------------------------------------------------------------------
\* The type of every variable; an outer call is at the bottom of the stack.
TypeOK ==
  /\ state \in {"ABORT", "RUNNING", "ZOMBIE"}
  /\ staged \in Val \cup {NoVal}
  /\ frames \in Seq({"outer", "inner"})
  /\ DOMAIN saved \subseteq Arg
  /\ exc \in {"none", "std", "other"}
  /\ mem \in Val
  /\ args \in [Arg -> Val]
  /\ calls \in 0 .. MaxCalls
  /\ tries \in 0 .. MaxTries
  /\ mine \in Val \cup {NoVal}
  /\ entry \in [Arg -> Val]
  /\ escaped \in BOOLEAN

\* The manager says RUNNING exactly while an outer call is on the stack, and
\* that call is the bottom one: nested calls, exceptions caught half-way and
\* retries included, as long as no foreign exception has escaped.
RunningInside ==
  ~escaped =>
    /\ Running <=> ~Outside
    /\ ~Outside => frames[1] = "outer"
    /\ \A i \in 2 .. Len(frames) : frames[i] = "inner"

\* A call from outside whose try_commit() succeeds has stored what its last
\* attempt, nested calls included, has assigned, and only then does shared
\* memory ever change: an exception of a body or of a commit that has not
\* succeeded, caught half-way or not, and an attempt that is retried store
\* nothing, also later.  The caller of such a call cannot rely on the return:
\* the copy of the result may still throw (CommitThrows).
OnlySuccessVisible ==
  [][mem' # mem \/ (Len(frames) = 1 /\ frames' = << >> /\ exc = "none" /\ ~escaped)
       => /\ Len(frames) = 1 /\ frames' = << >> /\ exc = "none"
          /\ mem' = IF mine = NoVal THEN mem ELSE mine]_vars

\* When an attempt fails, every argument of the outer call has again the
\* value it had when the call was made (restore_args in stm.h).
ArgsRestored ==
  [][tries' > tries => \A a \in DOMAIN saved : args'[a] = entry[a]]_vars

\* "Accessing a variable outside a transaction is prohibited"
\* (test/invalid_access.cc): outside every call nothing gets into the log,
\* whatever calls and exceptions the thread has had before.  What it takes is
\* that no foreign exception has escaped: after one the manager still says
\* RUNNING, and assert_in_transaction() accepts every access.
OutsideAccessRejected ==
  [][Outside /\ ~escaped /\ staged' # staged => staged' = NoVal]_vars
=============================================================================
