--------------------------- MODULE Manager_proofs ---------------------------
(***************************************************************************)
(* What atomically() does for its caller, for any depth of nesting, any    *)
(* number of calls, attempts and exceptions.                               *)
(***************************************************************************)
EXTENDS Manager, SequenceTheorems, TLAPS

Frame == {"outer", "inner"}

\* An outer call can only be the bottom of the stack; while it is there, the
\* log holds what its attempt has assigned and its tuple what the arguments
\* were.  After a foreign exception has escaped there is never one again.
StackInv ==
  /\ \A i \in 2 .. Len(frames) : frames[i] = "inner"
  /\ frames # << >> /\ frames[1] = "outer" => staged = mine
  /\ frames # << >> /\ frames[1] = "outer" =>
       \A a \in DOMAIN saved : saved[a] = entry[a]
  /\ escaped => Running /\ (frames # << >> => frames[1] = "inner")

IInv == TypeOK /\ RunningInside /\ StackInv

\* atomically() enters a frame.
LEMMA PushLemma ==
  ASSUME NEW s \in Seq(Frame), NEW f \in Frame
  PROVE  /\ Append(s, f) \in Seq(Frame)
         /\ Append(s, f) # << >>
         /\ Len(Append(s, f)) = Len(s) + 1
         /\ Append(s, f)[Len(s) + 1] = f
         /\ \A i \in 1 .. Len(s) : Append(s, f)[i] = s[i]
  OBVIOUS

\* It leaves one.
LEMMA PopLemma ==
  ASSUME frames \in Seq(Frame), frames # << >>
  PROVE  /\ Len(frames) \in Nat \ {0}
         /\ Pop \in Seq(Frame)
         /\ Len(Pop) = Len(frames) - 1
         /\ \A i \in 1 .. Len(Pop) : Pop[i] = frames[i]
         /\ Pop = << >> <=> Len(frames) = 1
  <1>1. Len(frames) \in Nat \ {0}
    BY EmptySeq
  <1>2. /\ Pop \in Seq(Frame)
        /\ Len(Pop) = Len(frames) - 1
        /\ \A i \in 1 .. Len(Pop) : Pop[i] = frames[i]
    <2> DEFINE n == Len(frames) - 1
    <2>1. n \in Int /\ 1 \in Int /\ \A i \in 1 .. n : frames[i] \in Frame
      BY <1>1
    <2>2. n - 1 + 1 = n /\ n >= 0
      BY <1>1
    <2> HIDE DEF n
    <2>3. /\ SubSeq(frames, 1, n) \in Seq(Frame)
          /\ Len(SubSeq(frames, 1, n)) = IF 1 <= n THEN n - 1 + 1 ELSE 0
          /\ \A i \in 1 .. n - 1 + 1 : SubSeq(frames, 1, n)[i] = frames[1 + i - 1]
      BY <2>1, SubSeqProperties
    <2>4. Len(SubSeq(frames, 1, n)) = n
      BY <2>1, <2>2, <2>3
    <2>5. \A i \in 1 .. n : SubSeq(frames, 1, n)[i] = frames[i]
      BY <2>1, <2>2, <2>3
    <2> QED
      BY <2>3, <2>4, <2>5 DEF Pop, n
  <1>3. Pop = << >> <=> Len(frames) = 1
    BY <1>1, <1>2, EmptySeq
  <1> QED
    BY <1>1, <1>2, <1>3

\* Removing a call from the stack.
LEMMA PopInv ==
  ASSUME IInv, ~Outside, frames' = Pop
  PROVE  /\ frames' \in Seq(Frame)
         /\ \A i \in 2 .. Len(frames') : frames'[i] = "inner"
         /\ Top = "outer" => frames' = << >> /\ Len(frames) = 1
         /\ frames' # << >> => frames'[1] = frames[1]
         /\ Top = "inner" /\ frames[1] = "outer" => frames' # << >>
  <1>1. frames \in Seq(Frame) /\ frames # << >>
    BY DEF IInv, TypeOK, Outside, Frame
  <1>2. \A i \in 2 .. Len(frames) : frames[i] = "inner"
    BY DEF IInv, StackInv
  <1>3. /\ Len(frames) \in Nat \ {0}
        /\ Pop \in Seq(Frame)
        /\ Len(Pop) = Len(frames) - 1
        /\ \A i \in 1 .. Len(Pop) : Pop[i] = frames[i]
        /\ Pop = << >> <=> Len(frames) = 1
    BY <1>1, PopLemma
  <1>4. Top = "outer" => Len(frames) = 1
    BY <1>2, <1>3 DEF Top
  <1>5. Top = "inner" /\ frames[1] = "outer" => Len(frames) # 1
    BY <1>3 DEF Top
  <1>6. \A i \in 2 .. Len(frames') : frames'[i] = "inner"
    BY <1>2, <1>3
  <1>7. frames' # << >> => frames'[1] = frames[1]
    BY <1>3
  <1> QED
    BY <1>3, <1>4, <1>5, <1>6, <1>7

\* An outer call on top of the stack is alone.
LEMMA OuterAtBottom ==
  ASSUME IInv, ~Outside, Top = "outer"
  PROVE  frames # << >> /\ Len(frames) = 1 /\ frames[1] = "outer"
  <1>1. frames \in Seq(Frame) /\ frames # << >>
    BY DEF IInv, TypeOK, Outside, Frame
  <1>2. Len(frames) \in Nat \ {0}
    BY <1>1, PopLemma
  <1>3. \A i \in 2 .. Len(frames) : frames[i] = "inner"
    BY DEF IInv, StackInv
  <1>4. frames[Len(frames)] = "outer"
    BY DEF Top
  <1>5. Len(frames) \notin 2 .. Len(frames)
    BY <1>3, <1>4
  <1>6. Len(frames) = 1
    <2>1. \A n \in Nat \ {0} : n \notin 2 .. n => n = 1
      OBVIOUS
    <2> QED
      BY <1>2, <1>5, <2>1
  <1> QED
    BY <1>1, <1>4, <1>6

\* Every action keeps the types.
LEMMA TypeStep ==
  ASSUME IInv, Next
  PROVE  TypeOK'
  <1> USE ManagerAssumption
  <1>0. TypeOK /\ frames \in Seq(Frame)
    BY DEF IInv, TypeOK, Frame
  <1>1. ASSUME NEW S \in SUBSET Arg, Call(S)
        PROVE  TypeOK'
    <2>1. frames' \in Seq(Frame)
      BY <1>0, <1>1, PushLemma DEF Call, Frame
    <2>2. DOMAIN saved' \subseteq Arg /\ staged' \in Val \cup {NoVal}
          /\ state' \in {"ABORT", "RUNNING", "ZOMBIE"}
      BY <1>0, <1>1 DEF Call, TypeOK, start_transaction, context
    <2>3. calls' \in 0 .. MaxCalls /\ tries' \in 0 .. MaxTries
      BY <1>0, <1>1 DEF Call, TypeOK
    <2>4. mine' \in Val \cup {NoVal} /\ entry' \in [Arg -> Val]
      BY <1>0, <1>1 DEF Call, TypeOK
    <2> QED
      BY <1>0, <1>1, <2>1, <2>2, <2>3, <2>4 DEF Call, TypeOK, Frame
  <1>2. ASSUME NEW v \in Val, Assign(v)
        PROVE  TypeOK'
    BY <1>0, <1>2 DEF Assign, TypeOK, end_transaction
  <1>3. ASSUME NEW a \in Arg, NEW v \in Val, Modify(a, v)
        PROVE  TypeOK'
    BY <1>0, <1>3 DEF Modify, TypeOK, context, stack, history
  <1>4. ASSUME NEW k \in {"std", "other"}, Throw(k)
        PROVE  TypeOK'
    BY <1>0, <1>4 DEF Throw, TypeOK, context, history
  <1>5. CASE Catch
    BY <1>0, <1>5 DEF Catch, TypeOK, context, history
  <1>6. ASSUME ~Outside, frames' = Pop
        PROVE  frames' \in Seq({"outer", "inner"})
    BY <1>6, PopInv DEF Frame
  <1>7. CASE UnwindInner
    BY <1>0, <1>6, <1>7 DEF UnwindInner, TypeOK, context, history
  <1>8. CASE UnwindStd
    BY <1>0, <1>6, <1>8 DEF UnwindStd, TypeOK, end_transaction, history
  <1>9. CASE UnwindOther
    BY <1>0, <1>6, <1>9 DEF UnwindOther, TypeOK, context
  <1>10. CASE ReturnInner
    BY <1>0, <1>6, <1>10 DEF ReturnInner, TypeOK, context, history
  <1>11. CASE Commit
    BY <1>0, <1>6, <1>11 DEF Commit, Committed, TypeOK, end_transaction, history
  <1>13. ASSUME NEW k \in {"std", "other"}, CommitThrows(k)
         PROVE  TypeOK'
    BY <1>0, <1>6, <1>13 DEF CommitThrows, Committed, TypeOK, end_transaction, history
  <1>12. CASE Retry
    <2>1. frames # << >> /\ Len(frames) = 1 /\ frames[1] = "outer"
      BY <1>12, OuterAtBottom DEF Retry
    <2>2. \A a \in DOMAIN saved : saved[a] = entry[a]
      BY <2>1 DEF IInv, StackInv
    <2>3. args' \in [Arg -> Val]
      BY <1>0, <1>12, <2>2 DEF Retry, RestoreArgs, TypeOK
    <2> QED
      BY <1>0, <1>12, <2>3 DEF Retry, TypeOK, start_transaction, stack
  <1> QED
    BY <1>1, <1>2, <1>3, <1>4, <1>5, <1>7, <1>8, <1>9, <1>10, <1>11, <1>12,
       <1>13 DEF Next

\* The bottom of the stack after a call.
LEMMA CallStep ==
  ASSUME IInv, NEW S \in SUBSET Arg, Call(S)
  PROVE  RunningInside' /\ StackInv'
  <1>0. TypeOK /\ frames \in Seq(Frame) /\ Len(frames) \in Nat
    BY DEF IInv, TypeOK, Frame
  <1>1. CASE Outside
    <2>1. Len(frames) = 0
      BY <1>1 DEF Outside
    <2>2. ~escaped => ~Running
      BY <1>1 DEF IInv, RunningInside
    <2>3. frames' # << >> /\ Len(frames') = 1 /\ ~Outside'
          /\ frames'[1] = IF Running THEN "inner" ELSE "outer"
      BY <1>0, <1>1, <2>1, PushLemma DEF Call, Outside, Frame
    <2>4. escaped' = escaped /\ Running'
      BY <1>1 DEF Call, Running, start_transaction, context
    <2>5. ~Running => staged' = NoVal /\ mine' = NoVal
      BY <1>1 DEF Call, start_transaction
    <2>6. ~Running => \A a \in DOMAIN saved' : saved'[a] = entry'[a]
      BY <1>1 DEF Call
    <2>7. escaped => Running
      BY DEF IInv, StackInv
    <2>8. RunningInside'
      BY <2>2, <2>3, <2>4, <2>7 DEF RunningInside
    <2>9. StackInv'
      BY <2>2, <2>3, <2>4, <2>5, <2>6, <2>7 DEF StackInv
    <2> QED
      BY <2>8, <2>9
  <1>2. CASE ~Outside
    <2>1. Running
      BY <1>2 DEF IInv, RunningInside, StackInv
    <2>2. frames # << >> /\ Len(frames) >= 1
      BY <1>0, <1>2, EmptySeq DEF Outside
    <2>3. frames' = Append(frames, "inner") /\ UNCHANGED <<context, saved>>
          /\ mine' = mine /\ entry' = entry /\ escaped' = escaped
      BY <1>2, <2>1 DEF Call
    <2>4. /\ frames' # << >>
          /\ Len(frames') = Len(frames) + 1
          /\ frames'[Len(frames) + 1] = "inner"
          /\ \A i \in 1 .. Len(frames) : frames'[i] = frames[i]
      BY <1>0, <2>3, PushLemma DEF Frame
    <2>5. frames'[1] = frames[1]
      BY <1>0, <2>2, <2>4
    <2>6. \A i \in 2 .. Len(frames') : frames'[i] = "inner"
      <3> SUFFICES ASSUME NEW i \in 2 .. Len(frames')
                   PROVE  frames'[i] = "inner"
        OBVIOUS
      <3>1. i = Len(frames) + 1 \/ i \in 2 .. Len(frames)
        BY <1>0, <2>4
      <3> QED
        BY <1>0, <2>4, <3>1 DEF IInv, StackInv
    <2>7. state' = state /\ staged' = staged /\ saved' = saved
      BY <2>3 DEF context
    <2>8. RunningInside'
      BY <1>2, <2>1, <2>3, <2>4, <2>5, <2>6, <2>7
         DEF IInv, RunningInside, Running, Outside
    <2>9. StackInv'
      BY <1>2, <2>1, <2>2, <2>3, <2>5, <2>6, <2>7 DEF IInv, StackInv, Running
    <2> QED
      BY <2>8, <2>9
  <1> QED
    BY <1>1, <1>2

\* Steps that neither add nor remove a call.
LEMMA InPlaceStep ==
  ASSUME IInv, UNCHANGED <<frames, escaped, saved, entry>>,
         ~Outside => (Running' <=> Running),
         Outside /\ Running => Running',
         Outside /\ ~Running => ~Running',
         frames # << >> /\ frames[1] = "outer" => staged' = mine'
  PROVE  RunningInside' /\ StackInv'
  <1>1. RunningInside'
    BY DEF IInv, RunningInside, Outside
  <1>2. StackInv'
    BY DEF IInv, StackInv, Outside
  <1> QED
    BY <1>1, <1>2

\* A call on the stack means that a transaction is running.
LEMMA InsideRuns ==
  ASSUME IInv, ~Outside
  PROVE  Running
  BY DEF IInv, RunningInside, StackInv, Outside

\* An inner call leaves the stack.
LEMMA PopInnerStep ==
  ASSUME IInv, ~Outside, Top = "inner", frames' = Pop,
         UNCHANGED <<context, saved, history>>
  PROVE  RunningInside' /\ StackInv'
  <1>1. /\ \A i \in 2 .. Len(frames') : frames'[i] = "inner"
        /\ frames' # << >> => frames'[1] = frames[1]
        /\ frames[1] = "outer" => frames' # << >>
    BY PopInv
  <1>2. Running /\ Running' /\ frames # << >>
    BY InsideRuns DEF context, Running, Outside
  <1>3. UNCHANGED <<state, staged, saved, mine, entry, escaped>>
    BY DEF context, history
  <1>4. RunningInside'
    BY <1>1, <1>2, <1>3 DEF IInv, RunningInside, Outside
  <1>5. StackInv'
    BY <1>1, <1>2, <1>3 DEF IInv, StackInv
  <1> QED
    BY <1>4, <1>5

\* The outer call leaves the stack.
LEMMA PopOuterStep ==
  ASSUME IInv, ~Outside, Top = "outer", frames' = Pop,
         \/ ~Running' /\ ~escaped'
         \/ Running' /\ escaped'
  PROVE  RunningInside' /\ StackInv'
  <1>1. frames' = << >> /\ Len(frames') = 0
    BY PopInv
  <1>2. RunningInside'
    BY <1>1 DEF RunningInside, Outside
  <1>3. StackInv'
    BY <1>1 DEF StackInv
  <1> QED
    BY <1>2, <1>3

\* No foreign exception has escaped while an outer call is on the stack.
LEMMA OuterNotEscaped ==
  ASSUME IInv, ~Outside, Top = "outer"
  PROVE  ~escaped
  BY OuterAtBottom DEF IInv, StackInv

\* Every action keeps the inductive invariant.
LEMMA Step ==
  ASSUME IInv, [Next]_vars
  PROVE  IInv'
  <1>1. ASSUME UNCHANGED vars
        PROVE  IInv'
    BY <1>1 DEF IInv, TypeOK, RunningInside, StackInv, Running, Outside,
                vars, context, stack, history
  <1>2. ASSUME Next
        PROVE  RunningInside' /\ StackInv'
    <2>1. ASSUME NEW S \in SUBSET Arg, Call(S)
          PROVE  RunningInside' /\ StackInv'
      BY <2>1, CallStep
    <2>2. ASSUME NEW v \in Val, Assign(v)
          PROVE  RunningInside' /\ StackInv'
      <3>1. UNCHANGED <<frames, escaped, saved, entry>>
        BY <2>2 DEF Assign
      <3>2. CASE Running
        <4>1. Running' /\ (~Outside => staged' = mine')
          BY <2>2, <3>2 DEF Assign, Running
        <4> QED
          BY <3>1, <3>2, <4>1, InPlaceStep DEF Outside
      <3>3. CASE ~Running
        <4>1. ~Running' /\ Outside
          BY <2>2, <3>3, InsideRuns DEF Assign, Running, end_transaction
        <4> QED
          BY <3>1, <3>3, <4>1, InPlaceStep DEF Outside
      <3> QED
        BY <3>2, <3>3
    <2>3. ASSUME UNCHANGED <<context, frames, saved, history>>
          PROVE  RunningInside' /\ StackInv'
      <3>1. UNCHANGED <<frames, escaped, saved, entry, state, staged, mine>>
        BY <2>3 DEF context, history
      <3>2. frames # << >> /\ frames[1] = "outer" => staged' = mine'
        BY <3>1 DEF IInv, StackInv
      <3>3. Running' <=> Running
        BY <3>1 DEF Running
      <3> QED
        BY <3>1, <3>2, <3>3, InPlaceStep
    <2>4. ASSUME NEW a \in Arg, NEW v \in Val, Modify(a, v)
          PROVE  RunningInside' /\ StackInv'
      BY <2>3, <2>4 DEF Modify, stack
    <2>5. ASSUME NEW k \in {"std", "other"}, Throw(k)
          PROVE  RunningInside' /\ StackInv'
      BY <2>3, <2>5 DEF Throw
    <2>6. CASE Catch
      BY <2>3, <2>6 DEF Catch
    <2>7. CASE UnwindInner
      BY <2>7, PopInnerStep DEF UnwindInner
    <2>8. CASE UnwindStd
      <3>1. ~Outside /\ Top = "outer" /\ frames' = Pop /\ ~Running' /\ escaped' = escaped
        BY <2>8 DEF UnwindStd, end_transaction, Running, history
      <3> QED
        BY <3>1, OuterNotEscaped, PopOuterStep
    <2>9. CASE UnwindOther
      <3>1. ~Outside /\ Top = "outer" /\ frames' = Pop /\ state' = state /\ escaped'
        BY <2>9 DEF UnwindOther, context
      <3>2. Running'
        BY <3>1, InsideRuns DEF Running
      <3> QED
        BY <3>1, <3>2, PopOuterStep
    <2>10. CASE ReturnInner
      BY <2>10, PopInnerStep DEF ReturnInner
    <2>11. CASE Commit
      <3>1. ~Outside /\ Top = "outer" /\ frames' = Pop /\ ~Running' /\ escaped' = escaped
        BY <2>11 DEF Commit, Committed, end_transaction, Running, history
      <3> QED
        BY <3>1, OuterNotEscaped, PopOuterStep
    <2>13. ASSUME NEW k \in {"std", "other"}, CommitThrows(k)
           PROVE  RunningInside' /\ StackInv'
      <3>1. ~Outside /\ Top = "outer" /\ frames' = Pop /\ ~Running' /\ escaped' = escaped
        BY <2>13 DEF CommitThrows, Committed, end_transaction, Running, history
      <3> QED
        BY <3>1, OuterNotEscaped, PopOuterStep
    <2>12. CASE Retry
      <3>1. /\ ~Outside /\ Running' /\ staged' = mine'
            /\ UNCHANGED <<frames, escaped, saved, entry>>
        BY <2>12 DEF Retry, start_transaction, Running, stack
      <3> QED
        BY <3>1, InsideRuns, InPlaceStep
    <2> QED
      BY <1>2, <2>1, <2>2, <2>4, <2>5, <2>6, <2>7, <2>8, <2>9, <2>10, <2>11,
         <2>12, <2>13 DEF Next
  <1> QED
    BY <1>1, <1>2, TypeStep DEF IInv

\* Before the first call.
LEMMA Start ==
  ASSUME Init
  PROVE  IInv
  <1> USE ManagerAssumption
  <1>1. TypeOK
    <2>1. frames \in Seq({"outer", "inner"})
      BY DEF Init
    <2>2. DOMAIN saved = {}
      <3>1. saved = << >> /\ DOMAIN << >> = 1 .. 0
        BY DEF Init
      <3> QED
        BY <3>1
    <2>3. args \in [Arg -> Val] /\ entry \in [Arg -> Val]
      BY DEF Init
    <2>4. calls \in 0 .. MaxCalls /\ tries \in 0 .. MaxTries
      BY DEF Init
    <2>5. mem \in Val /\ escaped \in BOOLEAN
      BY DEF Init
    <2>6. DOMAIN saved \subseteq Arg
      BY <2>2
    <2>7. /\ state \in {"ABORT", "RUNNING", "ZOMBIE"}
          /\ staged \in Val \cup {NoVal}
          /\ exc \in {"none", "std", "other"}
          /\ mine \in Val \cup {NoVal}
      BY DEF Init
    <2> QED
      BY <2>1, <2>3, <2>4, <2>5, <2>6, <2>7 DEF TypeOK
  <1>2. RunningInside /\ StackInv
    BY DEF Init, RunningInside, StackInv, Running, Outside
  <1> QED
    BY <1>1, <1>2 DEF IInv

\* The manager says RUNNING exactly inside a call of atomically(), whatever
\* nests, throws, is caught or retried (TMan::in_transaction in state.h).
THEOREM Invariance == Spec => [](TypeOK /\ RunningInside)
  <1>1. Init => IInv
    BY Start
  <1>2. IInv /\ [Next]_vars => IInv'
    BY Step
  <1>3. IInv => TypeOK /\ RunningInside
    BY DEF IInv
  <1> QED
    BY <1>1, <1>2, <1>3, PTL DEF Spec

\* Only a try_commit() that succeeds changes memory, and it stores exactly what
\* the last attempt of the outermost call has assigned, whether the call then
\* returns or the copy of its result throws (the retry loop in stm.h).
THEOREM SuccessVisible == Spec => OnlySuccessVisible
  <1> DEFINE A == mem' # mem \/ (Len(frames) = 1 /\ frames' = << >> /\ exc = "none" /\ ~escaped)
                    => /\ Len(frames) = 1 /\ frames' = << >> /\ exc = "none"
                       /\ mem' = IF mine = NoVal THEN mem ELSE mine
  <1>1. Init => IInv
    BY Start
  <1>2. IInv /\ [Next]_vars => IInv'
    BY Step
  <1>3. IInv /\ [Next]_vars => [A]_vars
    <2> SUFFICES ASSUME IInv, Next
                 PROVE  A
      BY DEF vars
    <2>1. CASE Committed
      <3>1. frames # << >> /\ Len(frames) = 1 /\ frames[1] = "outer"
        BY <2>1, OuterAtBottom DEF Committed
      <3>2. frames' = << >>
        BY <2>1, PopInv DEF Committed
      <3>3. staged = mine
        BY <3>1 DEF IInv, StackInv
      <3> QED
        BY <2>1, <3>1, <3>2, <3>3 DEF Committed
    <2>2. CASE mem' = mem /\ ~(Len(frames) = 1 /\ frames' = << >> /\ exc = "none" /\ ~escaped)
      BY <2>2
    <2>3. ASSUME ~Committed
          PROVE  mem' = mem
      BY <2>3 DEF Next, Commit, CommitThrows, Call, Assign, Modify, Throw, Catch, UnwindInner, UnwindStd,
                  UnwindOther, ReturnInner, Retry
    <2>4. ASSUME ~Committed, Len(frames) = 1, frames' = << >>, exc = "none"
          PROVE  escaped
      <3>1. frames \in Seq(Frame) /\ frames # << >> /\ frames' # frames
        <4>1. frames \in Seq(Frame)
          BY DEF IInv, TypeOK, Frame
        <4>2. Len(<< >>) = 0
          OBVIOUS
        <4>3. frames # << >>
          BY <2>4, <4>2
        <4> QED
          BY <2>4, <4>1, <4>3
      <3>2. ~\E S \in SUBSET Arg : Call(S)
        BY <2>4, <3>1, PushLemma DEF Call, Frame
      <3>3. ReturnInner
        BY <2>4, <3>1, <3>2 DEF Next, Assign, Modify, Throw, Catch, UnwindInner,
           UnwindStd, UnwindOther, Commit, CommitThrows, Retry, stack
      <3>4. frames[1] = "inner"
        BY <2>4, <3>3 DEF ReturnInner, Top
      <3> QED
        BY <3>1, <3>4 DEF IInv, RunningInside, Outside
    <2> QED
      BY <2>1, <2>2, <2>3, <2>4
  <1> QED
    BY <1>1, <1>2, <1>3, PTL DEF Spec, OnlySuccessVisible

\* restore_args() gives a failed attempt's arguments their first values back,
\* for every number of attempts and every nesting (stm.h).
THEOREM ArgumentsRestored == Spec => ArgsRestored
  <1> DEFINE A == tries' > tries => \A a \in DOMAIN saved : args'[a] = entry[a]
  <1>1. Init => IInv
    BY Start
  <1>2. IInv /\ [Next]_vars => IInv'
    BY Step
  <1>3. IInv /\ [Next]_vars => [A]_vars
    <2> SUFFICES ASSUME IInv, Next, tries' > tries
                 PROVE  \A a \in DOMAIN saved : args'[a] = entry[a]
      BY DEF vars
    <2>1. tries \in Nat /\ DOMAIN saved \subseteq Arg
      BY ManagerAssumption DEF IInv, TypeOK
    <2>2. Retry
      BY <2>1 DEF Next, Call, Assign, Modify, Throw, Catch, UnwindInner, UnwindStd,
                  UnwindOther, ReturnInner, Commit, CommitThrows, Committed
    <2>3. frames # << >> /\ frames[1] = "outer"
      BY <2>2, OuterAtBottom DEF Retry
    <2>4. \A a \in DOMAIN saved : saved[a] = entry[a]
      BY <2>3 DEF IInv, StackInv
    <2> QED
      BY <2>1, <2>2, <2>4 DEF Retry, RestoreArgs
  <1> QED
    BY <1>1, <1>2, <1>3, PTL DEF Spec, ArgsRestored

\* assert_in_transaction() keeps accesses made outside every call out of the
\* log, after any sequence of calls, retries and std::exceptions (state.h).
THEOREM OutsideRejected == Spec => OutsideAccessRejected
  <1> DEFINE A == Outside /\ ~escaped /\ staged' # staged => staged' = NoVal
  <1>1. Init => IInv
    BY Start
  <1>2. IInv /\ [Next]_vars => IInv'
    BY Step
  <1>3. IInv /\ [Next]_vars => [A]_vars
    <2> SUFFICES ASSUME IInv, Next, Outside, ~escaped, staged' # staged
                 PROVE  staged' = NoVal
      BY DEF vars
    <2>1. ~Running
      BY DEF IInv, RunningInside
    <2>2. \/ \E S \in SUBSET Arg : Call(S)
          \/ \E v \in Val : Assign(v)
      BY DEF Next, Modify, Throw, Catch, UnwindInner, UnwindStd, UnwindOther,
             ReturnInner, Commit, CommitThrows, Committed, Retry, context
    <2>3. CASE \E S \in SUBSET Arg : Call(S)
      BY <2>1, <2>3 DEF Call, start_transaction
    <2>4. CASE \E v \in Val : Assign(v)
      BY <2>1, <2>4 DEF Assign, end_transaction
    <2> QED
      BY <2>2, <2>3, <2>4
  <1> QED
    BY <1>1, <1>2, <1>3, PTL DEF Spec, OutsideAccessRejected

\* The type of every variable, at any depth of nesting.
THEOREM TypeCorrect == Spec => []TypeOK
  <1>1. TypeOK /\ RunningInside => TypeOK
    OBVIOUS
  <1> QED
    BY <1>1, Invariance, PTL
=============================================================================
