------------------------------- MODULE TL2Inv -------------------------------
(***************************************************************************)
(* The inductive invariant of the core: what has to be known about locks,  *)
(* versions and logs for the properties of TL2Props to follow.             *)
(***************************************************************************)
EXTENDS TL2Props

\* Phases in which a thread's LockGuard may hold locks, and those between
\* the increment of the clock and the end of the write-back.
Guarding == {"lock", "validate", "commit", "move", "committed", "aborted"}
PostClock == {"validate", "commit", "move"}

\* m_locked is empty unless a LockGuard is alive, and holds one location per
\* stripe.
GuardInv ==
  \A t \in Thread :
    /\ pc[t] \notin Guarding => held[t] = {}
    /\ \A a, b \in held[t] : Index(a) = Index(b) => a = b

\* The LockGuard constructor has locked the stripes of the locations it has
\* passed; with the clock incremented, the stripe of every logged location is
\* locked, and only written locations are written back.
CoverInv ==
  \A t \in Thread :
    /\ pc[t] = "lock" =>
         \A a \in Locations(t) \ todo[t] : Index(a) \in HeldStripes(t)
    /\ pc[t] \in PostClock => \A a \in Locations(t) : Index(a) \in HeldStripes(t)
    /\ pc[t] \in WritingBack => todo[t] \subseteq Written(t)

\* No version is ahead of the clock, and none that a thread is about to
\* overwrite is ahead of its write version.
ClockInv ==
  /\ \A s \in Stripe : version[s] <= clock
  /\ \A t \in Thread :
       /\ rv[t] <= clock
       /\ wv[t] <= clock
       /\ pc[t] \in PostClock => \A s \in HeldStripes(t) : version[s] <= wv[t]

\* The addresses whose stripe t's body has found unlocked before loading.
Sampled(t) ==
  {a \in Addr : \/ seen[t][a] # {}
                \/ pc[t] \in {"load", "copy"} /\ cur[t] = a}

SampledInv ==
  \A t \in Thread :
    /\ Sampled(t) \subseteq reads[t]
    /\ pc[t] = "sample" => cur[t] \in reads[t]

\* Whoever overwrites what a body has sampled got the lock later, hence
\* incremented the clock later, hence has a write version beyond the body's
\* read version.
WriterInv ==
  \A t, u \in Thread :
    t # u /\ pc[t] \in Undecided /\ pc[u] \in PostClock =>
      \A a \in Sampled(t) : Index(a) \in HeldStripes(u) => wv[u] > rv[t]

\* Between set_version() and move() the stripe carries the write version.
MoveInv ==
  \A u \in Thread : pc[u] = "move" =>
    \A a \in Addr : NextLoc(u, a) => version[Index(a)] = wv[u]

\* What validation has accepted stays acceptable: its stripe is locked.
ValidateInv ==
  \A t \in Thread : pc[t] = "validate" =>
    \A a \in reads[t] \ todo[t] : ~Conflict(t, a)

\* The sorted log is locked upwards: every location whose stripe the
\* LockGuard constructor has locked lies before those still to visit.
OrderInv ==
  \A t \in Thread : pc[t] = "lock" =>
    \A a \in held[t], b \in todo[t] : a < b

\* mark_owner() has reached every location of the log that the constructor has
\* passed, those that share a stripe included, so that get_version() and
\* set_version() of validation and write-back never spin on the thread's own
\* lock.
OwnedInv ==
  \A t \in Thread :
    /\ pc[t] = "lock" => Locations(t) \ todo[t] \subseteq owner[t]
    /\ pc[t] \in PostClock => /\ Locations(t) \subseteq owner[t]
                              /\ todo[t] \subseteq Locations(t)

\* The inductive invariant.
IndInv ==
  /\ TypeOK
  /\ LockExclusion
  /\ GuardInv
  /\ CoverInv
  /\ ClockInv
  /\ SampledInv
  /\ WriterInv
  /\ MoveInv
  /\ ValidateInv
  /\ OrderInv
  /\ OwnedInv
  /\ StaleReadsDetectable
  /\ CommittedReadsCurrent
=============================================================================
