------------------------------ MODULE Override ------------------------------
(***************************************************************************)
(* Functions built point by point, as :> and @@ of the standard modules    *)
(* build them, with definitions that proofs can expand.                    *)
(***************************************************************************)

\* The function that maps x to v and has no other argument.
x :> v == [y \in {x} |-> v]

\* What f says where f is defined, and what g says elsewhere.
f @@ g ==
  [x \in DOMAIN f \cup DOMAIN g |-> IF x \in DOMAIN f THEN f[x] ELSE g[x]]
=============================================================================
