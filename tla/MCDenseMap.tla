----------------------------- MODULE MCDenseMap -----------------------------
(* Model-checking instance of the hash map.                                *)
EXTENDS DenseMap

CONSTANTS k1, k2, k3, k4, k5, v1, v2

MCContainers ==
  { << >>,
    <<<<k3, v1>>, <<k3, v2>>, <<k4, v1>>, <<k3, v1>>>>,
    <<<<k4, v1>>, <<k2, v2>>, <<k1, v1>>>>,
    <<<<k2, v1>>, <<k4, v1>>, <<k5, v1>>, <<k1, v1>>>>,
    <<<<k1, v1>>, <<k2, v1>>, <<k3, v1>>, <<k4, v1>>, <<k5, v1>>>> }
=============================================================================
