\* Two threads, a heap of three nodes, two keys, four calls.
SPECIFICATION Spec
CONSTANTS
  Thread = {t1, t2}
  Node = {n1, n2, n3}
  Key = {k1, k2}
  Val = {v}
  none = none
  MaxCalls = 4
SYMMETRY Symmetry
INVARIANTS TypeOK ListIntact OneOwner
PROPERTIES ListLinearizable
