SPECIFICATION Spec
CHECK_DEADLOCK FALSE
CONSTANTS
  Thread = {t1, t2}
  Kinds = {"bounded"}
  Node = {n1, n2, n3, n4, n5}
  head = head
  tail = tail
  none = none
  Key = {1, 2}
  Val = {1, 2}
  Capacity = 2
  MaxCalls = 3
PROPERTY RingAnswersExact
