\* Bytes of two bits, up to four elements of six to nine kinds, four shapes of
\* keys, each branch at small thresholds.
SPECIFICATION Spec
CONSTANTS
  Radix = 4
  Cases <- MCCases
  MaxLen = 4
  Thresholds <- MCThresholds
  MaxPasses = 8
INVARIANTS KeepsElements PartitionsRespected SortedAtReturn
PROPERTIES Returns
