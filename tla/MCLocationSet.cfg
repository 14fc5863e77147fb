\* Three addresses, two values, logs of up to four calls, allocations that
\* may fail.
SPECIFICATION Spec
CONSTANTS
  Addr = {1, 2, 3}
  Val = {v1, v2}
  NoVal = NoVal
  AllocMayFail = TRUE
  MaxOps = 4
INVARIANTS TypeOK LogComplete ReadOwnWrites ObjectsOwned
