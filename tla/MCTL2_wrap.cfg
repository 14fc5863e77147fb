\* Addresses 0 and 8 are one turn of the two-lock table apart and share a
\* stripe, address 4 lies between them: address order is not lock order.
SPECIFICATION Spec
CONSTANTS
  Thread = {t1, t2}
  Addr = {0, 4, 8}
  Val = {0, 1}
  InitVal = 0
  NoVal = NoVal
  Trivial = {4}
  LockTableSize = 2
  AllocMayFail = FALSE
  MaxOps = 2
  MaxTxns = 1
INVARIANTS NoLockCycle
