\* Two threads, addresses that reach less than once around the lock table,
\* allocations that do not fail, weak fairness of every thread.
SPECIFICATION FairSpec
CONSTANTS
  Thread = {t1, t2}
  Addr = {0, 2, 4}
  Val = {0, 1}
  InitVal = 0
  NoVal = NoVal
  Trivial = {0, 4}
  LockTableSize = 2
  AllocMayFail = FALSE
  MaxOps = 2
  MaxTxns = 1
INVARIANTS NoOrphanLock NoLockCycle
PROPERTIES Termination
