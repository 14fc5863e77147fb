\* Two threads, three addresses of which two share a stripe, trivial and
\* non-trivial types, allocations that may fail (so a thread may hang for
\* ever behind an orphaned lock).
SPECIFICATION Spec
CONSTANTS
  Thread = {t1, t2}
  Addr = {0, 2, 4}
  Val = {0, 1}
  InitVal = 0
  NoVal = NoVal
  Trivial = {0, 4}
  LockTableSize = 2
  AllocMayFail = TRUE
  MaxOps = 2
  MaxTxns = 1
SYMMETRY ThreadSymmetry
INVARIANTS TypeOK LockExclusion IndInv StaleReadsDetectable CommittedReadsCurrent
PROPERTIES VersionsGrow WritesExclusive Serializable
