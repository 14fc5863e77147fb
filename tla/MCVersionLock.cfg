\* A lock-table entry, or the global clock, used by three threads.
SPECIFICATION Spec
CONSTANTS
  Thread = {t1, t2, t3}
  NoThread = NoThread
  MaxVersion = 2
SYMMETRY ThreadSymmetry
INVARIANTS TypeOK BitTellsOwner
PROPERTIES AtomicOperations
