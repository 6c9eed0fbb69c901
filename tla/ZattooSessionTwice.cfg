CONSTANTS
  MaxTroubles = 2
  VdrRuns = TRUE
SPECIFICATION Spec
INVARIANTS
  DeletedOnce
CHECK_DEADLOCK FALSE
