SPECIFICATION FairSpec
CONSTANTS
  MaxAttempt = 2
  MaxRequest = 2
  Thread = {t1}
  MaxRefusal = 0
  MaxRestart = 0
INVARIANTS
  HeldLeaseEnds ResetLeavesNothing
PROPERTIES
  NoLeaseReuse DeadSlotIsCleared
CHECK_DEADLOCK FALSE
