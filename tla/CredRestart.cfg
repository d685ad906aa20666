SPECIFICATION Spec
CONSTANTS
  MaxAttempt = 2
  MaxRequest = 1
  Thread = {t1, t2}
  MaxRefusal = 1
  MaxRestart = 1
INVARIANTS
  RevokedIsGone 
CHECK_DEADLOCK FALSE
