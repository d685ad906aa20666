CONSTANTS
  Attempt = {a1, a2}
  NoAttempt = NoAttempt
  Kind = {"task", "bad_issued", "denied"}
  MaxEvent = 3
  MaxRun = 2
  MaxFault = 1
  MaxRefresh = 1
SPECIFICATION FairSpec
INVARIANTS FindingsInOrder RiskIsDerivable WatchMatchesLease CurrentIsAccepted
 
CHECK_DEADLOCK FALSE
