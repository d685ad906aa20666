SPECIFICATION Spec
CONSTANTS
  Thread = {t1, t2}
  Profile = "good"
  MaxTask = 2
  MaxRun = 2
  MaxLease = 2
  MaxApproval = 1
INVARIANTS
  
  
  SlotIsRenewed
  EndedTaskHoldsNothing
  SwitchLeavesNothing
SYMMETRY RequestSymmetry
CHECK_DEADLOCK FALSE
