SPECIFICATION FairSpec
CONSTANTS
  DefaultProfile = "bad"
  MaxTask = 3
  MaxRun = 2
  MaxTurn = 1
  MaxFault = 1
INVARIANTS
  PointerIsOpen
  AnnouncedIsCurrent
  ContextIsAccurate
  
PROPERTIES
  RemediationEnds
CHECK_DEADLOCK FALSE
