SPECIFICATION Spec
CONSTANTS
  Node = {"remediate", "notify", "verify"}
  Edge <- TailEdge
  Sink = "verify"
  Backend = {"notify", "verify"}
  Thread = {t1, t2}
  MaxAttempt = 2
  MaxInterrupt = 0
  Reposts = FALSE
SYMMETRY ThreadSymmetry
PROPERTIES
  FreshAuthority
CHECK_DEADLOCK FALSE
