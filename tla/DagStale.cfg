SPECIFICATION Spec
CONSTANTS
  Node = {"remediate", "verify"}
  Edge <- PairEdge
  Sink = "verify"
  Backend = {"verify"}
  Thread = {t1, t2}
  MaxAttempt = 2
  MaxInterrupt = 0
  Reposts = FALSE
PROPERTIES
  SupersededNeverSettles
CHECK_DEADLOCK FALSE
