SPECIFICATION FairSpec
CONSTANTS
  Node = {"remediate", "notify", "verify"}
  Edge <- TailEdge
  Sink = "verify"
  Backend = {"notify", "verify"}
  Thread = {t1}
  MaxAttempt = 2
  MaxInterrupt = 1
  Reposts = TRUE
INVARIANTS
  StartedOnEvidence
PROPERTIES
  AbandonedIsRecovered
