SPECIFICATION FairSpec
CONSTANTS
  Node = {"investigate","remediate","notify","verify"}
  Edge <- FactoryEdge
  Sink = "verify"
  Backend = {"notify", "verify"}
  Thread = {t1}
  MaxAttempt = 2
  MaxInterrupt = 0
  Reposts = FALSE
INVARIANTS DependencyOrder AuthorityEndsWithAttempt TablesAgree
PROPERTIES AttemptsSucceed WorkflowIsKept RunSettles
CHECK_DEADLOCK FALSE
