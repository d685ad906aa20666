CONSTANTS
  Thread = {t1, t2}
  MaxConn = 2
  MaxRun = 3
  MaxFault = 1
SPECIFICATION Spec
INVARIANTS EvidenceCannotAbort RestartResumes SomeoneReady SomeoneProceeds
