SPECIFICATION Spec
CONSTANTS
  Effect = {e1, e2}
  Mandate = {e1}
  NoEffect = NoEffect
  Thread = {t1, t2}
  MaxAttempt = 2
  MaxError = 1
  MaxOutside = 1
  MaxRestart = 1
INVARIANTS
  AppliedOnce ReplayIsTrue
PROPERTIES
  LedgerIsKept
