SPECIFICATION Spec
CONSTANTS
  Controllers = {d1, d2}
  Patterns = {p1, p2}
  None = None
  MaxAttempts = 2
  LockoutWindow = 1
  UnlockWindow = 1
  ConfirmWindow = 2
  MaxCalls = 3
  MaxTime = 2
SYMMETRY Symmetry
INVARIANTS WritesWereConfirmed WritesAreAudited AcknowledgedWasWritten
PROPERTY SetsUnderWriteMode
