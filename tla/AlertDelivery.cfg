SPECIFICATION Spec
CONSTANTS
  Checks = {c1, c2}
  Persist = 2
  MaxAttempts = 2
  Batch = 1
  MaxStreak = 3
  MaxAlerts = 2
  MaxFaults = 1
INVARIANTS NoAlertIsLost GivenUpAfterAllAttempts RowsAreDistinct
PROPERTY EveryAlertSettles
