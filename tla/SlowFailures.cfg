CONSTANTS
  c1 = c1
  c2 = c2
  c3 = c3
  k1 = k1
  k2 = k2
  Callers = {c1, c2}
  Keys = {k1}
  None = None
  Threshold = 3
  InitialBackoff = 3
  MaxBackoff = 12
  MaxStreak = 5
  MaxTime = 4
SPECIFICATION Spec
PROPERTIES
  RepeatedFailuresEnterBackoff
