CONSTANTS
  c1 = c1
  c2 = c2
  c3 = c3
  k1 = k1
  k2 = k2
  Callers = {c1, c2, c3}
  Keys = {k1, k2}
  None = None
  Threshold = 1
  InitialBackoff = 1
  MaxBackoff = 2
  MaxStreak = 2
  MaxTime = 4
SPECIFICATION Spec
CONSTRAINT FewLater
INVARIANTS
  NoOrphanedJoiner
  ActiveCountExact
  AnswersAreHonest
PROPERTIES
  FailingDeviceIsLeftAlone
  ImplementsContract
  EveryCallReturns
