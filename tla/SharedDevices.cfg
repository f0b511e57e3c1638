CONSTANTS
  k1 = k1
  k2 = k2
  a = a
  b = b
  c = c
  Sessions = {s1, s2}
  Keys = {k1, k2}
  Configs <- TwoConfigurations
  Devices = {d1, d2, d3}
  MaxSweeps = 1
  MaxOrphans = 1
  None = None
SPECIFICATION Spec
SYMMETRY Symmetry
INVARIANTS
  HandlesNameTheLoops
PROPERTIES
  LeavesSilently
  PollingSurvives
