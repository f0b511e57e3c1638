SPECIFICATION Spec
CONSTANTS
  Phases = {9}
  Patterns = {p1, p2}
  Loops = {l}
  Callers = {c}
  None = None
  MaxChanges = 1
PROPERTIES ColoursWereSeen NothingIsDropped VerifiedWasRun
SYMMETRY Symmetry
