SPECIFICATION FleetSpec
CONSTANTS
  Ids = {a, b}
  NoDevice = NoDevice
  SingleDevice = SingleDevice
  LiveLoops = {l1, l2}
  FleetLoops = {f1, f2}
  MaxProfiles = 1
  MaxClicks = 4
CONSTRAINT LastTurnsOff
CHECK_DEADLOCK FALSE
INVARIANTS FlagsAreTrue
PROPERTIES TopBarAgreesWithCards LateAnswersAreDropped LoopsEnd LiveLoopFollows
