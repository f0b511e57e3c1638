SPECIFICATION MediaSpec
CONSTANTS
  Ids = {1, 2}
  NoDevice = 0
  StreamIds = {1, 2}
  TypedLists <- MCTypedLists
  Timeout = 1
  HeadPieces = 2
  MaxBody = 1
  MaxClicks = 3
INVARIANTS VerdictsAreHeard CheckIsBounded
PROPERTIES EveryStreamIsAnswered LiveUpdatesGoOn
