SPECIFICATION Spec
CONSTANTS
  Ids = {1, 2}
  NoDevice = 0
  V4 = {1}
  V6 = {5}
  HostNames = {9}
  StreamSets = {"none", "cam"}
  NoStreams = "none"
  TypedLists <- MCTypedLists
  MaxEdits = 3
INVARIANTS RowsFollow PagesFollow StatusesAgree
PROPERTY EditsTouchOne
