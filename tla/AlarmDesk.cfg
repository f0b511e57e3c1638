SPECIFICATION AlarmSpec
CONSTANTS
  Kinds = {snapshots, commands}
  Devices = {d1}
  Threshold <- StreakOf
  Retention <- KeptFor
  EventRetention = 1
  Limit = 2
  Windows = {1, 9}
  SilenceMinutes = {1}
  Pasts <- Before
  PastSilences = {1}
  MaxLag = 1
  MaxNow = 3
  MaxActions = 3
SYMMETRY Alike
CHECK_DEADLOCK FALSE
INVARIANTS HistoryExplains AnswersFit
PROPERTIES SilencesLast CleanupChangesNoAlarm
