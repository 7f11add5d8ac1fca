CONSTANTS
  Instances = {old, new}
  Credentials = {c}
  Channels = {x, y, z}
  None = None
  LastSlot = 2
  Limit = 2
  MaxRecords = 2
  MaxRounds = 2
  MaxEdits = 1
  MaxReplacements = 1
  MaxRestarts = 1
  Failures = {"save", "sync"}
  AuthIndexes = {x, y}
  ModelEfforts = {m}
  Never = Never
  DayLength = 4
  Retention = 8
  AnswerRetention = 5
  MaxAnswers = 4
  MaxRuns = 2
SPECIFICATION MCSpec
INVARIANTS PageIsRight RecordsAreSaved ClosedIsQuiet InspectionHolds
PROPERTIES RecordsStay
