CONSTANTS
  Keys = {k1}
  Windows = {"daily"}
  Length <- MCLength
  LastDay = 4
  Retention = 3
  MaxCalls = 2
  MaxRollbacks = 1
  MaxDeletes = 0
  Failures = {"history", "history.sync", "live", "live.sync", "reset"}
  None = None
SPECIFICATION Spec
INVARIANTS FilesInStep SavedWhenClean NothingSavedIsLost
PROPERTY ClosedDaysFrozen
