CONSTANTS
  Keys = {k1}
  Windows = {"daily", "weekly"}
  Length <- MCLength
  LastDay = 2
  Retention = 2
  MaxCalls = 2
  MaxRollbacks = 0
  MaxDeletes = 1
  Failures = {"history", "live", "reset", "reset.sync"}
  None = None
SPECIFICATION FairSpec
INVARIANT NoInheritedUsage
PROPERTIES EventuallySaved ClosedDayReachesHistory
