CONSTANTS
  Instances = {old, new}
  Records = {r1, r2}
  MaxJournals = 3
  MaxReplacements = 3
  MaxCrashes = 1
  Failures = {"rename", "open", "append", "load"}
  None = None
SPECIFICATION Spec
PROPERTIES BillsOnce SavedStaysSaved
