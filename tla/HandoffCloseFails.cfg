CONSTANTS
  Instances = {old, new}
  Records = {r1, r2}
  MaxJournals = 2
  MaxReplacements = 2
  MaxCrashes = 1
  Failures = {"flush"}
  None = None
SPECIFICATION Spec
INVARIANT BilledAtMostOnce
