CONSTANTS
  Instances = {old, new}
  Records = {r1}
  MaxJournals = 2
  MaxReplacements = 2
  MaxCrashes = 1
  Failures = {"flush", "partial", "rename", "open", "append", "load"}
  None = None
SPECIFICATION FairSpec
 
PROPERTIES ReplacementEnds
