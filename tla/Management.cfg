CONSTANTS
  Admins = {adm1, adm2}
  KeyIds = {k1, k2}
  Secrets = {s1, s2, s3}
  Prices = {p1, p2}
  None = None
  MaxWrites = 4
  MaxCrashes = 1
  Failures = {"state", "state.sync"}
  c1 = c1
  c2 = c2
  edits = edits
  RuleIds = {r1, r2, r3}
  Channels = {c1, c2}
  NoId = NoId
  NoField = NoField
  NoValue = NoValue
  EditPaths = {edits}
  MaxRules = 2
  MaxPaths = 1
  Operators = {o1, o2}
  Drafts <- MCDrafts
  Attempts = {t}
  Requests <- MCRequests
  RuleFailures = {"rules", "rules.sync"}
  Shares <- MCShares
SPECIFICATION ManagementSpec
INVARIANTS SecretsAreUnique FileFollowsMemory PeriodsFollowKeys GoneStaysGone RulesAreKept HitsAreCounted
