CONSTANTS
  ch1 = ch1
  ch2 = ch2
  Instances = {old, new}
  Channels = {ch1, ch2}
  None = None
  DefaultSettings <- MCDefault
  Requests <- MCRequests
  Budgets <- MCBudgets
SPECIFICATION FairSpec
INVARIANTS SettingsAreSaved RoutesToProbed
PROPERTIES  ReadOnlyEnds
