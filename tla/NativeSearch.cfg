SPECIFICATION Spec
CONSTANTS
  a = a
  b = b
  x = x
  Channels = {a, b}
  Models = {x}
  ConfigKeys = {b}
  Listed = {b}
  Asked <- MCAsked
  HistoryLimit = 1
  NoList = NoList
  Gone = Gone
  None = None
  Layouts <- MCLayouts
  DefaultSettings <- MCDefault
  Settings <- MCSettings
  Answers <- MCAnswers
  ProbeConcurrency = 1
  PanelEdits = {"include","exclude","disable","enable","remove"}
  Budgets <- MCBudgets
INVARIANTS  OffIsQuiet
   
