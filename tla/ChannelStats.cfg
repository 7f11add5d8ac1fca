CONSTANTS
  ch = ch
  Channels = {ch}
  Attempts = {a, b}
  ChannelOf <- MCChannelOf
  Callers = {u}
  Follower = Follower
  Instances = {i, j}
  None = None
  HoursKept = 2
  LastHour = 3
  StartsKept = 1
  MaxRecords = 3
  MaxRollbacks = 1
  MaxRestarts = 1
  MaxEdits = 1
  MaxHandoffs = 1
  Starts <- MCStarts
  Failures = {"stats", "stats.sync"}
SPECIFICATION Spec
INVARIANTS CountedOnce NothingForgotten
