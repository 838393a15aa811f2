SPECIFICATION FairSpec
CONSTANTS
  Length = 2
  Body <- SleepBody
  LastGen = 1
  Workers = {w1}
  Direct = {d1}
  MaxAttempts = 1
  Snapshotting = TRUE
  Timely = TRUE
  MaxCrashes = 1
  MaxInterventions = 0
PROPERTIES
  EveryEnds
