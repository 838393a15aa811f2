SPECIFICATION Spec
CONSTANTS
  Length = 2
  Body <- SleepBody
  LastGen = 0
  Workers = {w1}
  Direct = {d1}
  MaxAttempts = 1
  Snapshotting = FALSE
  Timely = TRUE
  MaxCrashes = 0
  MaxInterventions = 1
INVARIANTS
  SleepHasTimer
