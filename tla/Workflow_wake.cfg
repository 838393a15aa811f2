SPECIFICATION Spec
CONSTANTS
  Length = 3
  Body <- AwaitBody
  LastGen = 0
  Workers = {w1, w2}
  Direct = {d1}
  MaxAttempts = 1
  Snapshotting = TRUE
  Timely = FALSE
  MaxCrashes = 0
  MaxInterventions = 1
INVARIANTS
  TypeOK
  
  NoWakeLost
  OneLateAction
SYMMETRY WorkerSymmetry
