SPECIFICATION Spec
CONSTANTS
  NumRows = 3
  SourceOf <- OneSource
  KeyOf <- KeysAna
  NoKey = NoKey
  k1 = k1
  s1 = s1
  Workers = {w1, w2}
  Policy = "StopTheLine"
  BatchSize = 3
  MaxAttempts = 2
  MaxCrashes = 1
  Serialized = TRUE
  Timely = TRUE
INVARIANTS
  TypeOK
  GaplessRuns
  MarksAreAnswers
  DeadByOwnFaults
SYMMETRY WorkerSymmetry
