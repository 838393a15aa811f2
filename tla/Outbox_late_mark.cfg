SPECIFICATION Spec
CONSTANTS
  NumRows = 2
  SourceOf <- OneSource2
  KeyOf <- KeysAa
  NoKey = NoKey
  k1 = k1
  s1 = s1
  Workers = {w1, w2}
  Policy = "PerKeyHeadOfLine"
  BatchSize = 2
  MaxAttempts = 2
  MaxCrashes = 0
  Serialized = TRUE
  Timely = FALSE
PROPERTIES
  LateMarkSparesReclaimed
