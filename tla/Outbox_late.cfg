SPECIFICATION FairSpec
CONSTANTS
  NumRows = 2
  SourceOf <- OneSource2
  KeyOf <- KeysAa
  NoKey = NoKey
  k1 = k1
  s1 = s1
  Workers = {w1, w2}
  Policy = "PerKeyHeadOfLine"
  BatchSize = 2
  MaxAttempts = 2
  MaxCrashes = 1
  Serialized = TRUE
  Timely = FALSE
INVARIANTS
  InOrderDelivery
  
PROPERTIES
  TerminalIsFinal
  EverySettled
