SPECIFICATION FairSpec
CONSTANTS
  a = a
  b = b
  Keys = {a, b}
  Consumers = {c1, c2}
  Modes <- Sound
INVARIANTS
  TypeOK
  RunsOnce
  CompletedHasRun
  OwnersAckSettled
  FailuresWithinCeiling
PROPERTIES
  KeepsPromise
  EverySettled
