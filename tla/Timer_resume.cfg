SPECIFICATION FairSpec
CONSTANTS
  Timers = {t1}
  Workers = {w1, w2}
  Sessions = {s1, s2}
  Ceiling = 2
  ResumeCeiling = 5
  Rescheduling = TRUE
  MaxCrashes = 2
INVARIANTS
  TypeOK
  FiresWithinCeiling
  LiveLeaseHolds
PROPERTIES
  SettledIsFinal
  EverySettled
