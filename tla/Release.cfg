SPECIFICATION Spec
CONSTANTS
  Terminals = {t1, t2}
  Guards <- OneGuard
  Reviewed = "inbox"
  src = src
  docs = docs
  Sources = {src}
  Documents = {docs}
  UploadOrder <- InOrder
  Racing = FALSE
  MaxAge = 0
  None = None
  MaxChanges = 1
  MaxNow = 1
  MaxAttempts = 3
  MaxBuilds = 2
INVARIANTS
  ReleaseTypeOK
  LatestPassed
  RanOnItsSource
  GuardsAfterCorrectness
  
  
  
  
SYMMETRY TerminalSymmetry
