SPECIFICATION Spec
CONSTANTS
  Records <- SomeRecords
  NewLabels <- SomeNew
  OwnerTokens <- SomeTokens
  Spellings <- SomeSpellings
  OwnerPrefixes <- SomePrefixes
  Rest <- SomeRest
  ExplicitTargets <- SomeExplicit
  ReservedTargets <- SomeReserved
  MaxRecordEdits = 4
  Inventoried = {"mapped-consequences", "application-owned-obligations"}
  Parts = {"durableState", "continuations"}
  Observed = {"nothing", "x", "y"}
  GoodInventory <- ValidInventory
  GoodReport <- ValidReport
  OtherInventories <- VariedInventories
  OtherReports <- VariedReports
  MaxVaried = 2
  Digests = {"archive", "baseline", "patch", "candidate", "harness", "report"}
  AbsolutePaths = {"/abs"}
  GoodManifest <- ValidManifest
  GoodTree <- SomeTree
  OtherManifests <- VariedManifests
  MaxRevised = 3
  TypeNames = {"PreparedMove"}
  PreparedTypes = {"PreparedMove"}
  Protected <- SomeProtected
  LanguageModule = "GeneratedHaskellLanguage"
  GoodPackages <- SomePackages
  OtherPackages <- VariedPackages
  MaxPackageEdits = 2
  Candidates <- SomeWorkspaces
  PoolSize = 2
  LookupAttempts = 2
  Packages = {"keiro", "keiro-core"}
  Current = 4
  Plans <- SomePlans
  Attempts = 3
  Deadline = 2
  Reports <- SomeReports
  FixedArrival = {"fixed-arrival"}
  Sustained = {"sustained"}
  Pairs = 5
  PreflightSamples = 2
INVARIANTS
  
  ReplaySound
  MappingSound
  
  PreflightSound
  ConsumerSound
  ComparisonSound
CHECK_DEADLOCK FALSE
