SPECIFICATION RecoverySpec
CONSTANTS
  Databases <- databaseSet
  Caller = {a}
  Client = {k1, k2}
  NoClient = NoClient
  ClosedClient = ClosedClient
  EmptyingAllowed = FALSE
  Overlap = FALSE
  Config = {original, changed, broken}
  ValidConfig = {original, changed}
  InitialConfig = original
  NoConfig = NoConfig
  MaxRequests = 1
INVARIANTS
  AppTypeOK
  ServerTracksLastDb
  ServerIsWhereExpected
  ReportIsTruthful
  ServesCurrentConfig
PROPERTIES
  RefinesLifecycle
  Recovers
  WedgedForGood
