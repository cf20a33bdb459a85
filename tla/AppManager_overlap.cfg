SPECIFICATION AppSpec
CONSTANTS
  Databases <- firstTwoDatabases
  Caller = {a, b}
  Client = {k1, k2, k3}
  NoClient = NoClient
  ClosedClient = ClosedClient
  EmptyingAllowed = FALSE
  Overlap = TRUE
  Config = {original, broken}
  ValidConfig = {original}
  InitialConfig = original
  NoConfig = NoConfig
  MaxRequests = 1
INVARIANTS
  ListeningFlagIsTruthful
PROPERTIES
  EveryOperationReturns
