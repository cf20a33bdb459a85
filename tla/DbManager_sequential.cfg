SPECIFICATION DbSpec
CONSTANTS
  Databases <- databaseSet
  Caller = {a, b}
  Client = {k1, k2, k3}
  NoClient = NoClient
  ClosedClient = ClosedClient
  EmptyingAllowed = TRUE
  Overlap = FALSE
INVARIANTS
  DbTypeOK
  PassOwnsItsPrefix
  NoOrphanedClient
  FlagFollowsLastDb
PROPERTIES
  ConnectNeverReplaces
