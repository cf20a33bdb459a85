SPECIFICATION RequestSpec
CONSTANTS
  Databases <- threeDatabases
  Caller = {lifecycle}
  Client = {k1}
  NoClient = NoClient
  ClosedClient = ClosedClient
  EmptyingAllowed = FALSE
  Overlap = FALSE
  WriteOrder <- writeOrder
  WeakReads <- dynamoOnly
  CaughtReads <- dynamoOnly
  Request = {r1, r2}
  UnknownId = UnknownId
  Counter <- counters
INVARIANTS
  StoredIsPrefix
  ToldMeansStoredEverywhere
  ToldCounterIsFound
  SuccessMeansAllPerformed
PROPERTIES
  EveryRequestIsAnswered
