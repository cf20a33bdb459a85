SPECIFICATION Spec
CONSTANTS
  Engines <- engines
  Migrator = {m1, m2}
  Known = {baseTable}
  Stray = {otherTable}
  Nobody = Nobody
  MaxFaults = 1
  MaxEmptyings = 1
INVARIANTS
  SuccessMeansMigrated
  TablesSurviveEmptying
  OnlyDynamoLosesRaces
  EmptiedMeansEmpty
PROPERTIES
  RerunConverges
  HalfMigratedForGood
