SPECIFICATION ProjectSpec
CONSTANTS
  MaxRelease = 3
  Dev = Dev
  Binaries = {1, 3, Dev}
  Migrations <- MCMigrations
  WithoutOld = 2
  Nothing = Nothing
  Torn = Torn
  PinsByHand <- MCPins
  RecipesByHand <- MCRecipes
  MaxEdits = 1
  MaxInstalls = 1
  MaxFaults = 1
  Nouns <- MCNouns
  Reserved <- MCReserved
  Generators = {"g1", "g2"}
  MaxMigration = 3
  MaxActs = 3
  MaxFailures = 1
  Nil = Nothing
  Commands = {{"stop-db"}, {"stop-db", "embedded"}, {"no-db", "embedded"}, {"embedded"}}
  MaxSaves = 1
  Broken = {}
  MaxProbes = 3
INVARIANTS
  SuccessPassesCheck
  UpgradeIsComplete
  SuccessMeansTested
  ChildrenHaveDatabase
  NoServerLeft
  FailureReported
PROPERTIES
  ApplicationOwned
  NothingIsLost
  GenerateOverwritesNothing
CHECK_DEADLOCK FALSE
