SPECIFICATION ProjectSpec
CONSTANTS
  MaxRelease = 3
  Dev = Dev
  Binaries = {1, 3}
  Migrations <- MCMigrations
  WithoutOld = 2
  Nothing = Nothing
  Torn = Torn
  PinsByHand = {}
  RecipesByHand = {}
  MaxEdits = 0
  MaxInstalls = 1
  MaxFaults = 1
  Nouns <- MCNouns
  Reserved <- MCReserved
  Generators = {"g1", "g2"}
  MaxMigration = 3
  MaxActs = 3
  MaxFailures = 1
  Nil = Nothing
  Commands = {{"embedded"}}
  MaxSaves = 1
  Broken = {}
  MaxProbes = 3
INVARIANT RecipeIsLast
CHECK_DEADLOCK FALSE
