SPECIFICATION StoreSpec
CONSTANTS
  a = a  p = p
  Ids = {a}
  Providers = {p}
  Offers <- MCOffers
  Slots = {auto}
  Policies <- MCPolicies
  ResetDelays = {1}
  MaxTime = 1
  MaxFailures = 1
  None = None
  NoSnapshot = NoSnapshot
  server = server  cli = cli  catalog = catalog  requests = requests
  cooldown = cooldown  tier = tier  cost = cost
  Openers = {server, cli}
  Server = server
  Latest <- MCLatest
  Tables <- MCTables
  Columns <- MCColumns
  Creates <- MCCreates
  Ensures <- MCEnsures
  OldDatabases <- MCOldDatabases
  NoColumn = NoColumn
INVARIANTS SuspicionSurvivesRestart SchemaComplete
