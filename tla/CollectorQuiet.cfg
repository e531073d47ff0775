SPECIFICATION Spec
CONSTANTS
  Sources = {1}
  Nodes = {1}
  Home <- OneHome
  Storages = {1}
  Guests = {1}
  NodeWorlds <- BadDisk
  SourceWorlds <- CephError
  Texts <- MCTexts
  Contained <- MCContained
  MemWarn = 1
  MemCrit = 2
  StoWarn = 1
  StoCrit = 2
  Refusals = {403}
  MaxCapabilities = 24
  MaxDetail = 3
  MaxFailures = 0
  MaxMoves = 0
INVARIANTS
  QuietMeansHealthy
