SPECIFICATION FairSpec
CONSTANTS
  Sources = {1}
  Nodes = {1}
  Home <- OneHome
  Storages = {1}
  Guests = {1}
  NodeWorlds <- MCNodeWorlds
  SourceWorlds <- MCSourceWorlds
  Texts <- MCTexts
  Contained <- MCContained
  MemWarn = 1
  MemCrit = 2
  StoWarn = 1
  StoCrit = 2
  Refusals = {403}
  MaxCapabilities = 16
  MaxDetail = 3
  MaxFailures = 1
  MaxMoves = 1
INVARIANTS
  TypeOK
  NothingMissed
  NoFalseAlarm
  ProblemsFirst
PROPERTIES
  CollectEnds
