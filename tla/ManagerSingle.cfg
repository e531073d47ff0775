SPECIFICATION Spec
CONSTANTS
  a = a
  b = b
  Ids = {a, b}
  Urls <- MCUrls
  Tokens <- MCTokens
  Envs = {"PVE"}
  EnvSet = {"PVE"}
  Trust <- MCTrust
  BadTrust = {"torn"}
  Passwords = {"p1"}
  EnvDisplay = FALSE
  Mock = FALSE
  Clients = {1}
  Operations <- AllOps
  Installed <- MCInstalled
INVARIANTS
  TypeOK
  OneOperationAhead
  AnswersKept
  CollectorInStep
  OneDeletionRepairs
PROPERTIES
  TokensKept
  ManagerRefinement
