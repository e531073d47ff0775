SPECIFICATION BridgeFairSpec
CONSTANTS
  a = a
  Ids = {a}
  Urls <- MCUrls
  Tokens <- MCTokens
  Envs = {}
  EnvSet = {}
  Trust = {}
  BadTrust = {}
  Passwords = {"p1", "p2"}
  EnvDisplay = FALSE
  Mock = FALSE
  Clients = {"admin"}
  Operations <- MCOperations
  Installed <- MCInstalled
  TickSeconds = 10
  MaxCollect = 1
  SlowestPoll = 2
  Horizon = 5
  EnvAdmin = FALSE
INVARIANTS BridgeTypeOK PromisedTokensServed ShowsConfigured
PROPERTIES ConfiguredShown
