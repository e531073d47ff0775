SPECIFICATION UncrashedSpec
CONSTANTS
  a = a
  b = b
  Ids = {a, b}
  Urls <- MCUrls
  Tokens <- MCTokens
  Envs = {"PVE"}
  EnvSet = {"PVE"}
  Trust <- MCTrust
  BadTrust = {"torn"}
  Passwords = {"p1"}
  EnvDisplay = TRUE
  Mock = FALSE
  Clients = {1, 2}
  Operations <- FewOps
  Installed <- FreshOnly
INVARIANT AnswersKept
