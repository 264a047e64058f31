SPECIFICATION FairSpec
CONSTANTS
  Posts <- MCPosts
  Content <- MCContent
  OldKeys = {"k1"}
  NewKeys = {"k2"}
  AuthMode = "oidc"
  Configured = TRUE
  Pull = FALSE
  MaxLen = 1
  Count = 2
  MaxPasses = 2
  MaxCrashes = 1
  MaxErrors = 1
INVARIANTS SpawnsAccounted 
PROPERTIES Delivered  EveryEventSettles
CHECK_DEADLOCK FALSE
