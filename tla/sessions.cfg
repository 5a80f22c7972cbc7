SPECIFICATION FairSpec
CONSTANTS
  r1 = r1
  r2 = r2
  b1 = b1
  Requests = {r1, r2}
  Browsers = {b1}
  MaxTokens = 2
  TokenTTL = 3
  RefreshThreshold = 2
  CacheTTL = 2
  MaxLag = 1
  Outages = TRUE
  LostAnswers = TRUE
INVARIANTS TypeOK StaleAcceptanceBounded OneTokenUnlessRaced RotatesUncachedToken
PROPERTIES ImplementsTokenLife EveryTokenDies
