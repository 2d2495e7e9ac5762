SPECIFICATION Spec
CONSTANTS
  t1 = t1
  t2 = t2
  k1 = k1
  k2 = k2
  Threads = {t1, t2}
  Importing = {t1}
  Bound = {t1}
  Tokens = {k1, k2}
  NoToken = NoToken
  Steps <- MCSteps
  TokenRetries = 1
  Debounce = 1
  MaxTime = 2
INVARIANT TypeOK
INVARIANT OneClearPerWindow
INVARIANT RetryIsOfAnother
PROPERTY ExpiryDropsOnlyTheExpired
CHECK_DEADLOCK FALSE
SYMMETRY MCTokens
