SPECIFICATION FairSpec
CONSTANTS
  Adapters = {"nitro", "ws", "eira"}
  MaxBackoff = 30
  LimitWait = 45
  RetryAfter = {0, 3, 60}
  NoHeader = NoHeader
  DialTimeout = 10
  HeadTimeout = 15
  HeadLimit = 1
  MaxFailures = 6
INVARIANTS RateLimitHonoured BackoffFollowsFailures
PROPERTIES DialsApart DialEnds
