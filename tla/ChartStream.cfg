SPECIFICATION FairSpec
CONSTANTS
  Clients = {c1, c2}
  Symbols = {btc}
  Handlers = {h1, h2}
  Sockets = {s1, s2}
  Timers = {t1, t2}
  None = None
INVARIANTS
  RefCountIsExact
  NoSubscriptionLeaks
  FeedIsNotLost
  OneUpstream
PROPERTY MidsKeepComing
\* Nothing moves when all sockets and timers of the instance are in use.
CHECK_DEADLOCK FALSE
