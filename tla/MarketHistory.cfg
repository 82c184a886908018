SPECIFICATION Spec
CONSTANTS
  Fetches = {f1, f2}
  Tokens = {t1, t2}
  Pools = {p1}
  Limit = 2
  Window = 1
  HistoryTTL = 1
  ResolutionTTL = 2
  HttpTimeout = 1
  MaxTime = 3
  None = None
SYMMETRY Symmetry
INVARIANTS
  RateLimitHolds
  HistoryIsFresh
PROPERTY KnownPoolsStand
