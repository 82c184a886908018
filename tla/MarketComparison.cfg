SPECIFICATION Spec
CONSTANTS
  Symbols = {base, quote}
  Requests = {r1, r2}
  TTL = 1
  HttpTimeout = 1
  MaxTime = 3
  MaxChanges = 1
  PriceStale = 1
  Absent = Absent
  Unpriced = Unpriced
  Undated = Undated
  None = None
SYMMETRY Symmetry
INVARIANTS
  LoadedTokensStaySupported
  PriceOnlyIsFresh
PROPERTY ListIsRecent
