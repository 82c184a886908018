SPECIFICATION Spec
CONSTANTS
  Wallets = {w1}
  Requests = {r1, r2}
  Snapshots = {s1}
  TTL = 2
  MaxTime = 3
  MaxBalances = 1
SYMMETRY Symmetry
INVARIANTS
  BalancesAreFresh
  PortfolioIsFresh
  AsOfIsHonest
