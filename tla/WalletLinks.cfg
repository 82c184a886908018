SPECIFICATION Spec
CONSTANTS
  Wallets = {w1, w2, w3}
  Calls = {t1, t2}
  NoCall = NoCall
  NoWallet = NoWallet
SYMMETRY Symmetry
PROPERTIES
  LoneCallRepairsPrimary
  ImplementsPrimaryWallet
