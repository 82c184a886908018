SPECIFICATION QuotesSpec
CONSTANTS
  Amount = 10
  QuotedAmounts = {0, 1, 6, 9, 15}
  Assets <- MCAssets
  Parties <- MCParties
  Tolerances = {0, 1000, 2000}
  MaxSlippage = 1000
  MaxQuotes = 2
  None = None
INVARIANTS
  ForeignRecipientsUseOneClick
  NoOfferIsLost
  NoNeedlessRefusal
  SlippageProtects
  EndpointsAgree
\* A call ends when it is answered.
CHECK_DEADLOCK FALSE
