CONSTANTS
  None = None
  Matches = {"m1"}
  Keys = {"buy1"}
  Hashes = {"p1"}
  Reporters = {r1}
  Fits <- MCFits
  Settles <- MCSettles
  Reports <- BuyOnly
SPECIFICATION FairSpec
PROPERTY VerifiedPurchaseMovesMatch
CHECK_DEADLOCK FALSE
