CONSTANTS
  None = None
  Users = {"s", "b"}
  Verified = {"s"}
  ListingIds = {1, 2}
  BidIds = {1, 2}
  Requests = {r1, r2}
  Offers <- MCOffers
  Orders <- MCOrders
  Patches <- AllPatches
  MaxTime = 2
  MaxMatches = 3
SPECIFICATION MCSpec
INVARIANTS
  TypeOK
  QuantityIdentity
  StatusTellsQuantity
  SoldIsMatched
  NoFillAborts
PROPERTIES
  TradeTermsHonoured
  PriceTimePriority
  ImplementsLedger
SYMMETRY RequestSymmetry
CHECK_DEADLOCK FALSE
