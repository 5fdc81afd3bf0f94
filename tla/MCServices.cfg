SPECIFICATION MCSpec
CONSTANTS
  None = None
  Nobody = Nobody
  NoOne = NoOne
  Anything = "any"
  Alice = Alice
  Bob = Bob
  Carol = Carol
  Accounts = {Alice, Bob}
  Admins = {Alice, Bob}
  TokenIds = {t1,t2,t3}
  ResetIds = {k1,k2}
  Expiring = {t1,k1}
  Requests = {r1,r2}
  MaxPassword = 2
  MaxTries = 3
  Tabs = {b1,b2}
  Users = {Alice,Bob}
  Addresses = {x}
  Holder <- HolderAlice
  Nonces = {n1,n2,n3}
  Calls = {c1,c2}
  Viewers = {Alice, Bob}
  Pages = {g1}
  Changes = {"match", "listing","bid","trade","wallet","unlink","challenge","note","read","energy"}
  KindOf <- KindItself
  OwnerOf <- OwnerBob
  OtherOf <- SellerAlice
  Shown = {"matches","listings","wallets","notifications"}
  MaxSeen = 1
  Rows = {"t0","a1","b1","a2","t1","t2","t3","t4","t5","t6","t7"}
  RowOf <- MarketRows
  Places = {"north","south"}
  Actors = {Alice,Bob,Carol}
  Platform = {Carol}
  Samples = {1,2,3,4}
  SampleOf <- Samples4
  Batch <- LastTwo
  Take = 7
  PageSize = 2
INVARIANTS
  ServicesTypeOK
  TokensWorkOnce
  AnAdminStays
  NonceOnce
  VerifiedWasSigned
  QuietPageIsFresh
  PriceIsBacked
  InsightIsHonest
  HistoryIsSummarised
PROPERTIES
  NothingWaitsForever
  PagesCatchUp
CHECK_DEADLOCK FALSE
