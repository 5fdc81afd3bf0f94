CONSTANTS
  None = None
  Listings = {"l1", "l2"}
  Keys = {"k1", "k1r", "k2"}
  Hashes = {"t1", "t1b", "t2"}
  Offers = {"full", "part"}
  Reporters = {r1, r2}
  Tx <- MCTx
  Reports <- Bodies
  MaxOutages = 2
  Tabs = {"tab1"}
  TabOf <- MCTabOf
  TheListing = "l1"
  FirstKeys <- MCFirstKeys
SPECIFICATION MCSpec
INVARIANTS
  TypeOK
  MappingIsVerified
  ShownIdIsOwn
PROPERTIES
  MappingNeverMoves
  CreatedIsMapped
