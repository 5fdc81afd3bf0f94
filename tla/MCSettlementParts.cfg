CONSTANTS
  None = None
  Matches = {"m1", "m2"}
  Keys = {"buy1", "settle1", "buy2", "reject1", "settle2"}
  Hashes = {"p1", "p2", "s1"}
  Reporters = {r1, r2}
  Fits <- MCFits
  Settles <- MCSettles
  Reports <- Bodies
SPECIFICATION MCSpec
INVARIANTS
  TypeOK
  ConfirmedIsVerified
  SettledIsVerified
  OnePurchaseOneMatch
  CountedOnceEach
PROPERTIES
  KeyKeepsHash
SYMMETRY ReporterSymmetry
CHECK_DEADLOCK FALSE
