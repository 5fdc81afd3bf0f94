CONSTANTS
  None = None
  Matches = {"m1", "m2"}
  Keys = {"buy1", "settle1", "buy2"}
  Hashes = {"p1", "s1"}
  Reporters = {r1, r2}
  Fits <- MCFits
  Settles <- MCSettles
  Reports <- SharedKey
SPECIFICATION Spec
INVARIANT OnePurchaseOneMatch
SYMMETRY ReporterSymmetry
CHECK_DEADLOCK FALSE
