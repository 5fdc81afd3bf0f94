CONSTANTS
  None = None
  Accounts = {"alice", "op"}
  Admins = {"op"}
  Operators = {"op"}
  ExternalIds = {"x"}
  Quantities = {0, 1, 2}
  Prices = {1}
  MaxWord = 2
  MaxListings = 2
  MaxTrades = 2
SPECIFICATION Spec
INVARIANTS
  TypeOK
  EscrowCountsUnsettled
  CancelledHoldsNoEscrow
  StatusTellsRemaining
  Solvent
PROPERTIES
  CancelIsFinal
  ImplementsEscrow
