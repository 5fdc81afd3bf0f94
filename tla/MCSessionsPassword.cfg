SPECIFICATION SessionsSpec
CONSTANTS
  Accounts = {a1}
  Admins = {a1}
  TokenIds = {t1,t2}
  ResetIds = {k1}
  Expiring = {}
  Requests = {r1,r2}
  MaxPassword = 2
  MaxTries = 3
  None = None
PROPERTY AllSessionsRevoked
CHECK_DEADLOCK FALSE
