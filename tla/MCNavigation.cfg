SPECIFICATION NavigationSpec
CONSTANTS
  Accounts = {a1}
  Admins = {a1}
  TokenIds = {t1,t2,t3}
  ResetIds = {}
  Expiring = {}
  Requests = {r1,r2}
  MaxPassword = 0
  MaxTries = 3
  Tabs = {b1,b2}
  None = None
PROPERTY SessionSurvives
CHECK_DEADLOCK FALSE
