SPECIFICATION MCSpec
CONSTANTS
  None = None
  Matches = {"m1"}
  Keys = {"kp", "ks", "kr", "k4"}
  Hashes = {"p1", "p2", "s1"}
  Reporters = {"purchase", "second", "settle"}
  Fits <- MCFits
  Settles <- MCSettles
  Reports <- ClientReports
  Browsers = {"b1"}
  Panels = {"purchase", "settle"}
  PanelOf <- MCPanelOf
  BrowserOf <- MCBrowserOf
  ActionOf <- MCActionOf
  TheMatch = "m1"
  FirstKeys <- MCFirstKeys
INVARIANT
  ShownIsVerified
PROPERTIES
  HeardPurchaseLocks
  NoPanelWaitsForever
CHECK_DEADLOCK FALSE
