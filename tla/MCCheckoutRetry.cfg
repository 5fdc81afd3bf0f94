SPECIFICATION MCPatientSpec
CONSTANTS
  None = None
  Matches = {"m1"}
  Keys = {"kp", "ks", "kr"}
  Hashes = {"p1", "p2"}
  Reporters = {"purchase"}
  Fits <- MCFits
  Settles <- MCSettles
  Reports <- ClientReports
  Browsers = {"b1"}
  Panels = {"purchase"}
  PanelOf <- MCPanelOf
  BrowserOf <- MCBrowserOf
  ActionOf <- MCActionOf
  TheMatch = "m1"
  FirstKeys <- MCFirstKeys
PROPERTY PaidIsCounted
CHECK_DEADLOCK FALSE
