SPECIFICATION FairSpec
CONSTANTS
  t1 = t1
  t2 = t2
  slash = slash
  history = history
  None = None
  Gone = Gone
  Tabs <- TwoTabs
  Paths <- TwoPaths
  Root = slash
  Nonces <- SixNonces
  Sessions <- TwoSessions
  DevLogins = TRUE
  MaxLogins = 2
INVARIANTS SoloSignInFinishes ReturnsHere
PROPERTIES EveryTabRests SessionsEnd
