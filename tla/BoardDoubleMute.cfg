SPECIFICATION Spec
CONSTANTS
  p1 = p1
  disk = disk
  tls = tls
  m1 = m1
  m2 = m2
  None = None
  Producers <- OneProducer
  Retirable <- Nothing
  Ids <- OneId
  Labels <- TwoLabels
  CheckLists <- TwoLabelLists
  MuteIds <- TwoMutes
  Interval <- Undeclared
  DefaultInterval = 2
  MinTtl = 4
  MaxTtl = 8
  Ttls <- Shortest
  LapseCap = 2
  CheckDays = 3
  MaxTime = 3
  Skew = 0
INVARIANTS TileIsTrue
