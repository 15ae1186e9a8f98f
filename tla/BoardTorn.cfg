SPECIFICATION ReaderSpec
CONSTANTS
  p1 = p1
  disk = disk
  tls = tls
  m1 = m1
  m2 = m2
  None = None
  Producers <- OneProducer
  Retirable <- Nothing
  Ids <- TwoIds
  Labels <- OneLabel
  CheckLists <- OneLabelLists
  MuteIds <- Nothing
  Interval <- Undeclared
  DefaultInterval = 1
  MinTtl = 2
  MaxTtl = 8
  Ttls <- Shortest
  LapseCap = 2
  CheckDays = 2
  MaxTime = 3
  Skew = 0
INVARIANTS SteadyTroubleIsShown
