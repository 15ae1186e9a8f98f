SPECIFICATION Spec
CONSTANTS
  p1 = p1
  disk = disk
  tls = tls
  m1 = m1
  m2 = m2
  None = None
  Producers <- OneProducer
  Retirable <- OneProducer
  Ids <- TwoIds
  Labels <- TwoLabels
  CheckLists <- FailAndWarn
  MuteIds <- TwoMutes
  Interval <- FirstDeclares
  DefaultInterval = 2
  MinTtl = 4
  MaxTtl = 8
  Ttls <- ShortAndLong
  LapseCap = 2
  CheckDays = 3
  MaxTime = 4
  Skew = 0
SYMMETRY Symmetry
INVARIANTS TypeOK NothingHidden TileIsTrueUnlessOverlapping
PROPERTIES ReturnStands LapseIsAnnounced
