SPECIFICATION FairSpec
CONSTANTS
  p1 = p1
  p2 = p2
  disk = disk
  tls = tls
  h1 = h1
  h2 = h2
  None = None
  Producers <- OneProducer
  Ids <- ThreeIds
  Stamps <- UsStamps
  Labels <- OneLabel
  CheckLists <- OneFailure
  Forms <- AllForms
  Handlers <- TwoHandlers
  MaxFaults = 1
  Doomed <- TheLast
INVARIANTS NothingIsLost PointerTimeIsNewest
PROPERTIES EventuallyStored
