SPECIFICATION Spec
CONSTANTS
  p1 = p1
  p2 = p2
  disk = disk
  tls = tls
  h1 = h1
  h2 = h2
  None = None
  Producers <- TwoProducers
  Ids <- ThreeIds
  Stamps <- MsStamps
  Labels <- TwoLabels
  CheckLists <- TwoLabelLists
  Forms <- GoodForms
  Handlers <- TwoHandlers
  MaxFaults = 1
  Doomed <- Nobody
SYMMETRY Symmetry
INVARIANTS TypeOK PointerIsNewest RunsMatchLatest ConfirmedWasSeenBefore StoredOnce NoStaleRead FirstSeenInOrder
PROPERTIES LedgerSpec
