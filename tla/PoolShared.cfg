SPECIFICATION FairSpec
CONSTANTS
  first = first
  other = other
  page = page
  probe = probe
  firstId = firstId
  otherId = otherId
  pointer = pointer
  None = None
  Ingests <- TheIngests
  Views <- TheViews
  Pings <- ThePings
  Rows <- TheRows
  ReportRow <- TheReportRow
  PointerRow <- ThePointerRow
  MaxConnections = 2
  Statements = 2
  Budget = 1
  AcquireLimit = 2
INVARIANTS NothingLeaks NoCircularWait
PROPERTIES ProbeNeverHangs
