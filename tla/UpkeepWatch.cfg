SPECIFICATION Spec
CONSTANTS
  SweepEvery = 4
  Allowed = 5
  ReportEvery = 2
  MaxSweep = 1
  MaxTime = 14
  MaxBoots = 2
  None = None
CHECK_DEADLOCK FALSE
INVARIANTS PassMeansSwept QuietWhileSweeping StoppedIsNamed
