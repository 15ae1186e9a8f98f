SPECIFICATION FairSpec
CONSTANTS
  None = None
  Boards <- SomeBoards
  MaxDeaths = 2
INVARIANTS QuietOnlyIfToldAlive
PROPERTIES MarkWasTold NoRepeats EventuallyTold
