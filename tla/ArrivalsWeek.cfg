SPECIFICATION Spec
CONSTANTS
  disk = disk
  backup = backup
  Checks <- TheChecks
  Interval = 1
  ChurnDays = 2
  RawDays = 2
  CheckDays = 3
  MaxTime = 5
  MaxChanges = 2
SYMMETRY Interchangeable
INVARIANTS StoppedIsNotLag SteadyIsQuiet DriftIsNamed NothingSweptEarly
CHECK_DEADLOCK FALSE
