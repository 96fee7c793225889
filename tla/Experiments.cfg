SPECIFICATION ExperimentSpec
CONSTANTS
  Scripts <- AllScripts
  MaxStarts = 3
  MaxCrashes = 1
  MaxEdits = 2
  MaxFlaws = 2
INVARIANTS ReportHidesNothing ReportDescribesFiles RaisedForCause
CHECK_DEADLOCK FALSE
