SPECIFICATION Spec
CONSTANTS
  Cases = 2
  MaxReplies = 2
INVARIANTS VerdictIsEarned SmokeReportIsTrue
CHECK_DEADLOCK FALSE
