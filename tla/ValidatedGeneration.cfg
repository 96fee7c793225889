CONSTANTS
  good = good
  other = other
  big  = big
  same = same
  NoCode = NoCode
  NoText = NoText
  Snippets     <- MCSnippets
  TooBig       <- MCTooBig
  SameAsBefore <- MCSameAsBefore
  MaxAttempts = 3

SPECIFICATION Spec

INVARIANTS
  TypeOK
  ReadyIsProven
  OnlyFailuresAreRepaired
  EscalationIsEarned
  ReportAgrees

PROPERTIES
  StopIsFinal
  Terminates
  ImplementsContract

\* a finished run takes no further step
CHECK_DEADLOCK FALSE
