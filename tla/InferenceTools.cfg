SPECIFICATION Spec
CONSTANTS
  m1 = m1
  m2 = m2
  Models = {m1, m2}
  None = None
  Budget = 1
  Bytes = {0, 1, 2}
  Trigger <- DefTrigger
  Left = 1
  PromptLen = 2
  TailLen = 1
  Width = 5
  Limit = 5
  Vocabulary = 3
  Costs = {0, 1}
  Top = 2
  Beam = 2
  MaxNew = 3
INVARIANTS CompletedWork AuditAccepts EarlyStopIsSound
CHECK_DEADLOCK FALSE
