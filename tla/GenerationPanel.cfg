CONSTANTS
  file = file
  untitled = untitled
  before = before
  after = after
  NoDoc = NoDoc
  NoResult = NoResult
  Docs     <- MCDocs
  Pathless <- MCPathless
  Texts    <- MCTexts
  MaxRuns = 2
  QueueLimit = 2

SPECIFICATION Spec

INVARIANTS
  TypeOK
  OneWorker
  ReviewIsLatest
  ApplyMeansReady
  ClosedKeepsNothing

PROPERTIES
  ProgressIsLive
  RunEnds
  GuardsDocument
