SPECIFICATION Spec
CONSTANTS
  starter = starter
  notepad = notepad
  Clients = {starter, notepad}
  Watched = {starter}
  Nobody = nobody
  Models = {m1, m2}
  Launcher = starter
  Editor = notepad
  Limit = 2
  Window = 2
  Ticks = 2
  Timeout = 3
  ReadTimeout = 1
  OtherKinds = {"generate"}
  MaxRequests = 5
  MaxTime = 5
INVARIANTS SessionTypeOK SlotIsOneJob RateHolds EditorHasItsModel NoSelfInflictedRefusal
PROPERTIES RetryHonoured SessionDecides
CHECK_DEADLOCK FALSE
