SPECIFICATION Spec
CONSTANTS
  plugin = plugin
  visitor = visitor
  Plugin = plugin
  Visitors = {visitor}
  None = None
  Torn = Torn
  Threshold = 1
  MinSamples = 1
  MaxSamples = 1
  MaxFaults = 0
INVARIANT CachedByMetadata
CHECK_DEADLOCK FALSE
