SPECIFICATION Spec
CONSTANTS
  plugin = plugin
  visitor = visitor
  Plugin = plugin
  Visitors = {visitor}
  None = None
  Torn = Torn
  Threshold = 1
  MinSamples = 2
  MaxSamples = 2
  MaxFaults = 1
PROPERTIES KnowledgeGrows UpdateConverges
CHECK_DEADLOCK FALSE
