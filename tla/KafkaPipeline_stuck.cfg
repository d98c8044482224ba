CONSTANTS
  c1 = c1
  c2 = c2
  s1 = s1
  s2 = s2
  None = None
  Consumers <- TwoConsumers
  Slots <- TwoSlots
  e1 = e1
  e2 = e2
  Events <- TwoEvents

SPECIFICATION PipelineSpec

PROPERTIES
  SwitchesBack
