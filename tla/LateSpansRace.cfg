CONSTANTS
  Consumers = {c1, c2}
  SpansPerSecond = 4
  PriorSpansRate = None
  MaxGroup = 2
  MaxGroups = 3
  MaxSecond = 1
  None = None
SPECIFICATION Spec
INVARIANT PriorRateKept
CHECK_DEADLOCK FALSE
