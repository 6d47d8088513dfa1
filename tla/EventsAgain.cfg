SPECIFICATION EventsSpec
CONSTANTS
  Names = {"a", "b"}
  Timed = {"a"}
  HasStorage = TRUE
  MaxEventAge = 2
  ConsumeMaxRetries = 1
  MaxVersion = 3
  MaxFaults = 1
INVARIANT NoDuplicates
CHECK_DEADLOCK FALSE
