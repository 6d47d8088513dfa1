SPECIFICATION SourceSpec
CONSTANTS
  Batches <- MCBatches
  SourceConfig <- MCSourceConfig
  Encoded <- MCEncoded
INVARIANT IncompleteLeftAlone
CHECK_DEADLOCK FALSE
