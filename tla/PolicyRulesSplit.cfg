CONSTANTS
  AcceptRules <- SplitRules
  RejectRules <- NoRules
  Traces <- MCTraces
  MaxSecond = 2
  MaxSpanCount = 4
  Absent = Absent
  None = None
SPECIFICATION RulesSpec
INVARIANT OneSpanMeetsAll
