CONSTANTS
  Consumers = {c1}
  TraceIDs = {t1, t2, t3}
  Groups = {g1, g2, g3}
  TraceOf <- ApartTraceOf
  NumTraces = 1
  NumBatches = 1
  HistorySize = 1
  SpansPerSecond = 0
  CounterSize = 8
  MaxSecond = 0
  None = None
  g1 = g1
  g2 = g2
  g3 = g3
  t1 = t1
  t2 = t2
  t3 = t3
SPECIFICATION FairSpec
INVARIANTS
  MemoryBound
PROPERTIES
  TraceLeavesMap
\* Nobody has to send spans.
CHECK_DEADLOCK FALSE
