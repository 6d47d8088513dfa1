CONSTANTS
  Consumers = {c1, c2}
  TraceIDs = {t1, t2}
  Groups = {g1, g2, g3}
  TraceOf <- MCTraceOf
  NumTraces = 2
  NumBatches = 1
  HistorySize = 2
  SpansPerSecond = 0
  CounterSize = 8
  MaxSecond = 0
  None = None
  g1 = g1
  g2 = g2
  g3 = g3
  t1 = t1
  t2 = t2
  t3 = t3
SPECIFICATION Spec
INVARIANT OnlyFullTraces
CHECK_DEADLOCK FALSE
