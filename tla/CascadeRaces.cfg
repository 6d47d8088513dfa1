CONSTANTS
  Consumers = {c1, c2}
  TraceIDs = {t1, t2}
  Groups = {g1, g2, g3}
  TraceOf <- MCTraceOf
  NumTraces = 1
  NumBatches = 1
  HistorySize = 1
  SpansPerSecond = 1
  CounterSize = 8
  MaxSecond = 1
  None = None
  g1 = g1
  g2 = g2
  g3 = g3
  t1 = t1
  t2 = t2
  t3 = t3
SPECIFICATION Spec
INVARIANTS
  NothingStranded
  ForwardedOnceIfSampled
  LateFollowsDecision
  SampledTracesWithinLimit
\* Nobody has to send spans.
CHECK_DEADLOCK FALSE
SYMMETRY Perms
