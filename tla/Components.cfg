SPECIFICATION Spec
CONSTANTS
  Batches <- MCBatches
  SourceConfig <- MCSourceConfig
  Encoded <- MCEncoded
  SchemaConfigs <- MCSchemaConfigs
  Records <- MCRecords
  Translations <- MCTranslations
  CloudNamespaces <- MCCloudNamespaces
  CloudPlatform <- MCCloudPlatform
  CloudNamespace <- MCCloudNamespace
  TelegrafNames <- MCTelegrafNames
  Values = {1, 2}
  MinPointAccumulationTime = 2
  ConstantMetricsReportFrequency = 4
  LowInfoMetricsReportFrequency = 3
  MaxReportFrequency = 2
  DataPointExpirationTime = 5
  SafetyInterval = 1
  IqrAnomalyCoef2 = 3
  VariationIqrThresholdCoef = 4
  MaxDelay = 1
  MaxTime = 6
  p1 = p1
  p2 = p2
  Pods = {p1, p2}
  Services = {1, 2, 3}
  Listings <- MCListings
  Nothing = Nothing
  rs = rs
  dep = dep
  own = own
  Objects = {rs, dep, own}
  References <- MCReferences
  PodReferences <- MCPodReferences
  MaxChanges = 4
  NotCached = NotCached
  AcceptRules <- MCAcceptRules
  RejectRules <- MCRejectRules
  Traces <- MCTraces
  MaxSecond = 2
  MaxSpanCount = 3
  Absent = Absent
  None = None
  Names = {"a", "b"}
  Timed = {"a"}
  HasStorage = TRUE
  MaxEventAge = 2
  ConsumeMaxRetries = 1
  MaxVersion = 3
  MaxFaults = 2
  SyslogBatches <- MCSyslogBatches
  SyslogFormats = {"rfc3164", "rfc5424"}
  HasAdditional = TRUE
  MaxBreaks = 4
INVARIANTS
  RecordsUnpacked DroppedPointsRepresented RuleBudget BestDecisionWins DurationExact
  ListedServicesKept OwnersFound ReportedOnce LinesDelivered ConnectionsClosed
PROPERTIES
  NestedByPath ValuesKept WalkEnds EventsFlow
CHECK_DEADLOCK FALSE
