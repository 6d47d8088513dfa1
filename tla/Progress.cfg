SPECIFICATION Spec
CONSTANTS
  Items = {a1, a2, a3}
  NumBatches = 2
  ChanSize = 2
  NoId = NoId
  p1 = p1
  p2 = p2
  Pushers = {p1, p2}
  Loads <- MCLoads
  Deployments = {"api", "eu"}
  MaxRequestBodySize = 8
  MaxExporterFaults = 2
  ForceRegistration = FALSE
  UpdateMetadata = TRUE
  ConfiguredUrl = "api"
  HomeUrl = "eu"
  MaxTries = 1
  MaxFaults = 4
  None = None
  Torn = Torn
  RemoteConfigs <- MCRemoteConfigs
  InstanceConfig = 0
  Unparsable = Unparsable
  NoConfig = NoConfig
  MaxMishaps = 3
INVARIANTS
  ExactlyOnce DelayExact StopDrains
  AcknowledgedOrReturned OnlyLostAnswersDouble RequestsWellFormed
  CredentialsGoHome OnlyRejectedReplaced ShutdownHolds NoMissedWakeup AppliedTakesHold
PROPERTIES
  ImplementsPipeline EventuallyReturned PushEnds IdentityResumes ReloadsEnd
CHECK_DEADLOCK FALSE
