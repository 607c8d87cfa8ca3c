SPECIFICATION FairSpec
CONSTANTS
  SendRuns <- MCSendRuns
  CallRuns <- MCCallRuns
  Responses <- MCResponses
  BlockRuns <- MCBlockRuns
  AuthSetups <- MCAuthSetups
  Collections <- MCCollections
  Measurements <- MCMeasurements
  PipelineRuns <- MCPipelines
  Scrapes <- MCScrapes
  Limits <- MCLimits
  MaxKeyLen = 2
  MaxErrorCapture = 4
  Checkpoint = 4
  DropInterval = 2
  MaxRetry = 2
  ReceiptTimeout = 2
  Fetches = 3
  QueueSize = 1
  MaxRequest = 2
  Unit = 3
  Window = 3
  BlocksPerScan = 1
  Requesters = {r1, r2}
  Askers = {a1, a2}
  Tx = {h1}
  Reg = {p1, p2}
  Expiries = {0}
  MaxSeconds = 6
  MaxLate = 1
  MaxFailures = 1
  MaxMeddling = 1
  MaxPolls = 3
  MaxErrors = 1
  MaxClock = 2
  MaxTicks = 4
  MaxRuns = 1
  MaxHeight = 2
  MaxRollbacks = 1
INVARIANTS TypeOK MeasurementIsClean CallsAddUp BlocksAreReplayed TokensStayValid ReceiptsAreCollected MetricsAreWhole HelpersAreExact
PROPERTIES EveryPartEnds
CHECK_DEADLOCK FALSE
