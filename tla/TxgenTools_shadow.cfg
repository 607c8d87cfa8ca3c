SPECIFICATION Spec
CONSTANTS
  Documents = {}
  Starts = {}
  Configs = {}
  WaitConfigs = {}
  Scenarios <- MCShadow
  Publications = {}
  Generations = {}
  TempoRuns = {}
  Extractions = {}
  ScanRetries = 2
  JobsPerWorker = 1
  ExpiringKey = 9
  HashWindow = 2
  MaxSamples = 2
  BatchSize = 2
  MaxInstances = 3
  MaxPrepared = 2
  MaxGenerated = 3
  MaxTaken = 2
INVARIANTS PathIsCritical
CHECK_DEADLOCK FALSE
