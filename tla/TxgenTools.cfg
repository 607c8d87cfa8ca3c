SPECIFICATION FairSpec
CONSTANTS
  Documents <- MCDocuments
  Starts <- MCStarts
  Configs <- MCConfigs
  WaitConfigs <- MCWaits
  Scenarios <- MCReports
  Publications <- MCPublications
  Generations <- MCGenerations
  TempoRuns <- MCTempoRuns
  Extractions <- MCExtractions
  ScanRetries = 2
  JobsPerWorker = 1
  ExpiringKey = 9
  HashWindow = 2
  MaxSamples = 2
  BatchSize = 2
  MaxInstances = 3
  MaxPrepared = 2
  MaxGenerated = 3
  MaxTaken = 2
INVARIANTS TypeOK DocumentsAreSound StartIsOrderly InstancesAreAccounted WaitsEndOnOneChain ReportAddsUp OutputIsSubmittable LanesAndKeysAreUnique CorpusFollowsTheChain
PROPERTIES EveryToolEnds
CHECK_DEADLOCK FALSE
