SPECIFICATION FairSpec
CONSTANTS
  Networks <- RunNetworks
  Configs <- RunConfigs
  Buffers = {0, 1, 2}
  MaxRuns = 2
INVARIANTS
  DriverInv
  OkMeansOutput
  QuietAfterRecovery
  NeverProvokes
  NoForeignWords
  FailureHasCause
PROPERTIES
  DeviceImplementsContract
  RunReturns
