SPECIFICATION Spec
CONSTANTS
  Networks <- RejectNetworks
  Configs <- RejectConfigs
  Buffers = {0, 1}
  MaxRuns = 1
INVARIANT BusyEverMeansAdmitted
