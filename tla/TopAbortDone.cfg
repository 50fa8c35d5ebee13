SPECIFICATION CyclesSpec
CONSTANTS
  Configs <- FewConfigs
  Writes <- FewWrites
  CYCLES = 3
PROPERTY AbortedIsNotDone
