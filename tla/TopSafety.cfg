SPECIFICATION CyclesSpec
CONSTANTS
  Configs <- TopConfigs
  Writes <- TopWrites
  CYCLES = 2
INVARIANTS
  IInv
  CountsLastPeriod
PROPERTIES
  BusyFallsWithResult
  StartIsTaken
  ImplementsContract
