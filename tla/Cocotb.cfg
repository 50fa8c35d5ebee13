SPECIFICATION BfmFairSpec
CONSTANTS
  Configs <- AllConfigs
  Writes <- AllWrites
  Scripts <- ModelTests
  BUS_TIMEOUT = 24
PROPERTIES
  TestVerdicts
  WriteDecodedOnce
  ReadIsCurrent
  TransfersOnce
  TestEnds
