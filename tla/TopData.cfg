SPECIFICATION FairDataSpec
CONSTANTS
  Configs <- DataConfigs
  Writes <- DataWrites
  ReluConfigs <- ReluResidual
  LANE_MAX = 3
  MAX_TENSOR_WORDS = 2
  MAX_WORDS <- TwoWords
  MaxStarts = 2
  Datum <- ModelDatum
  Byte <- ModelByte
INVARIANTS
  DataInv
  BuffersHoldPackets
  OutputIsComputed
PROPERTIES
  DoneMeansDelivered
  OperationEnds
