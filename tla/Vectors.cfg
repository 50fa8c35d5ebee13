SPECIFICATION PipelineSpec
CONSTANTS
  NUM_CLASSES = 10
  FC_OUT_CHANNELS_PADDED = 12
  Seeds = {1, 2}
  Generated = {"stage1_conv", "identity", "projection", "stage3_gap_fc", "stage3_backbone"}
  MaxRuns = 3
  MaxBackboneRuns = 2
INVARIANTS
  EveryOperationIsLegal
  OperandsShareScale
  ApprovedBinaries
PROPERTIES
  FinishedRunGivesHeader
CHECK_DEADLOCK FALSE
