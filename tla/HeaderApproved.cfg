SPECIFICATION PipelineSpec
CONSTANTS
  NUM_CLASSES = 10
  FC_OUT_CHANNELS_PADDED = 12
  Seeds = {1, 2}
  Generated = {"identity"}
  MaxRuns = 3
  MaxBackboneRuns = 2
INVARIANT ApprovedHeaderIsApproved
CHECK_DEADLOCK FALSE
