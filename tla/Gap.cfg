SPECIFICATION GapSpec
CONSTANTS
  INT8_MAX = 7
  INT32_MAX = 15
  MULTIPLIER_M_MAX = 7
  SHIFT_N_MAX = 3
  Pow2 <- Powers
  PRODUCT_HALF = 512
  RESULT_HALF = 1024
  GapConfigs <- ModelGapConfigs
  Datas = {0, 1, 2, 3}
  InputMem <- InputOf
INVARIANTS
  GapWritesAreGolden
  ResultIsGolden
PROPERTIES
  ImplementsPipeline
