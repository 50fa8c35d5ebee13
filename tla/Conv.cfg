SPECIFICATION ConvFairSpec
CONSTANTS
  INT8_MAX = 7
  INT32_MAX = 31
  MULTIPLIER_M_MAX = 7
  SHIFT_N_MAX = 3
  Pow2 <- Powers
  PRODUCT_HALF = 512
  RESULT_HALF = 1024
  ConvConfigs <- ModelConvConfigs
  Datas = {0, 1}
  InputMem <- InputOf
  WeightMem <- WeightOf
  BiasMem <- BiasOf
INVARIANTS
  WritesAreGolden
  ReferencesAgree
PROPERTIES
  ImplementsEngine
  ComputationEnds
