SPECIFICATION FairVSpec
CONSTANTS
  Configs <- ModelConfigs
  Registers <- ModelRegisters
  MAX_WEIGHT_WORDS = 9
  MAX_BIAS_WORDS = 4
  MAX_INPUT_WORDS = 8
  MAX_OUTPUT_WORDS = 4
  MaxStarts = 2
INVARIANTS
  VInv
  VerdictIsLegality
  AdmittedIsGolden
PROPERTIES
  ImplementsFsm
  ValidationEnds
