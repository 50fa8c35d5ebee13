SPECIFICATION ConfigureSpec
CONSTANTS
  Configs <- NoOtherConfigs
  Registers <- ModelRegisters
  Layers <- ModelLayers
  Undefined <- ModelUndefined
  UINT32 = 64
  MAX_WEIGHT_WORDS = 9
  MAX_BIAS_WORDS = 4
  MAX_INPUT_WORDS = 8
  MAX_OUTPUT_WORDS = 4
  MaxStarts = 1
INVARIANTS
  AcceptsWhatFits
