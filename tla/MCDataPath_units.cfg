\* One lidar whose type of data is not configured and that sends centimetres.
CONSTANTS
  Handles = {1}
  kMaxSourceLidar = 1
  OffsetRange = 16
  MantissaRange = 8
  None = None
  Setups <- UnsetType
SPECIFICATION Spec
INVARIANT TranslationInMm
CHECK_DEADLOCK FALSE
