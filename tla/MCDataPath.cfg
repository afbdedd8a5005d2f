\* All set-ups: rates, mountings, boxes, configuration files, limits.
CONSTANTS
  Handles = {1, 2, 3}
  kMaxSourceLidar = 2
  OffsetRange = 16
  MantissaRange = 8
  None = None
  Setups <- AllSetups
SPECIFICATION Spec
INVARIANTS TypeOK PointsCompensated FilterExact OwnTopic TimesRecovered RatesSound
PROPERTY KeepsRegistry
CHECK_DEADLOCK FALSE
