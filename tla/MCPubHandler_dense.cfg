\* One lidar on a synchronized clock, without gaps; four units make a millisecond.
CONSTANTS
  Handles = {1}
  TimeTypes = {TRUE}
  RatioOfMs = 4
  Interval = 8
  Word = 64
  Dense = TRUE
  MaxDuration = 0
  MaxNow = 0
  MaxStamp = 24
  MaxPackets = 24
  MaxQueue = 1
SPECIFICATION Spec
INVARIANTS FramesOnTime
CHECK_DEADLOCK FALSE
