\* One lidar without synchronization; packets may come late and in bursts,
\* and the driver may exit at any time.
CONSTANTS
  Handles = {1}
  TimeTypes = {FALSE}
  RatioOfMs = 1
  Interval = 2
  Word = 16
  Dense = FALSE
  MaxDuration = 0
  MaxNow = 5
  MaxStamp = 5
  MaxPackets = 4
  MaxQueue = 2
SPECIFICATION Spec
INVARIANTS RateKept
PROPERTIES ExitJoins
CHECK_DEADLOCK FALSE
