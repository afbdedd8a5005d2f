\* Two lidars, synchronized or not at every packet; any stamps.
CONSTANTS
  Handles = {1, 2}
  TimeTypes = {TRUE, FALSE}
  RatioOfMs = 1
  Interval = 2
  Word = 16
  Dense = FALSE
  MaxDuration = 0
  MaxNow = 2
  MaxStamp = 2
  MaxPackets = 2
  MaxQueue = 2
SPECIFICATION Spec
INVARIANTS TypeOK EachPacketOnce FrameConsistent
CHECK_DEADLOCK FALSE
