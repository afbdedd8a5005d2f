\* Two lidars whose own stamps are in order, each with its topic.
CONSTANTS
  LidarCount = 2
  Threads = {"pcd"}
  MultiTopic = TRUE
  DropStale = FALSE
  MaxAge = 1
  StampTolerance = 1
  TimebaseTolerance = 1
  SourceOrdered = TRUE
  MaxStamp = 4
  MaxArrivals = 4
SPECIFICATION Spec
INVARIANTS DroppedOutOfOrder
CHECK_DEADLOCK FALSE
