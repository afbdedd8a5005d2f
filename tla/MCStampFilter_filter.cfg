\* Both threads, one lidar, any stamps; the counters that the threads share.
CONSTANTS
  LidarCount = 1
  Threads = {"pcd", "imu"}
  MultiTopic = FALSE
  DropStale = TRUE
  MaxAge = 1
  StampTolerance = 1
  TimebaseTolerance = 0
  SourceOrdered = FALSE
  MaxStamp = 3
  MaxArrivals = 3
SPECIFICATION Spec
INVARIANTS TypeOK PublishedInOrder CountsBounded
CHECK_DEADLOCK FALSE
