\* Two lidars, rings or lists of two entries, with and without a store buffer.
CONSTANTS
  LidarCount = 2
  Cap = 2
  Paths = {"pcd", "imu"}
  StoreBuffers = {TRUE, FALSE}
SPECIFICATION Spec
INVARIANTS TypeOK NoLostWakeup CountBinary EveryOwedCovered
PROPERTIES EntriesPublished BacklogPublished ExitUnderTraffic
CHECK_DEADLOCK FALSE
