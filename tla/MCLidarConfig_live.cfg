\* One lidar with a parameter, the work mode and the IMU, one reboot.
CONSTANTS
  a = a
  Handles = {a}
  ParamCount = 1
  Others <- WorkAndImu
  kMaxSourceLidar = 1
  MaxReboots = 1
SPECIFICATION Spec
PROPERTIES ReadyEventually Reconfigured
CHECK_DEADLOCK FALSE
