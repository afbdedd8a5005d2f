\* Two lidars with two parameters each and one index: at most one of them is
\* declared, the other or none gets the index; one reboot each.
CONSTANTS
  a = a
  b = b
  Handles = {a, b}
  ParamCount = 2
  Others <- NoOthers
  kMaxSourceLidar = 1
  MaxReboots = 1
SPECIFICATION Spec
SYMMETRY LidarSymmetry
INVARIANTS TypeOK SamplingConfigured BitsOutstanding
CHECK_DEADLOCK FALSE
