SPECIFICATION FairSpec
CONSTANTS
  N = 2
  Benches = {"write"}
  MinShift = 1
  MaxShift = 2
  Iterations = 1
  MaxInflight = 2
  Wrap = 16
  AutoProgress = FALSE
PROPERTY SignalsArrive
CHECK_DEADLOCK FALSE
