SPECIFICATION FairSpec
CONSTANTS
  N = 2
  Benches = {"write", "read", "sendrecv"}
  MinShift = 1
  MaxShift = 2
  Iterations = 3
  MaxInflight = 2
  Wrap = 16
  AutoProgress = FALSE
INVARIANTS TypeOK ThrottleHolds SettledBetweenWindows NoMismatch NoSignalAhead NoLateSignal
PROPERTIES EndsUnlessStranded
CHECK_DEADLOCK FALSE
