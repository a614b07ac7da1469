SPECIFICATION Spec
CONSTANTS
  N = 2
  Benches = {"write"}
  MinShift = 0
  MaxShift = 1
  Iterations = 1
  MaxInflight = 2
  Wrap = 16
  AutoProgress = TRUE
INVARIANT NoLateSignal
CHECK_DEADLOCK FALSE
