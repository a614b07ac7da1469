SPECIFICATION Spec
CONSTANTS
  N = 2
  Pollers = 2
  Programs = {"signals"}
  Address <- MCAddress
  Offsets = {0}
  SemTag = 2
  TagSpace = 4
  None = None
INVARIANT SignalsCarryKeys
CHECK_DEADLOCK FALSE
