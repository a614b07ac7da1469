SPECIFICATION Spec
CONSTANTS
  N = 2
  Pollers = 2
  Programs = {"test", "bench", "signals"}
  Address <- MCAddress
  Offsets = {0, 64}
  SemTag = 2
  TagSpace = 4
  None = None
INVARIANTS TypeOK AddressBook SenderKnown RightKeys KeysComeOrAreComing LostOnlyLate
PROPERTY EndsUnlessLost
CHECK_DEADLOCK FALSE
