SPECIFICATION Spec
CONSTANTS
  N = 2
  Rounds = 2
  Protocols = {"writedata"}
  Deliveries = {TRUE, FALSE}
INVARIANT CapturedStateLives
CHECK_DEADLOCK FALSE
