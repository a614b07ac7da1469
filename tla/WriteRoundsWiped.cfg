SPECIFICATION Spec
CONSTANTS
  N = 2
  Rounds = 2
  Protocols = {"write"}
  Deliveries = {TRUE, FALSE}
INVARIANT NoRankGivesUp
CHECK_DEADLOCK FALSE
