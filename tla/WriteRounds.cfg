SPECIFICATION FairSpec
CONSTANTS
  N = 2
  Rounds = 3
  Protocols = {"write", "writedata"}
  Deliveries = {TRUE, FALSE}
INVARIANTS TypeOK NoStaleData OnlyMissedFails
PROPERTIES EndsUnlessMissed
CHECK_DEADLOCK FALSE
