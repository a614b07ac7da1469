SPECIFICATION FairSpec
CONSTANTS
  p1 = p1
  p2 = p2
  o1 = o1
  o2 = o2
  o3 = o3
  o4 = o4
  o5 = o5
  Null = Null
  Posters = {p1}
  Pollers = {w1, w2}
  Contexts = {c1, c2, c3}
  Ops = {o1, o2, o3}
  Kind <- MessageKinds
  PostedBy <- ByMain
  Depth <- OneSlot
  MaxPoll = 2
  Bypass = {}
  DeliverySupported = FALSE
  InjectReports = FALSE
  Cancellable = {}
  Faulty = {}
INVARIANTS TypeOK OneOwner Balanced NothingLeftAfterJoin
PROPERTIES KeepsLedger EverythingFinishes AcceptedIsServed
