SPECIFICATION Spec
CONSTANTS
  p1 = p1
  p2 = p2
  o1 = o1
  o2 = o2
  o3 = o3
  o4 = o4
  o5 = o5
  Null = Null
  Posters = {p1, p2}
  Pollers = {w1}
  Contexts = {c1, c2}
  Ops = {o1, o2, o3, o4, o5}
  Kind <- MixedKinds
  PostedBy <- ByTwo
  Depth <- OneSlot
  MaxPoll = 1
  Bypass = {}
  DeliverySupported = TRUE
  InjectReports = TRUE
  Cancellable = {o1}
  Faulty = {o5}
INVARIANTS OneOwner OwnCallback CalledOnce LockDiscipline
