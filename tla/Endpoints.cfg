SPECIFICATION FairSpec
CONSTANTS
  Pollers = {"p1", "p2"}
  Contexts <- MCContexts
  Asked = {2, 3}
  Types = {"single", "multiple", "threadlocalTx", "scalableTx", "scalableTxRx"}
  Segments = {s1, s2}
  Regions = {r1, r2}
  DummyQueue = TRUE
  None = None
INVARIANTS TypeOK EndpointsOwned RegionsOwned NothingUsedAfterClose DiesOnlyOf
PROPERTIES SharedEnds
