SPECIFICATION Spec
CONSTANTS
  N = 2
  Rounds = 2
  Pollers = 2
  Programs = {"read", "readGpu", "sendRecv"}
  None = None
INVARIANTS TypeOK OnlyFreedIsRefused RemoteMemoryLives CallbacksBeforeFree
 
CHECK_DEADLOCK FALSE
