SPECIFICATION IpcSpec
CONSTANTS
  IPC_MAX_PIPES = 2
  IPC_BUFFER_SIZE = 3
  Messages = {m1, m2}
  HEAP_START = 4
  HEAP_SIZE = 6
  AddressModulus = 32
  Sizes <- MCSizes
  IPC_MAX_QUEUES = 2
  Data <- MCData
  RecvSizes <- MCRecvSizes
INVARIANTS IpcTypeOK RingsConsistent BlocksDisjoint
PROPERTIES PipesAreChannels QueuesAreChannels
CHECK_DEADLOCK FALSE
