SPECIFICATION Spec
CONSTANTS
  FRAME_SIZE = 2
  IR_BUF_SIZE = 4
  RemoteCode <- MCRemoteCode
INVARIANTS
  TypeOK
  GoodFramesAreStored
PROPERTY IsAQueue
