CONSTANTS
  t1 = t1
  t2 = t2
  Nil = Nil
  Threads <- OneThread
  Files <- PastDirectFile
  BLOCK_NUM = 17
  BPB = 17
  INODE_NUM = 3
  IPB = 2
  BLOCK_SIZE = 2
  NDIRECT = 2
  NINDIRECT = 3
  NOBLOCK = 99
  Types = {2}
  Ids = {0, 1, 2}
  MASK = 7
  Allowed <- PutWorkload
  MaxCalls = 6
SPECIFICATION Spec
INVARIANTS GetMatchesPut
CHECK_DEADLOCK FALSE
