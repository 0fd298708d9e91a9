CONSTANTS
  t1 = t1
  t2 = t2
  Nil = Nil
  Threads <- TwoThreads
  Files <- WholeBlockFiles
  BLOCK_NUM = 13
  BPB = 13
  INODE_NUM = 3
  IPB = 1
  BLOCK_SIZE = 2
  NDIRECT = 1
  NINDIRECT = 2
  NOBLOCK = 99
  Types = {2}
  Ids = {0, 1, 2}
  MASK = 7
  Allowed <- ConcurrentWorkload
  MaxCalls = 4
SPECIFICATION FairSpec
INVARIANTS OneOwner NoLeak
PROPERTIES ImplementsFileStore CallsReturn
CHECK_DEADLOCK FALSE
