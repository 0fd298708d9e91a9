CONSTANTS
  t1 = t1
  t2 = t2
  Nil = Nil
  Threads <- OneThread
  Files <- MixedFiles
  BLOCK_NUM = 17
  BPB = 17
  INODE_NUM = 3
  IPB = 2
  BLOCK_SIZE = 2
  NDIRECT = 2
  NINDIRECT = 3
  NOBLOCK = 99
  Types = {1, 2}
  Ids = {1, 5, 10}
  MASK = 7
  Allowed <- SerialWorkload
  MaxCalls = 6
SPECIFICATION FairSpec
INVARIANTS TypeOK OneOwner NoLeak ReadableFiles StaysDefined
PROPERTIES ImplementsFileStore CallsReturn
CHECK_DEADLOCK FALSE
