CONSTANTS
  t1 = t1
  t2 = t2
  NoThread = NoThread
  Threads <- TwoThreads
  BLOCK_NUM = 9
  BPB = 3
  INODE_NUM = 2
  IPB = 2
  NOBLOCK = 31
SPECIFICATION FairSpec
INVARIANTS TypeOK Conservation ScanIsCurrent
PROPERTIES ImplementsBlockAllocator MutexReleased
