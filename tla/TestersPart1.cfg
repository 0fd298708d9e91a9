CONSTANTS
  main = main
  w1 = w1
  w2 = w2
  r1 = r1
  Nil = Nil
  Threads <- AllThreads
  Writers <- TwoWriters
  Readers <- OneReader
  Files <- TestFiles
  SmallFiles <- Numbers
  Unterminated <- Strings
  LargeFiles <- Large
  DoubleFiles <- Double
  FILE_NUM = 2
  N_READ_WRITE_TEST = 2
  LARGE_FILE_SIZE = 4
  BLOCK_NUM = 19
  BPB = 19
  INODE_NUM = 5
  IPB = 2
  BLOCK_SIZE = 2
  NDIRECT = 1
  NINDIRECT = 3
  NOBLOCK = 99
  Types = {1, 2}
  Ids = {0, 1, 2, 3, 4}
  MASK = 7
  Allowed <- AnyCall
  MaxCalls = 40
SPECIFICATION TestSpec
INVARIANTS StaysDefined
CHECK_DEADLOCK FALSE
