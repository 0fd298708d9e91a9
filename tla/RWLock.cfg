CONSTANTS
  r1 = r1
  r2 = r2
  w1 = w1
  w2 = w2
  NoThread = NoThread
  Readers <- TwoReaders
  Writers <- TwoWriters
  MaxRounds = 2
  INT_MAX = 1
SPECIFICATION FairSpec
INVARIANTS TypeOK NobodyWaits MutexOwner CountersMatch
PROPERTIES ImplementsExclusiveLock AllFinish
CHECK_DEADLOCK FALSE
