CONSTANTS
  r1 = r1
  r2 = r2
  w1 = w1
  w2 = w2
  NoThread = NoThread
  Readers <- TwoReaders
  Writers <- NoWriters
  MaxRounds = 2
  INT_MAX = 1
SPECIFICATION PatientSpec
PROPERTIES ReadersShare
CHECK_DEADLOCK FALSE
