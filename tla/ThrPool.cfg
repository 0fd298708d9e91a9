CONSTANTS
  p1 = p1
  p2 = p2
  c1 = c1
  c2 = c2
  j1 = j1
  j2 = j2
  j3 = j3
  NoThread = NoThread
  None = None
  EmptyJob = EmptyJob
  Producers <- TwoProducers
  Consumers <- TwoConsumers
  Jobs <- ThreeJobs
  Items <- JobItems
  Owner = p1
  max_ = 2
  MaxSpurious = 1
SPECIFICATION FairSpec
INVARIANTS PoolTypeOK MutexOwner NoLostWakeup WrapperAlive RunsOnce CleanShutdown
PROPERTIES ImplementsBoundedQueue ShutdownEnds JobsRun
CHECK_DEADLOCK FALSE
