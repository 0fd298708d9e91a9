CONSTANTS
  c1 = c1
  c2 = c2
  None = None
  Uninit = Uninit
  Base = 4
  W = 2
  Clients <- TwoClients
  Methods <- FsMethods
  Invocations <- FsInvocations
  Samples <- FsSamples
  Results <- FsResults
  MaxCalls = 2
SPECIFICATION Spec
INVARIANTS TypeOK ArgumentsArrive AbortOnlyOnMismatch
PROPERTIES ReplyIsTheMethods
CHECK_DEADLOCK FALSE
