SPECIFICATION FairSpec
CONSTANTS
  Controllers = {c1, c2}
  Handlers = {h1, h2, h3}
  MaxHandlers = 2
  ErrCap = 1
  Concurrent = TRUE
INVARIANTS
  SyncedBeforeWork
  NoSilentFailure
  IndInv
PROPERTIES
  RunnerReturns
  AllStop
  FirstHandlersWork
\* Everything is over once the context is done: the system may stop.
CHECK_DEADLOCK FALSE
