SPECIFICATION Spec
CONSTANTS
  NoKey = NoKey
  Keys = {k1}
  Workers = {w1}
  Hash <- MCHash
  Retries <- Unlimited
  MaxFailures = 2
  Debounce = 0
  Window = 0
  MaxVersion = 2
  MaxEvents = 1
INVARIANTS
  PanicRequeued
\* The workers are gone once the context is done: the system may stop.
CHECK_DEADLOCK FALSE
