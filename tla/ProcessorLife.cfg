SPECIFICATION FairSpec
CONSTANTS
  NoKey = NoKey
  Keys = {k1}
  Workers = {w1, w2}
  Hash <- MCHash
  Retries = 1
  Debounce = 0
  Window = 2
  MaxVersion = 3
  MaxEvents = 2
  MaxFailures = 2
INVARIANTS
  TypeOK
  IndInv
  Exclusive
  RetryBound
  NoLostChange
  NothingStranded
PROPERTIES
  NeverGoesBack
  Implements
  EventuallySettled
  StopsWithContext
\* The workers are gone once the context is done: the system may stop.
CHECK_DEADLOCK FALSE
