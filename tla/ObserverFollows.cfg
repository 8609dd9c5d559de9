SPECIFICATION FairSpec
CONSTANTS
  Nil = Nil
  Stacks <- OneFilter
  Handlers <- FilterLists
  Syncs = TRUE
  Traits = {"label"}
  MaxVersion = 4
  MaxEvents = 2
  MaxLosses = 1
INVARIANTS
  CacheSelected
  SpecChangeSeen
  IndInv
PROPERTIES
  Converges
  RecoveredByResync
\* Changes are bounded: everything may be quiet once the cache is empty.
CHECK_DEADLOCK FALSE
