SPECIFICATION FairSpec
CONSTANTS
  Precondition = TRUE
  MaxVersion = 3
  MaxEvents = 2
  MaxMarks = 1
PROPERTIES
  StaleEntriesCleaned
\* The resource stops changing at the bound on its versions.
CHECK_DEADLOCK FALSE
