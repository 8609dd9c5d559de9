SPECIFICATION Spec
CONSTANTS
  Nobody = Nobody
  Instances = {a, b}
  Sound = {a}
  LeaseDuration = 6
  RenewDeadline = 2
  RenewPeriod = 1
  Latency = 4
  ErrCap = 1
  Readers = {a}
  MaxItems = 1
  MaxCrashes = 0
PROPERTIES
  NoWorkAside
\* Everybody may have been told to stop: the system may come to rest.
CHECK_DEADLOCK FALSE
