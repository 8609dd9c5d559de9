SPECIFICATION FairSpec
CONSTANTS
  Controllers = {c1}
  Handlers = {h1, h2}
  MaxHandlers = 2
  ErrCap = 2
  Concurrent = FALSE
PROPERTIES
  AllHandlersWork
\* Everything is over once the context is done: the system may stop.
CHECK_DEADLOCK FALSE
