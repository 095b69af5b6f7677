SPECIFICATION FairSpec
CONSTANTS
  MaxBuffers = 2
  MaxSpurious = 0
PROPERTY StopReturns
\* Stop may block for ever in StopJoin (lost wakeup), and the program ends.
CHECK_DEADLOCK FALSE
