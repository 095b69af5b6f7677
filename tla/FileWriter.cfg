SPECIFICATION FairSpec
CONSTANTS
  MaxBuffers = 5
  MaxSpurious = 2
INVARIANT TypeOK
INVARIANT FifoOrder
INVARIANT DrainedOnExit
PROPERTY ImplementsFifoSink
PROPERTY StopHonoured
\* Stop may block for ever in StopJoin (lost wakeup), and the program ends.
CHECK_DEADLOCK FALSE
