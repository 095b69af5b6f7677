SPECIFICATION FairSpec
CONSTANTS
  BufferUnits = 2
  MaxBuffers = 3
  MaxPolls = 2
  MaxSpurious = 1
  Leftovers = {1, 9}
INVARIANT TypeOK
INVARIANT StatsAccount
INVARIANT StopIsPrompt
PROPERTY ShownNeverDecreases
PROPERTY ImplementsFifoSink
PROPERTY StopHonoured
\* Stop may block for ever in StopJoin (lost wakeup), and the program ends.
CHECK_DEADLOCK FALSE
