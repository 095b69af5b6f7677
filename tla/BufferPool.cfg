SPECIFICATION Spec
CONSTANTS
  MediaTypes = {"audio", "video"}
  NumBuffers = 2
  Offset = 1
  Lengths = {0, 1, 2}
  MaxSamples = 5
  MaxFailures = 2
INVARIANT TypeOK
INVARIANT ObjectsConserved
INVARIANT SamplesIntact
INVARIANT PeekedIsNext
INVARIANT PoolIsSafe
\* The bounded source runs out of samples, or the process has died.
CHECK_DEADLOCK FALSE
