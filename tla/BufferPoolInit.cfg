SPECIFICATION Spec
CONSTANTS
  MediaTypes = {"audio"}
  NumBuffers = 2
  Offset = 1
  Lengths = {1, 2}
  MaxSamples = 4
  MaxFailures = 1
INVARIANT InitHasStorage
\* The bounded source runs out of samples, or the process has died.
CHECK_DEADLOCK FALSE
