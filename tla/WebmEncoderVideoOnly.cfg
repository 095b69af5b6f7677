SPECIFICATION FairSpec
CONSTANTS
  Muxers <- MCMuxers
  DefaultChunkBufferSize = 1
  MaxSamples = 2
  MaxPackets = 2
  MaxPolls = 1
  DashNames = {"", "live"}
  StartNumber = 1
PROPERTY VideoOnlyEncodes
\* The program ends.
CHECK_DEADLOCK FALSE
