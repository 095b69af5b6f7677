SPECIFICATION FairSpec
CONSTANTS
  Muxers <- MCMuxers
  DefaultChunkBufferSize = 1
  MaxSamples = 2
  MaxPackets = 2
  MaxPolls = 1
  DashNames = {"", "live"}
  StartNumber = 1
INVARIANT TypeOK
INVARIANT StreamIntact
INVARIANT SegmentsAddressable
INVARIANT ChunksStartClusters
INVARIANT CompleteOnStop
INVARIANT SourceStopped
PROPERTY StopReturns
\* The program ends.
CHECK_DEADLOCK FALSE
