SPECIFICATION Spec
CONSTANTS
  MsPerUnit = 2
  SamplesPerUnit = 3
  BufferSamples = 2
  VideoBuffers = 2
  TimePerFrame = 1
  KeyframeInterval = 1
  Decimations = {1, 2}
  FirstTimes <- MCFirstTimes
  IntLimit = 3
  FrameGaps = {1, 2}
  MaxBuffers = 2
  MaxFrames = 4
  MaxFailures = 1
INVARIANT TypeOK
INVARIANT NoNegativeTimes
INVARIANT PacketsIntact
INVARIANT FramesIntact
INVARIANT KeyframeSpacing
INVARIANT VideoAheadByOne
\* The devices deliver no more, or the encode ends.
CHECK_DEADLOCK FALSE
