CONSTANTS
  FrameSize = 2
  SilenceFrames = 1
  MinSpeech = 2
  MaxChunk = 5
  ChannelBound = 1
  MaxSamples = 6
  MaxRecordings = 2
SPECIFICATION FairSpec
INVARIANTS
  TypeOK
  NothingDropsOut
  StopTakesEverything
  CountersMatchBuffer
PROPERTIES
  KeepsPromise
  StopReturns
  OverlayGoes
