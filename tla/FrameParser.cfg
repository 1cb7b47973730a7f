SPECIFICATION Spec
CONSTANTS
  Streams <- MCStreams
  Genuine <- Plain
  Garbage <- AllGarbage
  MaxSegments = 3
  Digits = 2
  MaxBuffer = 12
  ChunkSizes = {1, 4, 7, 13}
INVARIANT ExactlyTheSent
PROPERTY LoopAdvances
