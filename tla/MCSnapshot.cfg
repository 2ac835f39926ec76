SPECIFICATION Spec
CONSTANTS
  RingLen = 16
  Pre = 4
  Post = 4
  PollPts = 2
  PollGaps <- Early
  SendDelay = 1
  AgeCap = 20
PROPERTIES SamplesTrue ExactAwayFromSeam ServedOrSuperseded SnapshotEnds
