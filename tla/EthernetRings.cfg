SPECIFICATION RingFairSpec
CONSTANTS
  N = 3
  MaxFrames = 5
INVARIANT RingInvariant
PROPERTIES FramesInOrder EveryFrameMoves
