SPECIFICATION FairSpec
CONSTANTS
  Chunk = 2
  MaxFrames = 4
  MaxAttempts = 2
  MaxPeriod = 5
  FedBound = 9
  CallBound = 4
INVARIANT InOrderOnce
INVARIANT EveryFrameAccounted
INVARIANT FullDrain
PROPERTY OverflowKeepsNewest
PROPERTY AudioLockReleased
CHECK_DEADLOCK FALSE
