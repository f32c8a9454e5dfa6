SPECIFICATION FairSpec
CONSTANTS
  Feeders = {"f1", "f2"}
  Source = "f1"
  Builds = {"sdi", "hdmi", "rtsp"}
  Early = {"sdi"}
  Caps = {1, 2}
  Display = TRUE
  InCap = 1
  OutCap = 2
INVARIANT JoinHoldsNoNeededLock
INVARIANT UsesLiveDecoder
INVARIANT SetupStartsClean
INVARIANT NoStrandedFrame
INVARIANT RtspCapsInForce
PROPERTY InitEnds
PROPERTY PushReleased
PROPERTY StopEnds
PROPERTY ConfigStable
