SPECIFICATION FairSpec
CONSTANTS
  Sdi = FALSE
  AutoMode = TRUE
  Forced = TRUE
  Fixed = FALSE
  SdiAudio = "required"
  Sizes = {1, 2}
  Colours = {"rgb"}
  Start = 1
  DeviceFails = TRUE
  MaxFlows = 1
INVARIANT AvhOwnsOutput
INVARIANT NothingLeftOfAvh
INVARIANT TruthfulReply
INVARIANT PushesLiveSink
PROPERTY ReturnsToUltra
PROPERTY TriesAvh
