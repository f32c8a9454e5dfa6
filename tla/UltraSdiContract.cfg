SPECIFICATION Spec
CONSTANTS
  Sdi = TRUE
  AutoMode = TRUE
  Forced = TRUE
  Fixed = TRUE
  SdiAudio = "required"
  Sizes = {1, 2}
  Colours = {"rgb", "yuv"}
  Start = 1
  DeviceFails = FALSE
  MaxFlows = 2
INVARIANT AvhOwnsOutput
