SPECIFICATION Spec
CONSTANTS
  Feeders = {"f1"}
  Source = "f1"
  Builds = {"hdmi"}
  Early = {"hdmi"}
  Caps = {1, 2}
  Display = TRUE
  InCap = 1
  OutCap = 1
INVARIANT JoinHoldsNoNeededLock
