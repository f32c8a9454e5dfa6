SPECIFICATION Spec
CONSTANTS
  Modulus = 4
  Width = 14
  Interval = 2
  Requested = 3
  Dirs = {"amba", "other"}
  Default = {"amba"}
  Complete = {"other"}
  MaxTicks = 1
  TimeBound = 11
INVARIANT SampleAdvances
INVARIANT TotalsAreTrue
INVARIANT EndsInTime
PROPERTY NoBurst
CHECK_DEADLOCK FALSE
