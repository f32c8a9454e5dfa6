SPECIFICATION FairSpec
CONSTANTS
  Codes = {256, 300}
  Nodes = {"event0", "event1"}
  Cap = 5
  Offsets = {0, 3}
  MaxEvents = 5
INVARIANT StatesAreTrue
INVARIANT HeldIsTrue
PROPERTY QueueIsRead
