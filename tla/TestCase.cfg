SPECIFICATION FairSpec
CONSTANTS
  Programs <- AllPrograms
  MayFail = {"start"}
  Keys = {"q", "1", "x"}
  MaxTyped = 2
INVARIANT UsesLive
INVARIANT NothingLeft
INVARIANT FlushedByOwner
PROPERTY EofKeepsTicking
PROPERTY ImplementsReleaseOrder
