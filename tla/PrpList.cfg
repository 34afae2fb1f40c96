SPECIFICATION Spec
CONSTANTS
  E = 6
  REQ_MAX_BLOCKS = 3
  SmallEntries = 3
  INT_PAGES = 2
  PageSize = 2
  BlockSize = 2
  Transfers <- SmallTransfers
  Breaks <- AllBreaks
INVARIANT CommandsCoverBuffer
INVARIANT ListsFit
INVARIANT AllReleased
