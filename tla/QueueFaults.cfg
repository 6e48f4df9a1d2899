CONSTANTS
  small = small
  other = other
  empty = empty
  huge = huge
  NoItem = NoItem
  BadItem = BadItem
  Items = {small, empty, huge}
  Size <- MCSize
  PageCount = 3
  PageWords = 2
  CacheKind = "none"
  UserCalls <- AllCalls
  MaxFaults = 1
SPECIFICATION Spec
INVARIANTS TypeOK PageOrder FullHoldsItem
PROPERTIES RefinesFifo MaxFitIsLimit SpaceLeftCovers
