CONSTANTS
  small = small
  other = other
  empty = empty
  huge = huge
  NoItem = NoItem
  BadItem = BadItem
  Items = {small, empty}
  Size <- MCSize
  PageCount = 2
  PageWords = 2
  CacheKind = "pointer"
  UserCalls <- QueueCalls
  MaxFaults = 2
SPECIFICATION FairSpec
INVARIANTS CachedStates CachedPointers WritesErasedWords AlwaysRepaired
PROPERTIES RefinesFifo CallsReturn
