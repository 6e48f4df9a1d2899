CONSTANTS
  small = small
  other = other
  empty = empty
  huge = huge
  NoItem = NoItem
  BadItem = BadItem
  Items = {small, other, empty}
  Size <- MCSize
  PageCount = 1
  PageWords = 3
  CacheKind = "none"
  UserCalls <- QueueCalls
  MaxFaults = 1
SPECIFICATION Spec
PROPERTY PushedIsLast
