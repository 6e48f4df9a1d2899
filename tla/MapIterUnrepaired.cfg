CONSTANTS
  keyA = keyA
  keyB = keyB
  a1 = a1
  a2 = a2
  b1 = b1
  b2 = b2
  NoItem = NoItem
  BadItem = BadItem
  NoKey = NoKey
  Items = {a1, a2, b1}
  Keys = {keyA, keyB}
  KeyOf <- MCKeyOf
  Size <- MCSize
  KeySlots = 0
  PageCount = 2
  PageWords = 2
  CacheKind = "none"
  UserCalls <- IterCalls
  CarefulRemoves = TRUE
  MaxFaults = 1
SPECIFICATION Spec
INVARIANT IterRepaired
