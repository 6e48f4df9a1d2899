CONSTANTS
  keyA = keyA
  keyB = keyB
  a1 = a1
  a2 = a2
  b1 = b1
  b2 = b2
  NoItem = NoItem
  BadItem = BadItem
  NoKey = NoKey
  Items = {a1, a2, b1, b2}
  Keys = {keyA, keyB}
  KeyOf <- MCKeyOf
  Size <- MCSize
  KeySlots = 1
  PageCount = 2
  PageWords = 4
  CacheKind = "pointer"
  UserCalls <- CacheCalls
  CarefulRemoves = TRUE
  MaxFaults = 2
SPECIFICATION Spec
SYMMETRY ValueSymmetry
INVARIANTS CachedStates CachedPointers CachedKeys WritesErasedWords
PROPERTIES RefinesKeyValue RefusedOnlyWhenFull
