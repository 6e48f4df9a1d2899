CONSTANTS
  N = 6
  MaxLen = 4
  Lengths = {1, 3, 4}
  Buffers = {4}
  Policies = {"Err", "DiscardOldest"}
  TaskCalls <- AllCalls
  FlashLen = 3
  FlashMin = 1
  FlashMax = 2
  MaxSends = 4
  MaxFaults = 2
SPECIFICATION Spec
INVARIANTS TypeOK NothingLost InOrder
PROPERTY NoneMeansEmpty
