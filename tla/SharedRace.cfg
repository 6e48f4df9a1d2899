CONSTANTS
  N = 6
  MaxLen = 4
  Lengths = {1, 4}
  Buffers = {4}
  Policies = {"DiscardOldest"}
  TaskCalls <- DrainCalls
  FlashLen = 4
  FlashMin = 4
  FlashMax = 4
  MaxSends = 4
  MaxFaults = 0
  Producers = {p1, p2}
SPECIFICATION Spec
INVARIANT NothingLost
CHECK_DEADLOCK FALSE
