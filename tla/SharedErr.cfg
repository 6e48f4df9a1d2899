CONSTANTS
  N = 6
  MaxLen = 4
  Lengths = {1, 3, 4}
  Buffers = {1, 4}
  Policies = {"Err"}
  TaskCalls <- AllCalls
  FlashLen = 3
  FlashMin = 1
  FlashMax = 2
  MaxSends = 4
  MaxFaults = 1
  Producers = {p1, p2}
SPECIFICATION Spec
INVARIANTS TypeOK NothingLost InOrder NoLostWakeup
SYMMETRY ProducerSymmetry
CHECK_DEADLOCK FALSE
