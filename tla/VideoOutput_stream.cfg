SPECIFICATION Spec
INVARIANTS NoTornFrame QueueContiguous SemaphoreAccounts
PROPERTIES StreamSpec VideoExits InputsInOrder
CONSTANTS
  CacheSize = 3
  MaxCount = 2
  MaxTime = 4
  Inputs = {i1, i2}
