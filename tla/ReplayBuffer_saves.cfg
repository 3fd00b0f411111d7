SPECIFICATION Spec
CONSTANTS
  KeySize = 2
  MaxSize = 9
  MaxTime = 3
  Faults = {"pipe", "write"}
  Lags = {2}
  MaxPackets = 5
  MaxStarts = 2
  MaxStops = 1
  MaxSaves = 2
INVARIANTS Bounded FileWhole BufferGoesOn
CHECK_DEADLOCK FALSE
