SPECIFICATION Spec
INVARIANTS StartIsServed
CHECK_DEADLOCK FALSE
CONSTANTS
  Outputs = {stream, recording}
  Faults = {}
  MaxStarts = 1
  MaxPackets = 2
  None = none
