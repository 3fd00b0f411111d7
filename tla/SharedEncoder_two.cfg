SPECIFICATION Spec
INVARIANTS  EncoderIsOpen
PROPERTIES PacketsInOrder CallsReturn
CHECK_DEADLOCK FALSE
CONSTANTS
  Outputs = {stream, recording}
  Faults = {"create", "encode"}
  MaxStarts = 2
  MaxPackets = 4
  None = none
