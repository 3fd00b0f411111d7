SPECIFICATION Spec
PROPERTIES StartReturns
CHECK_DEADLOCK FALSE
CONSTANTS
  UI = ui
  Ends = {e1, e2}
  Reconnects = {}
  Packets = p
  Others = {p}
  Faults = {"initialize", "open", "write"}
  RetryMax = 1
  SlowTimer = FALSE
  MaxStarts = 2
  MaxStops = 2
