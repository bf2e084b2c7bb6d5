SPECIFICATION Spec
CONSTANTS
  Chips = {"chip1", "chip2"}
  Requests = {"request"}
  NumFds = 3
  BufSize = 2
  MaxEvents = 3
INVARIANT ChipAsserted
CHECK_DEADLOCK FALSE
