SPECIFICATION NetfilterSpec
CONSTANTS
  Skbs = {a}
  MaxPackets = 1
INVARIANT NfForwardReported
CHECK_DEADLOCK FALSE
