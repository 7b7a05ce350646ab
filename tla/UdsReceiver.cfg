SPECIFICATION UdsSpec
CONSTANTS
  UdsSockets = {a, b, c}
  UdsThreads = {t, u}
  UdsElements = {e}
  NoSock = none
  MaxSends = 3
INVARIANT UdReportToReceiver
CHECK_DEADLOCK FALSE
