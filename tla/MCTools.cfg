SPECIFICATION Spec
CONSTANTS
  Skbs = {a}
  MaxPackets = 3
  Packets = {a, b}
  Keys = {k}
  Elements = {a, b}
  MaxTime = 4
  Sockets = {a, b}
  Threads = {t}
  MaxLife = 2
  all_conn = FALSE
  Conns = {a, b}
  Tuples = {k, l}
  MaxSent = 2
  CounterCpus = {a, b, c}
  MaxCount = 3
  Loaders = {a, b, c}
  NoLoader = none
  UdsSockets = {a, b}
  UdsThreads = {t, u}
  UdsElements = {e}
  NoSock = none
  MaxSends = 2
  ShThreads = {t, u}
  ShElements = {e, f}
  MaxCalls = 4
  IoCpus = {a, b}
  Sectors = {r, s}
  Owners = {o, p}
  MaxIssued = 2
  StCpus = {a, b}
  MaxReadings = 6
  SyThreads = {t}
  SyOptions = {0, 2, 3}
  MAX_SYSCALL_COUNT = 2
  MaxEvents = 9
  SiTasks = {t, u}
  SiCpus = 1
  MaxClock = 5
  Services = {a, b, c}
  NoService = none
INVARIANTS
  NfReportOfOnePacket PtTimesNeverOlder
  NcRecordsAreCurrent NcStoreOfConnecting NcStateTimesOneLife
  SmTransparent SmRedirectsAcross McCountBounds TcFiltersOwned
  UdReportsAdvance ShReportsOwnCall IoChargedOnce IoChargesKept StNeverTooLong
  SySequencesExact SiDelaysExact SvReachable SvNoMapLeft
CHECK_DEADLOCK FALSE
