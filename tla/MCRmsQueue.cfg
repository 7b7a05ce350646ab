CONSTANTS
  Contexts = {c1, c2}
  Pids = {p1, p2}
  MAX_TASK_NR = 3
  NoContext = NoContext
  NoPid = NoPid
SPECIFICATION FairSpec
INVARIANT TypeOK
PROPERTY ImplementsFifo CallsReturn
