SPECIFICATION Spec
CONSTANTS
  t1 = t1
  t2 = t2
  t3 = t3
  t4 = t4
  c0 = c0
  c1 = c1
  c24 = c24
  NoTask = NoTask
  Tasks = {t1, t2, t3}
  CPUs <- MCCPUs
  SchedCPUs <- MCSchedCPUs
  TaskCpu <- AllOnOneCpu
  Unpinned = {}
  Util <- MCUtil
  Load <- MCLoad
  Bound <- MCBound
  MaxCount <- MCMaxCount
  MAX_TASK_NR = 3
  SerialCPUs = {}
CHECK_DEADLOCK FALSE
INVARIANT RunningWithinBound
