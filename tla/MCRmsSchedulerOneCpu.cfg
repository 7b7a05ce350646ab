SPECIFICATION FairSpec
CONSTANTS
  high = high
  mid = mid
  low = low
  c0 = c0
  c1 = c1
  NoTask = NoTask
  Tasks <- ThreeTasks
  CPUs = {c0}
  Budget <- ThreeBudgets
  Period <- ThreePeriods
  AttrCpu <- ThreeOnC0
  Affinity <- ThreePinned
  Sleepers = {}
  Movers = {}
  Exiters = {}
  Leavers = {}
  FEATURE_MIGRATION = FALSE
  FEATURE_BUDGET_OVERRUN = FALSE
INVARIANTS NoLostTask ReleasedWillBeDispatched QueueStaysShort RunningIsBudgeted
PROPERTY EveryReadyTaskRuns
