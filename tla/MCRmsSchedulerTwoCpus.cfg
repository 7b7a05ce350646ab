SPECIFICATION Spec
CONSTANTS
  high = high
  mid = mid
  low = low
  c0 = c0
  c1 = c1
  NoTask = NoTask
  Tasks <- MCTasks
  CPUs = {c0, c1}
  Budget <- ShortBudget
  Period <- ShortPeriod
  AttrCpu <- AllOnC0
  Affinity <- HighUnpinned
  Sleepers = {high}
  Movers = {low}
  Exiters = {low}
  Leavers = {low}
  FEATURE_MIGRATION = FALSE
  FEATURE_BUDGET_OVERRUN = FALSE
INVARIANTS TypeOK NoLostTask ReleasedWillBeDispatched QueueStaysShort RunningIsBudgeted NoScxError
