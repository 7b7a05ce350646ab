SPECIFICATION Spec
CONSTANTS
  high = high
  mid = mid
  low = low
  c0 = c0
  c1 = c1
  NoTask = NoTask
  Tasks <- MCTasks
  CPUs = {c0}
  Budget <- MCBudget
  Period <- MCPeriod
  AttrCpu <- AllOnC0
  Affinity <- PinnedToC0
  Sleepers = {}
  Movers = {}
  Exiters = {}
  Leavers = {}
  FEATURE_MIGRATION = FALSE
  FEATURE_BUDGET_OVERRUN = FALSE
INVARIANT StrictPriority
