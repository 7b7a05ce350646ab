SPECIFICATION Spec
CONSTANTS
  c0 = c0
  c1 = c1
  steady = steady
  shared = shared
  NoElem = NoElem
  CPUs <- MCCPUs
  Keys <- MCKeys
  SerialKeys = {steady}
  Lengths = {1, 2}
  rule_rate_bps = 67
  time_scale = 5
  NSEC_PER_SEC = 2
  U32 = 64
  U64 = 1024
  MaxEntries = 1
  MaxTime = 3
SYMMETRY EitherCPU
INVARIANTS TypeOK TokensWithinBucket
PROPERTIES ImplementsRateLimiter DropsOnlyExcess
