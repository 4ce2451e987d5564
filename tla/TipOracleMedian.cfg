SPECIFICATION KnownDistribution
CONSTANTS
  RequestedCapacity = 100
  Samples <- TestSamples
  Percentiles = {50, 75, 95}
  Readers = {}
  Wanted = {}
INVARIANTS
  KnownPercentiles
CHECK_DEADLOCK FALSE
