SPECIFICATION QuotesSpec
CONSTANTS
  RequestedCapacity = 2
  Samples = {1}
  Percentiles = {50}
  Readers = {r1}
  Wanted = {2}
INVARIANTS
  ColdMeansShort
