SPECIFICATION QuotesSpec
CONSTANTS
  RequestedCapacity = 3
  Samples = {1, 2, 3}
  Percentiles <- SomePercentiles
  Readers = {r1}
  Wanted = {0, 2, 4}
INVARIANTS
  TypeOK
  PercentileHasItsRank
  WarmStaysWarm
  QuotesTypeOK
  QuotesAgeByPushes
  QuotesOrdered
PROPERTIES
  WarmupReturns
  ImplementsWindow
