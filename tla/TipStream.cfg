SPECIFICATION Spec
CONSTANTS
  Streams = {s1, s2}
  Batches <- SomeBatches
  U64Max = 5
  Capacity = 2
INVARIANTS
  TypeOK
  OnlyPublishedTips
  SleepDoublesPerFailure
PROPERTIES
  KeepsTrying
