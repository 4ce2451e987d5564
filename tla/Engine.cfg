SPECIFICATION EngineSpec
CONSTANTS
  Catalog <- ThreeRegions
  Timeout = 2
  MaxStart = 1
  CustomRegions <- Custom
  FeatureSets <- AllFeatures
  Plans <- TwoBuilds
  FirstByte <- SomePayers
  Ephemeral = {1}
  Handles = {1, 2}
  InnerBound = 3
INVARIANTS
  TypeOK
  FastestResponderWins
  EngineTypeOK
  EndpointOfRegion
  OracleIsFed
  NoOrphanStreams
PROPERTIES
  ImplementsValue
  BuildReturns
CHECK_DEADLOCK FALSE
