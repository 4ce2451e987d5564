SPECIFICATION Spec
CONSTANTS
  U64Max = 13
  MaxAttempts = 2
  NotFinite = NotFinite
  Workers = {w1}
  Requests <- PlainRequests
  OracleTips = {}
  DynamicTips = {}
  PollBudget = 0
  Expiring = {}
INVARIANTS
  DroppedMeansNotLanded
CHECK_DEADLOCK FALSE
