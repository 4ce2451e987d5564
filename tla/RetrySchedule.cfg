SPECIFICATION Spec
CONSTANTS
  U64Max = 40
  MaxAttempts = 4
  NotFinite = NotFinite
  SchedulePolicies <- SomePolicies
  StartTips <- SomeTips
PROPERTIES
  DelaysGrowToCeiling
  BumpRaisesTip
CHECK_DEADLOCK FALSE
