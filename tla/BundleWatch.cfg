\* One submission against every behaviour of the engine.
SPECIFICATION WatchSpec
CONSTANTS
  U64Max = 13
  MaxAttempts = 3
  NotFinite = NotFinite
  Workers = {w1}
  Requests <- SoloRequests
  OracleTips = {7}
  DynamicTips = {0, 5}
  PollBudget = 1
  Expiring = {1}
  WatchBudget = 1
INVARIANTS
  WatchTypeOK
  VerdictsAgree
  TypeOK
  OutcomeMatchesLedger
  LandsAtMostOnce
  TipsClimbOnlyOnDrops
  FailureJustified
PROPERTIES
  WaitReturns
  NothingSentAfterFinalAnswer
  ExpiredNeverLands
  SubmitReturns
  ImplementsPromise
CHECK_DEADLOCK FALSE
