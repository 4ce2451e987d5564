\* Two clones of one engine submit at the same time.
SPECIFICATION Spec
CONSTANTS
  U64Max = 13
  MaxAttempts = 2
  NotFinite = NotFinite
  Workers = {w1, w2}
  Requests <- PeerRequests
  OracleTips = {}
  DynamicTips = {}
  PollBudget = 0
  Expiring = {}
SYMMETRY PeerSymmetry
INVARIANTS
  OutcomeMatchesLedger
  OnePaymentPerOutcome
CHECK_DEADLOCK FALSE
