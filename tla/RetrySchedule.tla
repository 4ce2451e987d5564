--------------------------- MODULE RetrySchedule ---------------------------
(***************************************************************************)
(* The schedule a policy lays out for submit(): the delay before each      *)
(* attempt and the tip it carries, over many policies and tips.  Whether   *)
(* an attempt that failed was dropped (and its tip bumped) is left open.   *)
(***************************************************************************)
EXTENDS RetryPolicy

CONSTANTS
  SchedulePolicies, \* the policies to lay out
  StartTips         \* the resolved tips to start from

ASSUME ScheduleAssumption == SchedulePolicies \subseteq Policies /\ StartTips \subseteq Lamports

VARIABLES policy, attempt, delay, tip

schedule == <<policy, attempt, delay, tip>>

Init ==
  /\ policy \in SchedulePolicies
  /\ attempt = 0 /\ delay = 0
  /\ tip \in StartTips

\* The first attempt: validate() has passed.
FirstAttempt ==
  /\ attempt = 0
  /\ ValidPolicy(policy)
  /\ attempt' = 1 /\ delay' = BackoffFor(policy, 1)
  /\ UNCHANGED <<policy, tip>>

Retry ==
  /\ attempt \in 1 .. policy.max_attempts - 1
  /\ attempt' = attempt + 1 /\ delay' = BackoffFor(policy, attempt + 1)
  /\ UNCHANGED policy

\* After a drop or a poll timeout.
RetryDropped == Retry /\ tip' = BumpTip(policy, tip)

\* After a transport error.
RetryLost == Retry /\ UNCHANGED tip

Next == FirstAttempt \/ RetryDropped \/ RetryLost

Spec == Init /\ [][Next]_schedule

\* The first attempt goes out at once, the second waits for initial_backoff,
\* no later one waits less than the one before it, and max_backoff is a hard
\* ceiling, whatever the multiplier.
DelaysGrowToCeiling ==
  [][/\ attempt' = 1 => delay' = 0
     /\ attempt' = 2 => delay' = Smaller(policy.initial_backoff, policy.max_backoff)
     /\ delay <= delay'
     /\ delay' <= policy.max_backoff]_schedule

\* A drop raises the offer as soon as the bump is worth a lamport and until
\* the tip saturates; nothing ever lowers it, and a bump of zero leaves it.
BumpRaisesTip ==
  [][/\ tip <= tip'
     /\ tip' # tip => policy.tip_bump_bps > 0
     /\ (RetryDropped /\ tip * policy.tip_bump_bps >= 10000 /\ tip < U64Max) => tip < tip']_schedule

=============================================================================
