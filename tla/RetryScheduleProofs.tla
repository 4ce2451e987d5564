------------------------ MODULE RetryScheduleProofs ------------------------
(***************************************************************************)
(* Proofs about the tips a schedule offers, for any policies, any start    *)
(* tips and any width of u64.                                              *)
(***************************************************************************)
EXTENDS RetrySchedule, TLAPS

\* What a bump does to a tip, the saturating addition and the truncating
\* division by 10000 included: it stays in u64, never falls, stays when the
\* bump is zero, and rises when the bump is worth a lamport and there is room.
LEMMA BumpEffects ==
  ASSUME NEW p \in Policies, NEW lamports \in Lamports
  PROVE  /\ BumpTip(p, lamports) \in Lamports
         /\ lamports <= BumpTip(p, lamports)
         /\ p.tip_bump_bps = 0 => BumpTip(p, lamports) = lamports
         /\ lamports * p.tip_bump_bps >= 10000 /\ lamports < U64Max =>
              lamports < BumpTip(p, lamports)
<1> DEFINE bps == p.tip_bump_bps
           product == lamports * bps
           bump == product \div 10000
<1>1. lamports \in Nat /\ lamports <= U64Max /\ U64Max \in Nat /\ bps \in Nat
  BY NumbersAssumption DEF Lamports, Policies
<1> HIDE DEF bps
<1>2. product \in Nat /\ (bps = 0 => product = 0)
  BY <1>1
<1> HIDE DEF product
<1>3. bump \in Nat /\ (product = 0 => bump = 0) /\ (product >= 10000 => bump > 0)
  BY <1>2
<1> HIDE DEF bump
<1>4. BumpTip(p, lamports) = Smaller(lamports + Smaller(bump, U64Max), U64Max)
  BY DEF BumpTip, SaturatingAdd, bump, product, bps
<1>5. /\ Smaller(lamports + Smaller(bump, U64Max), U64Max) \in Lamports
      /\ lamports <= Smaller(lamports + Smaller(bump, U64Max), U64Max)
      /\ bump = 0 => Smaller(lamports + Smaller(bump, U64Max), U64Max) = lamports
      /\ bump > 0 /\ lamports < U64Max =>
           lamports < Smaller(lamports + Smaller(bump, U64Max), U64Max)
  BY <1>1, <1>3 DEF Smaller, Lamports
<1>6. bps = 0 => BumpTip(p, lamports) = lamports
  BY <1>2, <1>3, <1>4, <1>5
<1>7. product >= 10000 /\ lamports < U64Max => lamports < BumpTip(p, lamports)
  BY <1>3, <1>4, <1>5
<1> QED BY <1>4, <1>5, <1>6, <1>7 DEF product, bps

\* The policy is one of the struct's, and the tip a u64.
ScheduleInv == policy \in Policies /\ tip \in Lamports

\* Both hold at first.
LEMMA ScheduleInit == Init => ScheduleInv
BY ScheduleAssumption DEF Init, ScheduleInv

\* Neither a bump nor anything else takes the tip out of u64.
LEMMA ScheduleStep == ScheduleInv /\ [Next]_schedule => ScheduleInv'
<1> SUFFICES ASSUME ScheduleInv, [Next]_schedule PROVE ScheduleInv'
  OBVIOUS
<1>1. CASE FirstAttempt
  BY <1>1 DEF FirstAttempt, ScheduleInv
<1>2. CASE RetryDropped
  BY <1>2, BumpEffects DEF RetryDropped, Retry, ScheduleInv
<1>3. CASE RetryLost
  BY <1>3 DEF RetryLost, Retry, ScheduleInv
<1>4. CASE UNCHANGED schedule
  BY <1>4 DEF schedule, ScheduleInv
<1> QED BY <1>1, <1>2, <1>3, <1>4 DEF Next

\* A drop raises the offer as soon as the bump is worth a lamport and until
\* the tip saturates; nothing lowers it, and a policy without a bump keeps it.
THEOREM TipsRise == Spec => BumpRaisesTip
<1>1. ScheduleInv /\ [Next]_schedule =>
        [/\ tip <= tip'
         /\ tip' # tip => policy.tip_bump_bps > 0
         /\ (RetryDropped /\ tip * policy.tip_bump_bps >= 10000 /\ tip < U64Max) =>
              tip < tip']_schedule
  <2> SUFFICES ASSUME ScheduleInv, Next
               PROVE  /\ tip <= tip'
                      /\ tip' # tip => policy.tip_bump_bps > 0
                      /\ (/\ RetryDropped /\ tip * policy.tip_bump_bps >= 10000
                          /\ tip < U64Max) => tip < tip'
    OBVIOUS
  <2>1. policy \in Policies /\ tip \in Lamports /\ tip <= tip /\ policy.tip_bump_bps \in Nat
    BY DEF ScheduleInv, Lamports, Policies
  <2>2. CASE RetryDropped
    <3>1. tip' = BumpTip(policy, tip)
      BY <2>2 DEF RetryDropped
    <3> QED BY <2>1, <3>1, BumpEffects
  <2>3. CASE ~RetryDropped
    BY <2>1, <2>3 DEF Next, FirstAttempt, RetryLost
  <2> QED BY <2>2, <2>3
<1> QED BY <1>1, ScheduleInit, ScheduleStep, PTL DEF Spec, BumpRaisesTip

=============================================================================
