---------------------------- MODULE RetryPolicy ----------------------------
(***************************************************************************)
(* The arithmetic of src/retry.rs: validation, the delay before an         *)
(* attempt, and the tip bump between attempts.                             *)
(*                                                                         *)
(* A policy is a record with the fields of the Rust struct.  Its f64       *)
(* multiplier is an integer number of hundredths (2.0 is 200), or          *)
(* NotFinite for a NaN or an infinity; the rounding of f64 below one       *)
(* nanosecond is left out.                                                 *)
(***************************************************************************)
EXTENDS Integers

CONSTANTS
  U64Max,      \* the largest u64; 2^64 - 1 in the code, small in the models
  MaxAttempts, \* the largest attempt count a policy of the model carries
  NotFinite    \* a multiplier that is NaN or infinite

ASSUME NumbersAssumption == U64Max \in Nat /\ MaxAttempts \in Nat \ {0}

Lamports == 0 .. U64Max

\* The builder method max_attempts clamps its argument to at least one.
Policies == [ max_attempts    : 1 .. MaxAttempts,
              initial_backoff : Nat,
              max_backoff     : Nat,
              multiplier      : Nat \cup {NotFinite},
              tip_bump_bps    : Nat ]

Smaller(a, b) == IF a <= b THEN a ELSE b

WrappingAdd(a, b) == (a + b) % (U64Max + 1)

SaturatingAdd(a, b) == Smaller(a + b, U64Max)

ValidPolicy(policy) ==
  /\ policy.multiplier # NotFinite
  /\ policy.multiplier >= 100

\* The delay if the exponent counted from the last attempt instead of the
\* first retry.
BackoffForReversed(policy, attempt) ==
  IF attempt <= 1 THEN 0
  ELSE LET exp    == policy.max_attempts - attempt
           scaled == (policy.initial_backoff * policy.multiplier ^ exp) \div 100 ^ exp
       IN  Smaller(scaled, policy.max_backoff) % (U64Max + 1)

\* Delay before the given 1-indexed attempt.  The cap is applied in u128 and
\* the result cast to u64, which keeps the low 64 bits only.
BackoffFor(policy, attempt) ==
  IF attempt <= 1 THEN 0
  ELSE LET exp    == attempt - 2
           scaled == (policy.initial_backoff * policy.multiplier ^ exp) \div 100 ^ exp
       IN  Smaller(scaled, policy.max_backoff) % (U64Max + 1)

\* The bump with the wrapping addition of a release build.
BumpTipWrapping(policy, lamports) ==
  WrappingAdd(lamports, (lamports * policy.tip_bump_bps) \div 10000)

\* The bump without saturation, in wider integers.
BumpTipUnchecked(policy, lamports) ==
  lamports + (lamports * policy.tip_bump_bps) \div 10000

\* The bump with the division first.
BumpTipDivideFirst(policy, lamports) ==
  SaturatingAdd(lamports, (lamports \div 10000) * policy.tip_bump_bps)

\* The tip of the attempt after a drop: so many basis points more, saturating.
BumpTip(policy, lamports) ==
  SaturatingAdd(lamports,
                Smaller((lamports * policy.tip_bump_bps) \div 10000, U64Max))

=============================================================================
