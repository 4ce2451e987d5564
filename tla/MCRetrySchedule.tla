-------------------------- MODULE MCRetrySchedule --------------------------
(***************************************************************************)
(* Policies for TLC: multipliers that fail validation, that keep, halve up *)
(* and double the delay, ceilings below and above initial_backoff, bumps   *)
(* from none to +150 %.                                                    *)
(***************************************************************************)
EXTENDS RetrySchedule

SomePolicies ==
  [ max_attempts    : {1, 4},
    initial_backoff : {0, 1, 3},
    max_backoff     : {0, 2, 20},
    multiplier      : {NotFinite, 99, 100, 150, 300},
    tip_bump_bps    : {0, 1, 2500, 15000} ]

SomeTips == {0, 1, 3, 4, 10, 37, 40}

=============================================================================
