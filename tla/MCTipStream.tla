---------------------------- MODULE MCTipStream ----------------------------
(***************************************************************************)
(* Batches for TLC: an empty one, one of ordinary values, one with a value *)
(* of each odd kind in two frames.                                         *)
(***************************************************************************)
EXTENDS TipStream

Missing == [kind |-> "missing", tenths |-> 0]

NaN == [kind |-> "nan", tenths |-> 0]

Lamports(tenths) == [kind |-> "finite", tenths |-> tenths]

SomeBatches ==
  { << >>,
    << <<Lamports(19), Lamports(25), Lamports(40)>> >>,
    << <<Missing, NaN, Lamports(-12)>>, <<Lamports(99), Missing, Lamports(10)>> >> }

=============================================================================
