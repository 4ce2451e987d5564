---------------------------- MODULE MCTipOracle ----------------------------
(***************************************************************************)
(* Percentiles to ask for; and the unit test of tip.rs that fills an       *)
(* oracle of 100 samples with 1000, 2000, ... 100000, as a specification   *)
(* of its own, in which no reader takes part.                              *)
(***************************************************************************)
EXTENDS TipQuotes

\* Percentiles out of range are clamped.
SomePercentiles == {-5, 50, 75, 95, 150}

TestSamples == {i * 1000 : i \in 1 .. 100}

KnownDistribution ==
  QuotesInit /\ [][~filled /\ PushSample((cursor + 1) * 1000) /\ UNCHANGED asked]_quoteVars

\* What percentile_on_known_distribution asserts once its loop is over.
KnownPercentiles ==
  filled => Percentile(50) = 50000 /\ Percentile(75) = 75000 /\ Percentile(95) = 95000

=============================================================================
