--------------------------- MODULE SlidingWindow ---------------------------
(***************************************************************************)
(* What the tip oracle keeps, without the ring buffer: the last Capacity   *)
(* samples in the order they were pushed, and what a percentile query      *)
(* means, without sorting.                                                 *)
(***************************************************************************)
EXTENDS Naturals, Sequences, FiniteSets

CONSTANTS Capacity, Samples

VARIABLE window

Init == window = << >>

Push(lamports) ==
  window' = IF Len(window) < Capacity THEN Append(window, lamports)
                                      ELSE Append(Tail(window), lamports)

Next == \E lamports \in Samples : Push(lamports)

Spec == Init /\ [][Next]_window

-----------------------------------------------------------------------------
\* How many samples are smaller than an amount.
Below(amount) == Cardinality({i \in DOMAIN window : window[i] < amount})

\* The rank a percentile between 0 and 100 has among the samples, rounded.
Rank(p) == (2 * (Len(window) - 1) * p + 100) \div 200

\* The sample of that rank; defined unless the window is empty.
Percentile(p) ==
  CHOOSE v \in {window[i] : i \in DOMAIN window} : Below(v) <= Rank(p) /\ Rank(p) < Below(v + 1)

=============================================================================
