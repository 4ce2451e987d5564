--------------------------- MODULE SubmitPromise ---------------------------
(***************************************************************************)
(* What BundleBuilder::submit of src/bundle.rs promises its callers,       *)
(* without the engine, the transports and the retry loop: a worker makes a *)
(* bounded number of offers that never fall, the chain takes at most one   *)
(* of them, and the worker gets one answer, which is true when it says     *)
(* that a bundle landed.  An offer may still be taken after the caller was *)
(* told that the submission failed.                                        *)
(***************************************************************************)
EXTENDS Naturals, Sequences

CONSTANTS Workers, MaxAttempts, U64Max

VARIABLES
  offers, \* offers[w]: the tips offered so far, in order
  paid,   \* paid[w]: the indices of the offers the chain took
  answer  \* answer[w]: what the caller was told

promise == <<offers, paid, answer>>

NoAnswer == [kind |-> "none", offer |-> 0, tip |-> 0]

Failed == [kind |-> "failed", offer |-> 0, tip |-> 0]

Init ==
  /\ offers = [w \in Workers |-> << >>]
  /\ paid = [w \in Workers |-> {}]
  /\ answer = [w \in Workers |-> NoAnswer]

Offer(w) ==
  /\ answer[w] = NoAnswer
  /\ Len(offers[w]) < MaxAttempts
  /\ \E tip \in 0 .. U64Max :
       /\ \A i \in DOMAIN offers[w] : offers[w][i] <= tip
       /\ offers' = [offers EXCEPT ![w] = Append(@, tip)]
  /\ UNCHANGED <<paid, answer>>

Take(w) ==
  /\ paid[w] = {}
  /\ \E i \in DOMAIN offers[w] : paid' = [paid EXCEPT ![w] = {i}]
  /\ UNCHANGED <<offers, answer>>

TellLanded(w) ==
  /\ answer[w] = NoAnswer
  /\ \E i \in paid[w] :
       answer' = [answer EXCEPT ![w] = [kind |-> "landed", offer |-> i, tip |-> offers[w][i]]]
  /\ UNCHANGED <<offers, paid>>

TellFailed(w) ==
  /\ answer[w] = NoAnswer
  /\ answer' = [answer EXCEPT ![w] = Failed]
  /\ UNCHANGED <<offers, paid>>

Tell(w) == TellLanded(w) \/ TellFailed(w)

Next == \E w \in Workers : Offer(w) \/ Take(w) \/ Tell(w)

\* What may be observed, and that an answer comes at last.
Safety == Init /\ [][Next]_promise

Spec == Safety /\ \A w \in Workers : WF_promise(Tell(w))

=============================================================================
