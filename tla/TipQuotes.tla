----------------------------- MODULE TipQuotes -----------------------------
(***************************************************************************)
(* The program examples/with_tip_oracle.rs, run by every reader of an      *)
(* oracle that somebody else feeds: it waits for warmup(n), asks for p50,  *)
(* p75 and p95 one after the other, and submits a bundle with the tip      *)
(* strategy Percentile75, for which submit() asks once more.  Every query  *)
(* takes the lock anew: samples may be pushed between any two of them.     *)
(***************************************************************************)
EXTENDS TipOracle

\* asked[r].pc is "asking", "failed" when a query found the oracle cold, or
\* "done" when submit() has its tip.  The age of a quote is the number of
\* pushes since, counted up to Capacity, when none of its samples is left.
VARIABLE asked

quoteVars == <<vars, asked>>

\* The names of two percentiles exchanged.
QuantileSwapped == [p50 |-> 95, p75 |-> 75, p95 |-> 50]

Quantile == [p50 |-> 50, p75 |-> 75, p95 |-> 95]

\* The queries of the program; the last one is resolve_tip's.
Queries == <<"p50", "p75", "p95", "p75">>

QuotesInit == Init /\ asked = [r \in Readers |-> [pc |-> "asking", quotes |-> << >>]]

Asking(r) == At(r, "ready") /\ asked[r].pc = "asking"

Turn(r, a) == asked' = [asked EXCEPT ![r] = a] /\ UNCHANGED vars

AllAsked(r) == Len(asked[r].quotes) = Len(Queries)

Ask(r) ==
  /\ Asking(r) /\ ~AllAsked(r)
  /\ ~Cold
  /\ LET p == Quantile[Queries[Len(asked[r].quotes) + 1]]
     IN  Turn(r, [asked[r] EXCEPT
                   !.quotes = Append(@, [lamports |-> Percentile(p), age |-> 0])])

AskCold(r) ==
  /\ Asking(r) /\ ~AllAsked(r)
  /\ Cold
  /\ Turn(r, [asked[r] EXCEPT !.pc = "failed"])

\* What happens to the bundle is for BundleSubmit.
TipResolved(r) ==
  /\ Asking(r) /\ AllAsked(r)
  /\ Turn(r, [pc |-> "done", quotes |-> << >>])

Program(r) == Ask(r) \/ AskCold(r) \/ TipResolved(r)

Older(quote) == [quote EXCEPT !.age = IF @ < Capacity THEN @ + 1 ELSE @]

\* A sample arrives from a stream task or from the caller.
Fed ==
  /\ \E lamports \in Samples : PushSample(lamports)
  /\ asked' = [r \in Readers |->
                [asked[r] EXCEPT !.quotes = [i \in DOMAIN @ |-> Older(@[i])]]]

\* A step of warmup().
Waiting(A) == A /\ UNCHANGED asked

QuotesNext ==
  \/ Fed
  \/ \E r \in Readers :
       \/ Waiting(CheckLen(r)) \/ Waiting(CheckDeadline(r)) \/ Waiting(ReportCold(r))
       \/ Waiting(SleepOver(r)) \/ Waiting(TimePasses(r))
       \/ Program(r)

\* As for warmup(): a reader's future is polled until it ends.
QuotesSpec ==
  /\ QuotesInit /\ [][QuotesNext]_quoteVars
  /\ \A r \in Readers : /\ WF_quoteVars(Waiting(Warmup(r)))
                        /\ WF_quoteVars(Waiting(TimePasses(r)))
                        /\ WF_quoteVars(Program(r))

-----------------------------------------------------------------------------
\* Quotes are samples, and a query finds the oracle cold only in a program that
\* waited for no sample at all: after warmup(n) with n of at least one neither
\* p50() nor submit() answers TipOracleCold.
QuotesTypeOK ==
  \A r \in Readers :
    /\ asked[r].pc \in {"asking", "failed", "done"}
    /\ asked[r].pc = "failed" => warm[r].n = 0
    /\ asked[r].quotes \in Seq([lamports : Samples, age : 0 .. Capacity])

\* The percentile that the name of the i-th query says.
Named(i) ==
  CASE Queries[i] = "p50" -> 50
    [] Queries[i] = "p75" -> 75
    [] Queries[i] = "p95" -> 95

\* A quote is wrong by no more ranks than samples were pushed since it was
\* taken, while the oracle fills up and when it slides.
QuotesAgeByPushes ==
  \A r \in Readers : \A i \in DOMAIN asked[r].quotes :
    LET quote == asked[r].quotes[i]
        rank  == Sliding!Rank(Named(i))
    IN  /\ Sliding!Below(quote.lamports) <= rank + quote.age
        /\ rank < Sliding!Below(quote.lamports + 1) + quote.age

\* Quotes with no push between them are those of one distribution: p50 at most
\* p75 at most p95, and the tip that is submitted is the p75 the program
\* printed.  They stay so while samples arrive.
QuotesOrdered ==
  \A r \in Readers : \A i, j \in DOMAIN asked[r].quotes :
    LET one == asked[r].quotes[i]
        two == asked[r].quotes[j]
    IN  Named(i) <= Named(j) /\ one.age = two.age /\ one.age < Capacity =>
          one.lamports <= two.lamports

=============================================================================
