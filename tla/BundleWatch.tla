----------------------------- MODULE BundleWatch -----------------------------
(***************************************************************************)
(* JitoEngine::wait_for_bundle and bundle_status of src/engine.rs: what a  *)
(* caller does with the bundle id that submit() returned, on its own or in *)
(* an error, while the engine and the chain go on.                         *)
(*                                                                         *)
(* watch[w].pc stops at every await of wait_for_bundle:                    *)
(*    idle     the caller has not called it                                *)
(*    call     about to call bundle_status                                 *)
(*    called   bundle_status has its answer, not yet acted upon            *)
(*    done     it has returned watch[w].verdict, a status or a failure     *)
(***************************************************************************)
EXTENDS BundleSubmit

CONSTANT WatchBudget \* how many sleeps of 500 ms fit into the timeout

ASSUME WatchAssumption == WatchBudget \in Nat

Watching(w, pc) == watch[w].pc = pc

Turn(w, t) ==
  /\ watch' = [watch EXCEPT ![w] = t]
  /\ UNCHANGED <<req, task, bundle, ledger, oracle, dead>>

\* The results that tell the caller a bundle id: BundleOutcome, Error::Rejected
\* and the Error::Dropped inside RetriesExhausted.  It is the id of the bundle
\* polled last.
NamesBundle(w) == task[w].result.kind \in {"Landed", "Rejected", "RetriesExhausted"}

Named(w) == bundle[w][task[w].bundle_id]

WaitForBundle(w) ==
  /\ Watching(w, "idle")
  /\ NamesBundle(w)
  /\ Turn(w, [watch[w] EXCEPT !.pc = "call", !.left = WatchBudget])

\* bundle_status, a call of the client.
BundleStatus(w) ==
  /\ Watching(w, "call")
  /\ \E left \in 0 .. watch[w].left,
        reply \in StatusesOf(req[w].transport, Named(w).st) \cup CallFailures(req[w].transport) :
       Turn(w, [watch[w] EXCEPT !.pc = "called", !.reply = reply, !.left = left])

Conclude(w, verdict) == Turn(w, [watch[w] EXCEPT !.pc = "done", !.verdict = verdict])

\* A poll timeout counted as a drop, as submit() counts it.
DeadlineAsDrop(w) ==
  /\ Watching(w, "called")
  /\ watch[w].reply = "Pending" /\ watch[w].left = 0
  /\ Conclude(w, "Dropped")

\* The deadline has passed: the last status is returned, pending as it is.
DeadlinePassed(w) ==
  /\ Watching(w, "called")
  /\ watch[w].reply = "Pending" /\ watch[w].left = 0
  /\ Conclude(w, "Pending")

\* A failed call, of whatever kind, is returned at once; so is a terminal
\* status.
Settled(w) ==
  /\ Watching(w, "called")
  /\ watch[w].reply \in Failures \/ IsTerminal(watch[w].reply)
  /\ Conclude(w, watch[w].reply)

\* A loop that does not look at its deadline.
SleepPastDeadline(w) ==
  /\ Watching(w, "called")
  /\ watch[w].reply = "Pending"
  /\ Turn(w, [watch[w] EXCEPT !.pc = "call", !.left = @ - 1])

\* A sleep after which the deadline is computed afresh.
SleepDeadlineReset(w) ==
  /\ Watching(w, "called")
  /\ watch[w].reply = "Pending" /\ watch[w].left > 0
  /\ Turn(w, [watch[w] EXCEPT !.pc = "call", !.left = WatchBudget])

Sleep(w) ==
  /\ Watching(w, "called")
  /\ watch[w].reply = "Pending" /\ watch[w].left > 0
  /\ Turn(w, [watch[w] EXCEPT !.pc = "call", !.left = @ - 1])

Wait(w) == BundleStatus(w) \/ Settled(w) \/ DeadlinePassed(w) \/ Sleep(w)

WatchNext ==
  \/ Next
  \/ \E w \in Workers : WaitForBundle(w) \/ Wait(w)

\* As for submit(): a future that is awaited is polled, and every await in it
\* ends.  Nobody has to call wait_for_bundle.
WatchSpec ==
  /\ Init /\ [][WatchNext]_vars
  /\ \A w \in Workers : WF_vars(Submit(w)) /\ WF_vars(Wait(w))

-----------------------------------------------------------------------------
\* The watch has its type, and there is one only of a bundle that was sent.
WatchTypeOK ==
  \A w \in Workers :
    /\ watch[w] \in [ pc      : {"idle", "call", "called", "done"},
                      left    : 0 .. WatchBudget,
                      reply   : Statuses \cup Failures \cup {"none"},
                      verdict : Statuses \cup Failures \cup {"none"} ]
    /\ ~Watching(w, "idle") => task[w].bundle_id \in Attempts /\ Named(w).st \in Accepted

\* What submit() said of a bundle and what wait_for_bundle says of it later
\* never contradict each other or the chain: no other terminal status follows
\* a landing or a rejection, Landed means that this bundle landed and no other
\* of the submission, Dropped and Rejected that it never will.  After
\* RetriesExhausted every verdict is possible.
VerdictsAgree ==
  \A w \in Workers :
    LET told    == task[w].result.kind
        verdict == watch[w].verdict
    IN  /\ told = "Landed" => verdict \notin {"Dropped", "Rejected"}
        /\ told = "Rejected" => verdict \notin {"Landed", "Dropped"}
        /\ verdict = "Landed" =>
             \A a \in Attempts : Landed(w, a) <=> a = task[w].bundle_id
        /\ verdict \in {"Dropped", "Rejected"} => Named(w).st \in {"dropped", "rejected"}

\* wait_for_bundle returns, whatever the engine answers.
WaitReturns == \A w \in Workers : Watching(w, "call") ~> Watching(w, "done")

=============================================================================
