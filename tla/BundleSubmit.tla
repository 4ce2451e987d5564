---------------------------- MODULE BundleSubmit ----------------------------
(***************************************************************************)
(* BundleBuilder::submit and await_terminal of src/bundle.rs, run          *)
(* concurrently by the Workers that hold clones of one JitoEngine, against *)
(* the block engine and the chain's ledger.                                *)
(*                                                                         *)
(* A worker submits one bundle.  Its control state task[w].pc stops at     *)
(* every await of the code:                                                *)
(*    start    the request is built, submit() not yet run                  *)
(*    next     the head of the retry loop, and its backoff sleep           *)
(*    send     about to call send_bundle                                   *)
(*    sending  awaiting the answer of send_bundle                          *)
(*    poll     about to call bundle_status                                 *)
(*    polled   bundle_status has its answer, not yet acted upon            *)
(*    done     submit() has returned task[w].result                        *)
(*                                                                         *)
(* An attempt sends at most one bundle, so the bundle of attempt a of w is *)
(* bundle[w][a], and a is the id the engine returns for it.                *)
(***************************************************************************)
EXTENDS RetryPolicy, BundleClient, FiniteSets

CONSTANTS
  Workers,     \* the tasks that submit
  Requests,    \* the requests a BundleBuilder may hold when submit() is called
  OracleTips,  \* the percentiles the tip oracle may come to answer
  DynamicTips, \* the tips a TipStrategy::Dynamic closure may return
  PollBudget,  \* how many poll intervals fit into poll_timeout
  Expiring     \* the blockhashes that may come to expire

MaxBundleSize == 5

NumTipAccounts == 8

Strategies == {"Fixed", "Percentile", "Dynamic"}

\* What submit() reads of the builder.  txs is the number of user
\* transactions, encodable says that bincode can serialize them all, tip is
\* the amount of the Fixed strategy; blockhash is the explicit one or else
\* that of the last user transaction.
RequestType == [ transport         : Transports,
                 txs               : Nat,
                 encodable         : BOOLEAN,
                 strategy          : Strategies,
                 tip               : Lamports,
                 tip_account_index : Nat,
                 blockhash         : Nat,
                 policy            : Policies ]

ASSUME SubmitAssumption ==
  /\ Requests \subseteq RequestType
  /\ OracleTips \subseteq Lamports
  /\ DynamicTips \subseteq Lamports
  /\ PollBudget \in Nat
  /\ Expiring \subseteq Nat

VARIABLES
  req,     \* req[w]: the request of w
  task,    \* task[w]: the control state of w's submit()
  bundle,  \* bundle[w][a]: what became of the bundle of attempt a
  ledger,  \* the transactions the chain has executed
  oracle,  \* the percentile the oracle answers now, {} while it is cold
  dead,    \* the blockhashes that have expired
  watch    \* watch[w]: what w does with its answer; only BundleWatch changes it

vars == <<req, task, bundle, ledger, oracle, dead, watch>>

Attempts == 1 .. MaxAttempts

NotWatching == [pc |-> "idle", left |-> 0, reply |-> "none", verdict |-> "none"]

NoResult == [kind |-> "none", bundle_id |-> 0, attempts |-> 0, tip |-> 0, last |-> "none"]

Init ==
  /\ req \in [Workers -> Requests]
  /\ task = [w \in Workers |->
              [pc |-> "start", attempt |-> 0, tip |-> 0, bundle_id |-> 0, left |-> 0,
               reply |-> "none", last_err |-> "none", result |-> NoResult]]
  /\ bundle = [w \in Workers |-> [a \in Attempts |-> [st |-> "none", tip |-> 0]]]
  /\ ledger = {}
  /\ oracle = {}
  /\ dead = {}
  /\ watch = [w \in Workers |-> NotWatching]

-----------------------------------------------------------------------------
(***************************************************************************)
(* The transactions of a bundle: the user's, the same in every attempt,    *)
(* and the tip transfer.  All clones of the engine share one tip payer and *)
(* signing is deterministic, so equal fields mean the same transaction.    *)
(***************************************************************************)
UserTxs(w) == {[worker |-> w, n |-> n] : n \in 1 .. req[w].txs}

PickTipAccount(index) == index % NumTipAccounts

\* A tip transfer signed with a newer blockhash in every attempt.
TipTxFresh(w, a) == [ account   |-> PickTipAccount(req[w].tip_account_index),
                      lamports  |-> bundle[w][a].tip,
                      blockhash |-> req[w].blockhash + a - 1 ]

\* Its blockhash is the one submit() read before the loop, in every attempt.
TipTx(w, a) == [ account   |-> PickTipAccount(req[w].tip_account_index),
                 lamports  |-> bundle[w][a].tip,
                 blockhash |-> req[w].blockhash ]

\* A bundle whose user transactions were moved out by the first attempt.
BundleTxsMovedOut(w, a) ==
  IF a = 1 THEN UserTxs(w) \cup {TipTx(w, a)} ELSE {TipTx(w, a)}

BundleTxs(w, a) == UserTxs(w) \cup {TipTx(w, a)}

-----------------------------------------------------------------------------
(***************************************************************************)
(* submit().                                                               *)
(***************************************************************************)
At(w, pc) == task[w].pc = pc

Become(w, t) ==
  /\ task' = [task EXCEPT ![w] = t]
  /\ UNCHANGED <<req, bundle, ledger, oracle, dead, watch>>

Return(w, result) == Become(w, [task[w] EXCEPT !.pc = "done", !.result = result])

Fail(w, kind) == Return(w, [NoResult EXCEPT !.kind = kind])

LastAttempt(w) == task[w].attempt >= req[w].policy.max_attempts

SizeOK(w) == req[w].txs >= 1 /\ req[w].txs <= MaxBundleSize - 1

\* resolve_tip: no tip at all stands for Error::TipOracleCold.
ResolveTip(w) ==
  CASE req[w].strategy = "Fixed" -> {req[w].tip}
    [] req[w].strategy = "Dynamic" -> DynamicTips
    [] req[w].strategy = "Percentile" -> oracle

RejectPolicy(w) ==
  /\ At(w, "start")
  /\ ~ValidPolicy(req[w].policy)
  /\ Fail(w, "InvalidConfig")

RejectSize(w) ==
  /\ At(w, "start")
  /\ ValidPolicy(req[w].policy)
  /\ ~SizeOK(w)
  /\ Fail(w, "InvalidBundleSize")

OracleCold(w) ==
  /\ At(w, "start")
  /\ ValidPolicy(req[w].policy) /\ SizeOK(w)
  /\ req[w].strategy = "Percentile" /\ oracle = {}
  /\ Fail(w, "TipOracleCold")

Start(w) ==
  /\ At(w, "start")
  /\ ValidPolicy(req[w].policy) /\ SizeOK(w)
  /\ \E tip \in ResolveTip(w) :
       Become(w, [task[w] EXCEPT !.pc = "next", !.tip = tip])

\* The sleep lasts BackoffFor(policy, attempt), which RetrySchedule checks;
\* here only that it ends matters.
NextAttempt(w) ==
  /\ At(w, "next")
  /\ ~LastAttempt(w)
  /\ Become(w, [task[w] EXCEPT !.pc = "send", !.attempt = @ + 1])

Exhausted(w) ==
  /\ At(w, "next")
  /\ LastAttempt(w)
  /\ Return(w, [NoResult EXCEPT
                 !.kind     = "RetriesExhausted",
                 !.attempts = req[w].policy.max_attempts,
                 !.last     = IF task[w].last_err = "none" THEN "StatusStreamClosed"
                                                           ELSE task[w].last_err])

\* encode_bundle runs anew for every attempt, after its backoff.
EncodeFailed(w) ==
  /\ At(w, "send")
  /\ ~req[w].encodable
  /\ Fail(w, "Serde")

Send(w) ==
  /\ At(w, "send")
  /\ req[w].encodable
  /\ task' = [task EXCEPT ![w].pc = "sending"]
  /\ bundle' = [bundle EXCEPT ![w][task[w].attempt] = [st |-> "inflight", tip |-> task[w].tip]]
  /\ UNCHANGED <<req, ledger, oracle, dead, watch>>

Accepted == {"pending", "landed", "dropped", "rejected"}

Sent(w, a) == bundle[w][a].st # "none"

Landed(w, a) == bundle[w][a].st = "landed"

SendOk(w) ==
  /\ At(w, "sending")
  /\ bundle[w][task[w].attempt].st \in Accepted
  /\ Become(w, [task[w] EXCEPT !.pc = "poll", !.bundle_id = task[w].attempt,
                               !.left = PollBudget])

\* A failed call that retries the last attempt's failure too.
CallFailedUnguarded(w, failure) ==
  LET error == ErrorOf(req[w].transport, failure)
  IN  \/ /\ IsRetriable(error)
         /\ Become(w, [task[w] EXCEPT !.pc = "next", !.reply = failure, !.last_err = error])
      \/ /\ ~IsRetriable(error)
         /\ Become(w, [task[w] EXCEPT !.pc = "done", !.reply = failure,
                                      !.result = [NoResult EXCEPT !.kind = error]])

\* The two Err arms that follow send_bundle and await_terminal alike: a
\* retriable error goes round the loop with the tip as it is, any other
\* error, and any error of the last attempt, is returned.
CallFailed(w, failure) ==
  LET error == ErrorOf(req[w].transport, failure)
      retry == IsRetriable(error) /\ ~LastAttempt(w)
  IN  \/ /\ retry
         /\ Become(w, [task[w] EXCEPT !.pc = "next", !.reply = failure, !.last_err = error])
      \/ /\ ~retry
         /\ Become(w, [task[w] EXCEPT !.pc = "done", !.reply = failure,
                                      !.result = [NoResult EXCEPT !.kind = error]])

\* The call may fail whatever became of the bundle, except that the engine
\* answers with an error only when it did not take the bundle.
SendFailed(w) ==
  /\ At(w, "sending")
  /\ \E f \in SendFailures(req[w].transport) :
       /\ f = "rpcError" => bundle[w][task[w].attempt].st = "refused"
       /\ CallFailed(w, f)

-----------------------------------------------------------------------------
(***************************************************************************)
(* await_terminal().  task[w].left counts the poll intervals until the     *)
(* deadline: the call may take any of it, a sleep takes one.               *)
(***************************************************************************)
Poll(w) ==
  /\ At(w, "poll")
  /\ \E left \in 0 .. task[w].left,
        reply \in StatusesOf(req[w].transport, bundle[w][task[w].bundle_id].st)
                  \cup CallFailures(req[w].transport) :
       Become(w, [task[w] EXCEPT !.pc = "polled", !.reply = reply, !.left = left])

\* A failed poll that bumps the tip as a drop does.
PollFailedBumped(w) ==
  LET error == ErrorOf(req[w].transport, task[w].reply)
      retry == IsRetriable(error) /\ ~LastAttempt(w)
  IN  /\ At(w, "polled")
      /\ task[w].reply \in Failures
      /\ \/ ~retry /\ CallFailed(w, task[w].reply)
         \/ /\ retry
            /\ Become(w, [task[w] EXCEPT !.pc = "next", !.last_err = error,
                                         !.tip = BumpTip(req[w].policy, @)])

PollFailed(w) ==
  /\ At(w, "polled")
  /\ task[w].reply \in Failures
  /\ CallFailed(w, task[w].reply)

\* The sleep if the deadline were computed afresh by each round.
PollAgainDeadlineReset(w) ==
  /\ At(w, "polled")
  /\ task[w].reply \in Statuses /\ ~IsTerminal(task[w].reply)
  /\ task[w].left > 0
  /\ Become(w, [task[w] EXCEPT !.pc = "poll", !.left = PollBudget])

PollAgain(w) ==
  /\ At(w, "polled")
  /\ task[w].reply \in Statuses /\ ~IsTerminal(task[w].reply)
  /\ task[w].left > 0
  /\ Become(w, [task[w] EXCEPT !.pc = "poll", !.left = @ - 1])

\* The outcome if it were filled from the tip of the next attempt.
OutcomeBumped(w) ==
  [NoResult EXCEPT !.kind      = "Landed",
                   !.bundle_id = task[w].bundle_id,
                   !.attempts  = task[w].attempt,
                   !.tip       = BumpTip(req[w].policy, task[w].tip)]

Outcome(w) ==
  [NoResult EXCEPT !.kind      = "Landed",
                   !.bundle_id = task[w].bundle_id,
                   !.attempts  = task[w].attempt,
                   !.tip       = task[w].tip]

ReturnLanded(w) ==
  /\ At(w, "polled")
  /\ task[w].reply = "Landed"
  /\ Return(w, Outcome(w))

ReturnRejected(w) ==
  /\ At(w, "polled")
  /\ task[w].reply = "Rejected"
  /\ Fail(w, "Rejected")

\* A drop, or a bundle still pending at the deadline, which counts as one.
BundleDropped(w) ==
  /\ At(w, "polled")
  /\ \/ task[w].reply = "Dropped"
     \/ task[w].reply = "Pending" /\ task[w].left = 0
  /\ Become(w, [task[w] EXCEPT !.pc       = "next",
                               !.last_err = "Dropped",
                               !.tip      = BumpTip(req[w].policy, @)])

Submit(w) ==
  \/ RejectPolicy(w) \/ RejectSize(w) \/ OracleCold(w) \/ Start(w)
  \/ NextAttempt(w) \/ Exhausted(w)
  \/ EncodeFailed(w) \/ Send(w) \/ SendOk(w) \/ SendFailed(w)
  \/ Poll(w) \/ PollFailed(w) \/ PollAgain(w)
  \/ ReturnLanded(w) \/ ReturnRejected(w) \/ BundleDropped(w)

-----------------------------------------------------------------------------
(***************************************************************************)
(* The block engine and the chain (not in the repository).  A request may  *)
(* be lost or refused, and may arrive after the client gave up on it; the  *)
(* engine decides the fate of a pending bundle at any later time.  The     *)
(* chain executes a bundle as a whole, no transaction twice, and no tip    *)
(* transfer whose blockhash has expired.  The user's transactions may have *)
(* blockhashes of their own, or durable nonces, which never expire.        *)
(***************************************************************************)
Settle(w, a, from, to) ==
  /\ bundle[w][a].st = from
  /\ bundle' = [bundle EXCEPT ![w][a].st = to]
  /\ UNCHANGED <<req, task, oracle, dead, watch>>

Receive(w, a) == Settle(w, a, "inflight", "pending") /\ UNCHANGED ledger

Refuse(w, a) == Settle(w, a, "inflight", "refused") /\ UNCHANGED ledger

Land(w, a) ==
  /\ Settle(w, a, "pending", "landed")
  /\ BundleTxs(w, a) \cap ledger = {}
  /\ TipTx(w, a).blockhash \notin dead
  /\ ledger' = ledger \cup BundleTxs(w, a)

Drop(w, a) == Settle(w, a, "pending", "dropped") /\ UNCHANGED ledger

Reject(w, a) == Settle(w, a, "pending", "rejected") /\ UNCHANGED ledger

BlockEngine(w, a) ==
  Receive(w, a) \/ Refuse(w, a) \/ Land(w, a) \/ Drop(w, a) \/ Reject(w, a)

\* Samples keep arriving: the percentile a query answers moves.
OracleMoves ==
  /\ \E tip \in OracleTips : oracle' = {tip}
  /\ UNCHANGED <<req, task, bundle, ledger, dead, watch>>

Expire ==
  /\ \E hash \in Expiring : dead' = dead \cup {hash}
  /\ UNCHANGED <<req, task, bundle, ledger, oracle, watch>>

Next ==
  \/ \E w \in Workers : Submit(w)
  \/ \E w \in Workers, a \in Attempts : BlockEngine(w, a)
  \/ OracleMoves
  \/ Expire

\* A worker's future is polled until it returns, and every await ends: both
\* transports give a call ten seconds, a sleep has its deadline.
Spec == Init /\ [][Next]_vars /\ \A w \in Workers : WF_vars(Submit(w))

-----------------------------------------------------------------------------
(***************************************************************************)
(* Properties.                                                             *)
(***************************************************************************)
PCs == {"start", "next", "send", "sending", "poll", "polled", "done"}

Errors == {"Transport", "Rpc", "Dropped", "StatusStreamClosed"}

ResultKinds == {"none", "Landed", "Rejected", "RetriesExhausted", "Transport", "Rpc",
                "InvalidConfig", "InvalidBundleSize", "TipOracleCold", "Serde"}

ResultType == [ kind      : ResultKinds,
                bundle_id : 0 .. MaxAttempts,
                attempts  : 0 .. MaxAttempts,
                tip       : Lamports,
                last      : Errors \cup {"none"} ]

TaskType == [ pc        : PCs,
              attempt   : 0 .. MaxAttempts,
              tip       : Lamports,
              bundle_id : 0 .. MaxAttempts,
              left      : 0 .. PollBudget,
              reply     : Statuses \cup Failures \cup {"none"},
              last_err  : Errors \cup {"none"},
              result    : ResultType ]

BundleType == [ st  : Accepted \cup {"none", "inflight", "refused"},
                tip : Lamports ]

\* Every variable has its type; the tip stays a u64 through every bump.
TypeOK ==
  /\ req \in [Workers -> Requests]
  /\ task \in [Workers -> TaskType]
  /\ bundle \in [Workers -> [Attempts -> BundleType]]
  /\ oracle \subseteq Lamports
  /\ dead \subseteq Expiring

OutcomeIsTrue(w, result) ==
  /\ result.attempts = result.bundle_id
  /\ result.bundle_id \in Attempts
  /\ Landed(w, result.bundle_id)
  /\ result.tip = bundle[w][result.bundle_id].tip
  /\ BundleTxs(w, result.bundle_id) \subseteq ledger

\* A BundleOutcome is true: the bundle it names did land, it is the one of
\* the attempt it counts, and it carried the tip the outcome quotes, however
\* many other attempts were lost, timed out or are still in flight.
OutcomeMatchesLedger ==
  \A w \in Workers :
    task[w].result.kind = "Landed" => OutcomeIsTrue(w, task[w].result)

\* Resubmission never pays twice: whatever a lost answer or a poll timeout
\* made submit() send again, at most one of its bundles lands.
LandsAtMostOnce ==
  \A w \in Workers, a, b \in Attempts : Landed(w, a) /\ Landed(w, b) => a = b

\* From one attempt to the next the tip stays or is bumped once, it never
\* falls, and it is raised only if the engine had taken the earlier bundle.
TipsRiseByBumps ==
  \A w \in Workers, a \in 1 .. MaxAttempts - 1 :
    Sent(w, a + 1) =>
      LET before == bundle[w][a].tip
          after  == bundle[w][a + 1].tip
      IN  /\ Sent(w, a)
          /\ before <= after
          /\ after # before => /\ after = BumpTip(req[w].policy, before)
                               /\ bundle[w][a].st \in Accepted

\* A further bundle is bumped exactly if the last error was a drop.
BumpFollowsDrop ==
  \A w \in Workers :
    LET a      == task[w].attempt
        before == bundle[w][a - 1].tip
    IN  At(w, "sending") /\ a > 1 =>
          bundle[w][a].tip = IF task[w].last_err = "Dropped" THEN BumpTip(req[w].policy, before)
                                                             ELSE before

\* A lost call alone costs the user nothing: the tip climbs, by one bump, from
\* an attempt that was dropped or timed out to the next, and not from one whose
\* send or whose poll failed.
TipsClimbOnlyOnDrops == TipsRiseByBumps /\ BumpFollowsDrop

FinalAnswers == (Statuses \cup Failures) \ ({"Pending", "Dropped"} \cup NetworkFailures)

\* After an answer that is not retriable (a landing, a rejection, an
\* application-level error) the worker sends no further bundle.
NothingSentAfterFinalAnswer ==
  [][\A w \in Workers, a \in Attempts :
       task[w].reply \in FinalAnswers /\ ~Sent(w, a) => bundle'[w][a] = bundle[w][a]]_vars

\* An error is earned.  A local error comes before anything is sent; a
\* transport error is returned by the last attempt only; RetriesExhausted
\* comes after max_attempts bundles were really sent, the last of them taken
\* by the engine and dropped or timed out.
FailureJustified ==
  \A w \in Workers :
    LET result == task[w].result
    IN  /\ result.kind \in {"InvalidConfig", "InvalidBundleSize", "TipOracleCold", "Serde"} =>
             \A a \in Attempts : ~Sent(w, a)
        /\ result.kind = "Transport" => LastAttempt(w)
        /\ result.kind = "RetriesExhausted" =>
             /\ result.last = "Dropped"
             /\ result.attempts = task[w].attempt
             /\ \A a \in 1 .. result.attempts : Sent(w, a)
             /\ bundle[w][result.attempts].st \in Accepted

\* Two submissions of one engine never claim one tip payment: clones of the
\* engine build equal tip transactions when tip, account and blockhash agree,
\* and the chain executes such a transaction once.
OnePaymentPerOutcome ==
  \A v, w \in Workers :
    /\ v # w
    /\ task[v].result.kind = "Landed" /\ task[w].result.kind = "Landed"
    => TipTx(v, task[v].result.bundle_id) # TipTx(w, task[w].result.bundle_id)

NothingLanded(w) == \A a \in Attempts : ~Landed(w, a)

\* Once the blockhash has expired before any bundle landed, none ever lands,
\* whatever is still in flight and however often submit() sends it again: the
\* caller may build the bundle anew without paying twice.
ExpiredNeverLands ==
  [][\A w \in Workers :
       req[w].blockhash \in dead /\ NothingLanded(w) => NothingLanded(w)']_vars

\* submit() returns, whatever the engine answers or fails to answer.
SubmitReturns == \A w \in Workers : <>(At(w, "done"))

-----------------------------------------------------------------------------
(***************************************************************************)
(* What submit() promises, see SubmitPromise: the tips of the bundles sent *)
(* so far, the ones that were paid, and the answer to the caller.          *)
(***************************************************************************)
SentCount(w) == Cardinality({a \in Attempts : Sent(w, a)})

Offers == [w \in Workers |-> [a \in 1 .. SentCount(w) |-> bundle[w][a].tip]]

Paid == [w \in Workers |-> {a \in Attempts : Landed(w, a)}]

Answer ==
  [w \in Workers |->
     LET result == task[w].result
     IN  CASE result.kind = "none" -> [kind |-> "none", offer |-> 0, tip |-> 0]
           [] result.kind = "Landed" ->
                [kind |-> "landed", offer |-> result.attempts, tip |-> result.tip]
           [] OTHER -> [kind |-> "failed", offer |-> 0, tip |-> 0]]

Promise == INSTANCE SubmitPromise WITH offers <- Offers, paid <- Paid, answer <- Answer

\* submit() implements its promise, liveness included.
ImplementsPromise == Promise!Spec

-----------------------------------------------------------------------------
(***************************************************************************)
(* What the comments of the code say and the code does not do.             *)
(***************************************************************************)

\* error.rs on Error::Dropped: the bundle was dropped before landing.  So no
\* bundle of a submission that ended in drops has landed.
DroppedMeansNotLanded ==
  \A w \in Workers :
    task[w].result.last = "Dropped" => \A a \in Attempts : ~Landed(w, a)

\* error.rs on Error: failures of either transport collapse into Transport.
\* So a call that found no connection never ends in Error::Rpc.
NetworkFailureIsTransport ==
  \A w \in Workers :
    At(w, "done") /\ task[w].reply \in NetworkFailures => task[w].result.kind # "Rpc"

\* retry.rs: rejections propagate on the first attempt.  So a worker that was
\* told the end of a rejected bundle does not take it for a drop.
RejectionIsNotADrop ==
  \A w \in Workers :
    At(w, "polled") /\ task[w].reply = "Dropped" => bundle[w][task[w].bundle_id].st # "rejected"

=============================================================================
