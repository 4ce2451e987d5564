------------------------- MODULE BundleWatchProofs -------------------------
(***************************************************************************)
(* What wait_for_bundle tells of a bundle agrees with what submit() said   *)
(* of it and with the chain; and a caller that waits takes nothing away    *)
(* from what is proved of submit().                                        *)
(***************************************************************************)
EXTENDS BundleWatch, SubmitHistoryProofs

WatchType == [ pc      : {"idle", "call", "called", "done"},
               left    : 0 .. WatchBudget,
               reply   : Statuses \cup Failures \cup {"none"},
               verdict : Statuses \cup Failures \cup {"none"} ]

\* What a status says of a bundle in state st, over either transport: JSON-RPC
\* has no word for a rejection, and gRPC distinguishes it from a drop.
Truthful(transport, st, status) ==
  /\ status = "Landed" => st = "landed"
  /\ status \in {"Dropped", "Rejected"} => st \in {"dropped", "rejected"}
  /\ status = "Rejected" => transport = "Grpc" /\ st = "rejected"
  /\ status = "Dropped" /\ transport = "Grpc" => st = "dropped"

Names == {"Landed", "Rejected", "RetriesExhausted"}

\* The reply in hand is true; the id that a result goes with is that of a
\* bundle the engine took, and true of it too.
NamesOK(w, t) ==
  /\ t.pc = "polled" => Truthful(req[w].transport, bundle[w][t.attempt].st, t.reply)
  /\ t.pc = "next" /\ t.attempt >= req[w].policy.max_attempts => t.bundle_id = t.attempt
  /\ t.result.kind \in Names =>
       /\ t.pc = "done"
       /\ t.bundle_id \in Attempts
       /\ bundle[w][t.bundle_id].st \in Accepted
       /\ t.result.kind = "Landed" => bundle[w][t.bundle_id].st = "landed"
       /\ t.result.kind = "Rejected" =>
            req[w].transport = "Grpc" /\ bundle[w][t.bundle_id].st = "rejected"

WatchOK(w, x) ==
  /\ x.pc # "idle" => NamesBundle(w)
  /\ x.pc # "done" => x.verdict = "none"
  /\ x.pc = "called" => x.reply # "none" /\ Truthful(req[w].transport, Named(w).st, x.reply)
  /\ x.pc = "done" => Truthful(req[w].transport, Named(w).st, x.verdict)

WatchInv ==
  /\ HistoryInv
  /\ watch \in [Workers -> WatchType]
  /\ \A w \in Workers : NamesOK(w, task[w]) /\ WatchOK(w, watch[w])

-----------------------------------------------------------------------------
(***************************************************************************)
(* What the statuses say.                                                  *)
(***************************************************************************)

\* bundle_status of either transport answers truthfully; a failure says
\* nothing of the bundle.
LEMMA AnswersAreTruthful ==
  ASSUME NEW transport \in Transports, NEW st,
         NEW reply \in StatusesOf(transport, st) \cup CallFailures(transport)
  PROVE  /\ Truthful(transport, st, reply)
         /\ reply \in Statuses \cup Failures
         /\ reply # "none"
<1>1. CASE reply \in CallFailures(transport)
  BY <1>1 DEF CallFailures, JsonRpcFailures, GrpcFailures, NetworkFailures, Failures, Truthful
<1>2. CASE reply \in StatusesOf(transport, st) /\ transport = "JsonRpc"
  <2>1. PICK e \in JsonRpcAnswers(st) : reply = JsonRpcStatus(e)
    BY <1>2 DEF StatusesOf
  <2>2. reply \in {"Pending", "Landed", "Dropped"}
    BY <2>1 DEF JsonRpcStatus
  <2>3. ASSUME reply = "Dropped" PROVE st \in {"dropped", "rejected"}
    <3>1. e.found /\ e.err
      BY <2>1, <2>3 DEF JsonRpcStatus
    <3>2. CASE e = NoEntry
      BY <3>1, <3>2 DEF NoEntry, Entry
    <3>3. CASE e # NoEntry /\ st = "landed"
      <4>1. e \in {Entry(TRUE, TRUE, c, FALSE) : c \in {"processed", "confirmed"}}
        BY <3>3 DEF JsonRpcAnswers
      <4> QED BY <3>1, <4>1 DEF Entry
    <3>4. CASE e # NoEntry /\ st \notin {"landed", "dropped", "rejected"}
      <4>1. e = Entry(TRUE, FALSE, "", FALSE)
        BY <3>4 DEF JsonRpcAnswers
      <4> QED BY <3>1, <4>1 DEF Entry
    <3> QED BY <3>2, <3>3, <3>4
  <2>4. reply = "Landed" => st = "landed"
    BY <1>2, StatusesOfType
  <2> QED BY <1>2, <2>2, <2>3, <2>4 DEF Truthful, Statuses
<1>3. CASE reply \in StatusesOf(transport, st) /\ transport = "Grpc"
  <2>1. PICK s \in GrpcAnswers(st) : reply = GrpcStatus(s)
    BY <1>3 DEF StatusesOf
  <2> QED BY <1>3, <2>1 DEF GrpcStatus, GrpcState, GrpcAnswers, Truthful, Statuses
<1> QED BY <1>1, <1>2, <1>3 DEF Transports

\* Once said, it stays true: the engine settles a bundle once.
LEMMA TruthIsStable ==
  ASSUME NEW transport, NEW st, NEW later, NEW status, Truthful(transport, st, status),
         st \in {"landed", "dropped", "rejected"} => later = st
  PROVE  Truthful(transport, later, status)
BY DEF Truthful

\* What a worker knows in a state of the invariant.
LEMMA WatchKnown ==
  ASSUME WatchInv, NEW w \in Workers
  PROVE  /\ HistoryInv /\ NamesOK(w, task[w]) /\ WatchOK(w, watch[w])
         /\ watch[w] \in WatchType
         /\ req[w].transport \in Transports
BY RequestParts DEF WatchInv, HistoryInv, SubmitInv

-----------------------------------------------------------------------------
(***************************************************************************)
(* Steps of submit() and of the engine.                                    *)
(***************************************************************************)

\* A result names a bundle only when submit() has returned, so that a worker
\* that still submits is not waited for, and is left as it is by the wait.
LEMMA IdleWhileSubmitting ==
  ASSUME WatchInv, NEW w \in Workers, task[w].pc # "done"
  PROVE  watch[w].pc = "idle" /\ task[w].result = NoResult
<1>1. HistoryOK(w, task[w]) /\ WatchOK(w, watch[w])
  BY Known, WatchKnown
<1> QED BY <1>1 DEF HistoryOK, ResultOK, WatchOK, NamesBundle, NoResult

\* A local step of a worker preserves the invariant if its new task is right.
LEMMA BecomeWatch ==
  ASSUME WatchInv, HistoryInv', NEW w \in Workers, task[w].pc # "done",
         NEW t, Become(w, t), NamesOK(w, t)
  PROVE  WatchInv'
<1>1. /\ req' = req /\ bundle' = bundle /\ watch' = watch
      /\ task' = [task EXCEPT ![w] = t] /\ task \in [Workers -> TaskType]
  BY DEF Become, WatchInv, HistoryInv, SubmitInv, TypeOK
<1>2. ASSUME NEW v \in Workers PROVE NamesOK(v, task[v])' /\ WatchOK(v, watch[v])'
  <2>1. CASE v = w
    <3>1. task'[w] = t /\ watch[w].pc = "idle" /\ WatchOK(w, watch[w])
      BY <1>1, IdleWhileSubmitting, WatchKnown
    <3> QED BY <1>1, <2>1, <3>1 DEF NamesOK, WatchOK
  <2>2. CASE v # w
    <3>1. task'[v] = task[v] /\ NamesOK(v, task[v]) /\ WatchOK(v, watch[v])
      BY <1>1, <2>2, WatchKnown
    <3> QED BY <1>1, <3>1 DEF NamesOK, WatchOK, NamesBundle, Named
  <2> QED BY <2>1, <2>2
<1> QED BY <1>1, <1>2 DEF WatchInv

\* What is known of other workers' bundles, and of one's own, survives a step
\* that settles no bundle twice.
LEMMA WatchFrame ==
  ASSUME WatchInv, NEW w \in Workers, req' = req, task'[w] = task[w], watch'[w] = watch[w],
         \A a \in Attempts : /\ bundle[w][a].st \in Accepted => bundle'[w][a].st \in Accepted
                             /\ bundle[w][a].st \in {"landed", "dropped", "rejected"} =>
                                  bundle'[w][a].st = bundle[w][a].st
  PROVE  NamesOK(w, task[w])' /\ WatchOK(w, watch[w])'
<1>1. NamesOK(w, task[w]) /\ WatchOK(w, watch[w]) /\ TaskOK(w, task[w])
  BY Known, WatchKnown
<1>2. ASSUME task[w].pc = "polled"
      PROVE  Truthful(req[w].transport, bundle'[w][task[w].attempt].st, task[w].reply)
  <2>1. task[w].attempt \in Attempts
    BY <1>1, <1>2 DEF TaskOK
  <2> QED BY <1>1, <1>2, <2>1, TruthIsStable DEF NamesOK
<1>3. NamesOK(w, task[w])'
  BY <1>1, <1>2 DEF NamesOK
<1>4. WatchOK(w, watch[w])'
  <2>1. NamesBundle(w)' <=> NamesBundle(w)
    BY DEF NamesBundle
  <2>2. ASSUME NamesBundle(w), NEW status, Truthful(req[w].transport, Named(w).st, status)
        PROVE  Truthful(req[w].transport, Named(w)'.st, status)
    <3>1. task[w].bundle_id \in Attempts
      BY <1>1, <2>2 DEF NamesOK, NamesBundle, Names
    <3> QED BY <2>2, <3>1, TruthIsStable DEF Named
  <2> QED BY <1>1, <2>1, <2>2 DEF WatchOK
<1> QED BY <1>3, <1>4

\* A bundle that is sent is nobody's answer yet.
LEMMA SendWatch ==
  ASSUME WatchInv, HistoryInv', NEW w \in Workers, Send(w)
  PROVE  WatchInv'
<1> DEFINE n == task[w].attempt
<1>1. /\ req' = req /\ watch' = watch /\ task[w].pc = "send"
      /\ task' = [task EXCEPT ![w].pc = "sending"]
      /\ bundle' = [bundle EXCEPT ![w][n] = [st |-> "inflight", tip |-> task[w].tip]]
  BY DEF Send, At
<1>2. /\ bundle \in [Workers -> [Attempts -> BundleType]]
      /\ task \in [Workers -> TaskType] /\ task[w] \in TaskType
  BY Known DEF WatchInv, HistoryInv, SubmitInv, TypeOK
<1>3. task'[w].pc = "sending" /\ task'[w].result = task[w].result
  BY <1>1, <1>2 DEF TaskType
<1>4. ASSUME NEW v \in Workers PROVE NamesOK(v, task[v])' /\ WatchOK(v, watch[v])'
  <2>1. CASE v = w
    <3>1. watch[w].pc = "idle" /\ task[w].result = NoResult /\ WatchOK(w, watch[w])
      BY <1>1, IdleWhileSubmitting, WatchKnown
    <3> QED BY <1>1, <1>3, <2>1, <3>1 DEF NamesOK, WatchOK, NoResult, Names
  <2>2. CASE v # w
    <3>1. task'[v] = task[v] /\ bundle'[v] = bundle[v]
      BY <1>1, <1>2, <2>2
    <3> QED BY <1>1, <3>1, WatchFrame
  <2> QED BY <2>1, <2>2
<1> QED BY <1>1, <1>4 DEF WatchInv

\* The engine settles a bundle once.
LEMMA BlockEngineWatch ==
  ASSUME WatchInv, HistoryInv', NEW w \in Workers, NEW a \in Attempts, BlockEngine(w, a)
  PROVE  WatchInv'
<1>1. PICK from \in {"inflight", "pending"}, to \in Accepted \cup {"refused"} :
        Settle(w, a, from, to) /\ (to = "refused" => from = "inflight")
  BY DEF BlockEngine, Receive, Refuse, Land, Drop, Reject, Accepted
<1>2. /\ req' = req /\ task' = task /\ watch' = watch /\ bundle[w][a].st = from
      /\ bundle' = [bundle EXCEPT ![w][a].st = to]
      /\ bundle \in [Workers -> [Attempts -> BundleType]]
  BY <1>1 DEF Settle, WatchInv, HistoryInv, SubmitInv, TypeOK
<1>3. bundle'[w][a].st = to
  BY <1>2 DEF BundleType
<1>4. ASSUME NEW v \in Workers, NEW b \in Attempts
      PROVE  /\ bundle[v][b].st \in Accepted => bundle'[v][b].st \in Accepted
             /\ bundle[v][b].st \in {"landed", "dropped", "rejected"} =>
                  bundle'[v][b].st = bundle[v][b].st
  <2>1. CASE <<v, b>> = <<w, a>>
    BY <1>1, <1>2, <1>3, <2>1 DEF Accepted
  <2>2. CASE <<v, b>> # <<w, a>>
    <3>1. bundle'[v][b] = bundle[v][b]
      BY <1>2, <2>2
    <3> QED BY <3>1
  <2> QED BY <2>1, <2>2
<1>5. ASSUME NEW v \in Workers PROVE NamesOK(v, task[v])' /\ WatchOK(v, watch[v])'
  BY <1>2, <1>4, WatchFrame
<1> QED BY <1>2, <1>5 DEF WatchInv

\* A failed call names no bundle.
LEMMA CallFailedWatch ==
  ASSUME WatchInv, HistoryInv', NEW w \in Workers, task[w].pc # "done",
         NEW failure, CallFailed(w, failure)
  PROVE  WatchInv'
<1> DEFINE error == ErrorOf(req[w].transport, failure)
           again == [task[w] EXCEPT !.pc = "next", !.reply = failure, !.last_err = error]
           over  == [task[w] EXCEPT !.pc = "done", !.reply = failure,
                                    !.result = [NoResult EXCEPT !.kind = error]]
<1>1. task[w] \in TaskType /\ task[w].result = NoResult
  BY IdleWhileSubmitting, Known, WatchKnown
<1>2. error \in {"Transport", "Rpc"}
  BY CallErrors
<1> HIDE DEF error
<1>3. /\ again.pc = "next" /\ again.attempt = task[w].attempt /\ again.result = NoResult
      /\ over.pc = "done" /\ over.result.kind = error
  BY <1>1 DEF TaskType, NoResult
<1>4. (Become(w, again) /\ ~LastAttempt(w)) \/ Become(w, over)
  BY DEF CallFailed, error
<1> HIDE DEF again, over
<1>5. ~LastAttempt(w) => NamesOK(w, again)
  BY <1>3 DEF NamesOK, LastAttempt, NoResult, Names
<1>6. NamesOK(w, over)
  BY <1>2, <1>3 DEF NamesOK, Names
<1> QED BY <1>4, <1>5, <1>6, BecomeWatch

\* Nor does any other error but a rejection.
LEMMA FailWatch ==
  ASSUME WatchInv, HistoryInv', NEW w \in Workers, task[w].pc # "done",
         NEW kind, kind \notin Names, Fail(w, kind)
  PROVE  WatchInv'
<1> DEFINE t == [task[w] EXCEPT !.pc = "done", !.result = [NoResult EXCEPT !.kind = kind]]
<1>1. t.pc = "done" /\ t.result.kind = kind
  BY Known, WatchKnown DEF TaskType, NoResult
<1>2. Become(w, t)
  BY DEF Fail, Return
<1> HIDE DEF t
<1>3. NamesOK(w, t)
  BY <1>1 DEF NamesOK
<1> QED BY <1>2, <1>3, BecomeWatch

\* A step inside the loop keeps what the id of the last attempt is known for.
LEMMA LoopWatch ==
  ASSUME WatchInv, HistoryInv', NEW w \in Workers, task[w].pc # "done",
         NEW t, Become(w, t), t.result = task[w].result,
         t.pc = "polled" => Truthful(req[w].transport, bundle[w][t.attempt].st, t.reply),
         t.pc = "next" /\ t.attempt >= req[w].policy.max_attempts => t.bundle_id = t.attempt
  PROVE  WatchInv'
<1>1. NamesOK(w, t)
  BY IdleWhileSubmitting DEF NamesOK, NoResult, Names
<1> QED BY <1>1, BecomeWatch

\* Every step of submit() preserves the invariant.
LEMMA SubmitStepWatch ==
  ASSUME WatchInv, HistoryInv', NEW w \in Workers, Submit(w)
  PROVE  WatchInv'
<1>t. /\ task[w] \in TaskType /\ TaskOK(w, task[w]) /\ HistoryOK(w, task[w])
      /\ NamesOK(w, task[w]) /\ req[w].policy.max_attempts \in 1 .. MaxAttempts
      /\ req[w].transport \in Transports
  BY Known, WatchKnown DEF Attempts
<1>1. CASE RejectPolicy(w) \/ RejectSize(w) \/ OracleCold(w) \/ EncodeFailed(w)
  <2>1. PICK kind : kind \notin Names /\ Fail(w, kind)
    BY <1>1 DEF RejectPolicy, RejectSize, OracleCold, EncodeFailed, Names
  <2>2. task[w].pc # "done"
    BY <1>1 DEF RejectPolicy, RejectSize, OracleCold, EncodeFailed, At
  <2> QED BY <2>1, <2>2, FailWatch
<1>2. CASE SendFailed(w) \/ PollFailed(w)
  <2>1. PICK failure : CallFailed(w, failure)
    BY <1>2 DEF SendFailed, PollFailed
  <2>2. task[w].pc # "done"
    BY <1>2 DEF SendFailed, PollFailed, At
  <2> QED BY <2>1, <2>2, CallFailedWatch
<1>3. CASE Send(w)
  BY <1>3, SendWatch
<1>4. CASE Start(w)
  <2>1. PICK tip : Become(w, [task[w] EXCEPT !.pc = "next", !.tip = tip])
    BY <1>4 DEF Start
  <2> DEFINE t == [task[w] EXCEPT !.pc = "next", !.tip = tip]
  <2>2. t.pc = "next" /\ t.attempt = task[w].attempt /\ t.result = task[w].result
    BY <1>t DEF TaskType
  <2>3. task[w].pc = "start" /\ task[w].attempt = 0
    BY <1>4, <1>t DEF Start, At, HistoryOK, SentOK
  <2>4. ~(t.attempt >= req[w].policy.max_attempts)
    BY <1>t, <2>2, <2>3
  <2> HIDE DEF t
  <2> QED BY <2>1, <2>2, <2>3, <2>4, LoopWatch DEF t
<1>5. CASE NextAttempt(w)
  <2> DEFINE t == [task[w] EXCEPT !.pc = "send", !.attempt = @ + 1]
  <2>1. t.pc = "send" /\ t.result = task[w].result
    BY <1>t DEF TaskType
  <2>2. Become(w, t) /\ task[w].pc = "next"
    BY <1>5 DEF NextAttempt, At
  <2> HIDE DEF t
  <2> QED BY <2>1, <2>2, LoopWatch
<1>6. CASE SendOk(w)
  <2> DEFINE t == [task[w] EXCEPT !.pc = "poll", !.bundle_id = task[w].attempt,
                                  !.left = PollBudget]
  <2>1. t.pc = "poll" /\ t.result = task[w].result
    BY <1>t DEF TaskType
  <2>2. Become(w, t) /\ task[w].pc = "sending"
    BY <1>6 DEF SendOk, At
  <2> HIDE DEF t
  <2> QED BY <2>1, <2>2, LoopWatch
<1>7. CASE PollAgain(w)
  <2> DEFINE t == [task[w] EXCEPT !.pc = "poll", !.left = @ - 1]
  <2>1. t.pc = "poll" /\ t.result = task[w].result
    BY <1>t DEF TaskType
  <2>2. Become(w, t) /\ task[w].pc = "polled"
    BY <1>7 DEF PollAgain, At
  <2> HIDE DEF t
  <2> QED BY <2>1, <2>2, LoopWatch
<1>8. CASE Poll(w)
  <2>1. PICK left \in 0 .. task[w].left,
             reply \in StatusesOf(req[w].transport, bundle[w][task[w].bundle_id].st)
                       \cup CallFailures(req[w].transport) :
          Become(w, [task[w] EXCEPT !.pc = "polled", !.reply = reply, !.left = left])
    BY <1>8 DEF Poll
  <2> DEFINE t == [task[w] EXCEPT !.pc = "polled", !.reply = reply, !.left = left]
  <2>2. /\ t.pc = "polled" /\ t.attempt = task[w].attempt
        /\ t.reply = reply /\ t.result = task[w].result
    BY <1>t DEF TaskType
  <2>3. task[w].pc = "poll" /\ task[w].bundle_id = task[w].attempt
    BY <1>8, <1>t DEF Poll, At, TaskOK
  <2>4. Truthful(req[w].transport, bundle[w][task[w].attempt].st, reply)
    BY <1>t, <2>3, AnswersAreTruthful
  <2>5. Become(w, t)
    BY <2>1
  <2> HIDE DEF t
  <2> QED BY <2>2, <2>3, <2>4, <2>5, LoopWatch
<1>9. CASE BundleDropped(w)
  <2> DEFINE t == [task[w] EXCEPT !.pc = "next", !.last_err = "Dropped",
                                  !.tip = BumpTip(req[w].policy, @)]
  <2>1. /\ t.pc = "next" /\ t.attempt = task[w].attempt
        /\ t.bundle_id = task[w].bundle_id /\ t.result = task[w].result
    BY <1>t DEF TaskType
  <2>2. Become(w, t) /\ task[w].pc = "polled"
    BY <1>9 DEF BundleDropped, At
  <2>3. task[w].bundle_id = task[w].attempt
    BY <1>t, <2>2 DEF TaskOK
  <2> HIDE DEF t
  <2> QED BY <2>1, <2>2, <2>3, LoopWatch
<1>10. CASE Exhausted(w)
  <2> DEFINE result == [NoResult EXCEPT
                         !.kind     = "RetriesExhausted",
                         !.attempts = req[w].policy.max_attempts,
                         !.last     = IF task[w].last_err = "none" THEN "StatusStreamClosed"
                                                                   ELSE task[w].last_err]
             t      == [task[w] EXCEPT !.pc = "done", !.result = result]
  <2>1. result.kind = "RetriesExhausted"
    BY DEF NoResult
  <2>2. /\ Become(w, t) /\ task[w].pc = "next"
        /\ task[w].attempt >= req[w].policy.max_attempts
    BY <1>10 DEF Exhausted, Return, At, LastAttempt
  <2> HIDE DEF result
  <2>3. t.pc = "done" /\ t.result = result /\ t.bundle_id = task[w].bundle_id
    BY <1>t DEF TaskType
  <2> HIDE DEF t
  <2>4. /\ task[w].bundle_id = task[w].attempt /\ task[w].attempt \in Attempts
        /\ bundle[w][task[w].attempt].st \in Accepted
    <3>1. task[w].attempt \in 0 .. MaxAttempts
      BY <1>t DEF TaskType
    <3> QED BY <1>t, <2>2, <3>1, NumbersAssumption
            DEF NamesOK, HistoryOK, AnswerOK, Attempts
  <2>5. NamesOK(w, t)
    BY <2>1, <2>3, <2>4 DEF NamesOK
  <2> QED BY <2>2, <2>5, BecomeWatch
<1>11. CASE ReturnLanded(w)
  <2> DEFINE t == [task[w] EXCEPT !.pc = "done", !.result = Outcome(w)]
  <2>1. /\ t.pc = "done" /\ t.result.kind = "Landed" /\ t.bundle_id = task[w].bundle_id
    BY <1>t DEF TaskType, Outcome, NoResult
  <2>2. Become(w, t) /\ task[w].pc = "polled" /\ task[w].reply = "Landed"
    BY <1>11 DEF ReturnLanded, Return, At
  <2> HIDE DEF t
  <2>3. NamesOK(w, t)
    BY <1>t, <2>1, <2>2 DEF NamesOK, TaskOK, Landed, Accepted
  <2> QED BY <2>2, <2>3, BecomeWatch
<1>12. CASE ReturnRejected(w)
  <2> DEFINE t == [task[w] EXCEPT !.pc = "done", !.result = [NoResult EXCEPT !.kind = "Rejected"]]
  <2>1. /\ t.pc = "done" /\ t.result.kind = "Rejected" /\ t.bundle_id = task[w].bundle_id
    BY <1>t DEF TaskType, NoResult
  <2>2. Become(w, t) /\ task[w].pc = "polled" /\ task[w].reply = "Rejected"
    BY <1>12 DEF ReturnRejected, Fail, Return, At
  <2> HIDE DEF t
  <2>3. task[w].bundle_id = task[w].attempt /\ task[w].attempt \in Attempts
    BY <1>t, <2>2 DEF TaskOK
  <2>4. req[w].transport = "Grpc" /\ bundle[w][task[w].attempt].st = "rejected"
    BY <1>t, <2>2 DEF NamesOK, Truthful
  <2>5. NamesOK(w, t)
    BY <2>1, <2>3, <2>4 DEF NamesOK, Accepted
  <2> QED BY <2>2, <2>5, BecomeWatch
<1> QED BY <1>1, <1>2, <1>3, <1>4, <1>5, <1>6, <1>7, <1>8, <1>9, <1>10, <1>11, <1>12 DEF Submit

-----------------------------------------------------------------------------
(***************************************************************************)
(* Steps of wait_for_bundle.                                               *)
(***************************************************************************)

\* What is proved of submit() is not about the watch.
LEMMA StillHistory ==
  ASSUME HistoryInv, UNCHANGED <<req, task, bundle, ledger, oracle, dead>>
  PROVE  HistoryInv'
<1>1. SubmitInv'
  BY DEF HistoryInv, SubmitInv, TypeOK, TaskOK, BundleOK, LandsAtMostOnce, OutcomeIsTrue, Sent,
         Landed, SizeOK, BundleTxs, UserTxs, TipTx
<1>2. \A w \in Workers : HistoryOK(w, task[w])'
  BY DEF HistoryInv, HistoryOK, SentOK, TipOK, AnswerOK, ResultOK, Climbs, Sent
<1> QED BY <1>1, <1>2, StillBundles DEF HistoryInv

\* A turn changes the watch of one worker and nothing else at all.
LEMMA TurnWatch ==
  ASSUME WatchInv, NEW w \in Workers, NEW x \in WatchType, Turn(w, x), WatchOK(w, x)
  PROVE  WatchInv'
<1>1. /\ UNCHANGED <<req, task, bundle, ledger, oracle, dead>>
      /\ watch' = [watch EXCEPT ![w] = x] /\ watch \in [Workers -> WatchType]
  BY DEF Turn, WatchInv
<1>2. HistoryInv'
  BY <1>1, StillHistory DEF WatchInv
<1>3. ASSUME NEW v \in Workers PROVE NamesOK(v, task[v])' /\ WatchOK(v, watch[v])'
  <2>1. watch'[v] = IF v = w THEN x ELSE watch[v]
    BY <1>1
  <2>2. NamesOK(v, task[v]) /\ WatchOK(v, watch'[v])
    BY <2>1, WatchKnown
  <2> QED BY <1>1, <2>2 DEF NamesOK, WatchOK, NamesBundle, Named
<1>4. watch' \in [Workers -> WatchType]
  BY <1>1
<1> QED BY <1>2, <1>3, <1>4 DEF WatchInv

\* Every step of wait_for_bundle preserves the invariant.
LEMMA WaitWatch ==
  ASSUME WatchInv, NEW w \in Workers, WaitForBundle(w) \/ Wait(w)
  PROVE  WatchInv'
<1>t. watch[w] \in WatchType /\ WatchOK(w, watch[w]) /\ req[w].transport \in Transports
  BY WatchKnown
<1>1. CASE WaitForBundle(w)
  <2> DEFINE x == [watch[w] EXCEPT !.pc = "call", !.left = WatchBudget]
  <2>0. WatchBudget \in 0 .. WatchBudget
    BY WatchAssumption
  <2>1. x \in WatchType /\ x.pc = "call" /\ x.verdict = watch[w].verdict
    BY <1>t, <2>0 DEF WatchType
  <2>2. Turn(w, x) /\ NamesBundle(w) /\ watch[w].pc = "idle"
    BY <1>1 DEF WaitForBundle, Watching
  <2> HIDE DEF x
  <2>3. WatchOK(w, x)
    BY <1>t, <2>1, <2>2 DEF WatchOK
  <2> QED BY <2>1, <2>2, <2>3, TurnWatch
<1>2. CASE BundleStatus(w)
  <2>1. PICK left \in 0 .. watch[w].left,
             reply \in StatusesOf(req[w].transport, Named(w).st)
                       \cup CallFailures(req[w].transport) :
          Turn(w, [watch[w] EXCEPT !.pc = "called", !.reply = reply, !.left = left])
    BY <1>2 DEF BundleStatus
  <2> DEFINE x == [watch[w] EXCEPT !.pc = "called", !.reply = reply, !.left = left]
  <2>2. /\ Truthful(req[w].transport, Named(w).st, reply)
        /\ reply \in Statuses \cup Failures /\ reply # "none"
    BY <1>t, AnswersAreTruthful
  <2>3. left \in 0 .. WatchBudget
    BY <1>t, WatchAssumption DEF WatchType
  <2>4. /\ x \in WatchType /\ x.pc = "called" /\ x.reply = reply
        /\ x.verdict = watch[w].verdict
    BY <1>t, <2>2, <2>3 DEF WatchType
  <2>5. Turn(w, x) /\ watch[w].pc = "call"
    BY <1>2, <2>1 DEF BundleStatus, Watching
  <2> HIDE DEF x
  <2>6. WatchOK(w, x)
    BY <1>t, <2>2, <2>4, <2>5 DEF WatchOK
  <2> QED BY <2>4, <2>5, <2>6, TurnWatch
<1>3. CASE Settled(w) \/ DeadlinePassed(w)
  <2>1. PICK verdict \in Statuses \cup Failures :
          /\ Conclude(w, verdict) /\ watch[w].pc = "called"
          /\ verdict = watch[w].reply
    <3>1. CASE Settled(w)
      <4>1. watch[w].reply \in Statuses \cup Failures \cup {"none"}
        BY <1>t DEF WatchType
      <4>2. watch[w].reply # "none"
        BY <1>t, <3>1 DEF Settled, Watching, WatchOK
      <4> QED BY <3>1, <4>1, <4>2 DEF Settled, Watching
    <3>2. CASE DeadlinePassed(w)
      BY <3>2 DEF DeadlinePassed, Watching, Statuses
    <3> QED BY <1>3, <3>1, <3>2
  <2> DEFINE x == [watch[w] EXCEPT !.pc = "done", !.verdict = verdict]
  <2>2. x \in WatchType /\ x.pc = "done" /\ x.verdict = verdict
    BY <1>t DEF WatchType
  <2>3. Turn(w, x)
    BY <2>1 DEF Conclude
  <2> HIDE DEF x
  <2>4. WatchOK(w, x)
    BY <1>t, <2>1, <2>2 DEF WatchOK
  <2> QED BY <2>2, <2>3, <2>4, TurnWatch
<1>4. CASE Sleep(w)
  <2> DEFINE left == watch[w].left - 1
             x    == [watch[w] EXCEPT !.pc = "call", !.left = left]
  <2>1. Turn(w, x) /\ watch[w].pc = "called" /\ watch[w].left > 0
    BY <1>4 DEF Sleep, Watching
  <2>2. left \in 0 .. WatchBudget
    BY <1>t, <2>1, WatchAssumption DEF WatchType
  <2> HIDE DEF left
  <2>3. x \in WatchType /\ x.pc = "call" /\ x.verdict = watch[w].verdict
    BY <1>t, <2>2 DEF WatchType
  <2> HIDE DEF x
  <2>4. WatchOK(w, x)
    BY <1>t, <2>1, <2>3 DEF WatchOK
  <2> QED BY <2>1, <2>3, <2>4, TurnWatch
<1> QED BY <1>1, <1>2, <1>3, <1>4 DEF Wait

-----------------------------------------------------------------------------
(***************************************************************************)
(* The theorems.                                                           *)
(***************************************************************************)

\* The invariant holds at first.
LEMMA InitWatch == Init => WatchInv
<1> SUFFICES ASSUME Init PROVE WatchInv
  OBVIOUS
<1>1. HistoryInv
  BY InitHistory
<1>2. watch \in [Workers -> WatchType]
  BY WatchAssumption DEF Init, NotWatching, WatchType
<1>3. ASSUME NEW w \in Workers PROVE NamesOK(w, task[w]) /\ WatchOK(w, watch[w])
  BY DEF Init, NotWatching, NoResult, NamesOK, WatchOK, Names
<1> QED BY <1>1, <1>2, <1>3 DEF WatchInv

\* Every step preserves it: those of submit(), of the engine and the chain,
\* and those of the wait.
LEMMA WatchStep == WatchInv /\ [WatchNext]_vars => WatchInv'
<1> SUFFICES ASSUME WatchInv, [WatchNext]_vars PROVE WatchInv'
  OBVIOUS
<1>1. ASSUME [Next]_vars PROVE HistoryInv'
  BY <1>1, NextHistory DEF WatchInv
<1>2. ASSUME NEW w \in Workers, Submit(w) PROVE WatchInv'
  BY <1>1, <1>2, SubmitStepWatch DEF Next
<1>3. ASSUME NEW w \in Workers, NEW a \in Attempts, BlockEngine(w, a) PROVE WatchInv'
  BY <1>1, <1>3, BlockEngineWatch DEF Next
<1>4. CASE OracleMoves \/ Expire \/ UNCHANGED vars
  <2>1. HistoryInv'
    BY <1>1, <1>4 DEF Next
  <2>2. req' = req /\ task' = task /\ bundle' = bundle /\ watch' = watch
    BY <1>4 DEF OracleMoves, Expire, vars
  <2> QED BY <2>1, <2>2 DEF WatchInv, NamesOK, WatchOK, NamesBundle, Named
<1>5. ASSUME NEW w \in Workers, WaitForBundle(w) \/ Wait(w) PROVE WatchInv'
  BY <1>5, WaitWatch
<1> QED BY <1>2, <1>3, <1>4, <1>5 DEF WatchNext, Next

\* The invariant holds in every behaviour with waiting callers.
LEMMA WatchInvariant == WatchSpec => []WatchInv
BY InitWatch, WatchStep, PTL DEF WatchSpec

\* The watch has its type, and there is one only of a bundle the engine took.
THEOREM WatchTypes == WatchSpec => []WatchTypeOK
<1>1. WatchInv => WatchTypeOK
  <2> SUFFICES ASSUME WatchInv, NEW w \in Workers
               PROVE  /\ watch[w] \in WatchType
                      /\ ~Watching(w, "idle") =>
                           task[w].bundle_id \in Attempts /\ Named(w).st \in Accepted
    BY DEF WatchTypeOK, WatchType
  <2> QED BY WatchKnown DEF WatchOK, NamesOK, NamesBundle, Named, Names, Watching
<1> QED BY <1>1, WatchInvariant, PTL

\* What submit() said of a bundle, what wait_for_bundle says of it later and
\* what became of it on the chain never contradict each other.
THEOREM VerdictsHold == WatchSpec => []VerdictsAgree
<1>1. WatchInv => VerdictsAgree
  <2> SUFFICES ASSUME WatchInv, NEW w \in Workers
               PROVE  LET told    == task[w].result.kind
                          verdict == watch[w].verdict
                      IN  /\ told = "Landed" => verdict \notin {"Dropped", "Rejected"}
                          /\ told = "Rejected" => verdict \notin {"Landed", "Dropped"}
                          /\ verdict = "Landed" =>
                               \A a \in Attempts : Landed(w, a) <=> a = task[w].bundle_id
                          /\ verdict \in {"Dropped", "Rejected"} =>
                               Named(w).st \in {"dropped", "rejected"}
    BY DEF VerdictsAgree
  <2>1. NamesOK(w, task[w]) /\ WatchOK(w, watch[w])
    BY WatchKnown
  <2>2. CASE watch[w].pc # "done"
    BY <2>1, <2>2 DEF WatchOK
  <2>3. CASE watch[w].pc = "done"
    <3>1. /\ task[w].bundle_id \in Attempts
          /\ Truthful(req[w].transport, Named(w).st, watch[w].verdict)
          /\ task[w].result.kind = "Landed" => Named(w).st = "landed"
          /\ task[w].result.kind = "Rejected" =>
               req[w].transport = "Grpc" /\ Named(w).st = "rejected"
      BY <2>1, <2>3 DEF WatchOK, NamesOK, NamesBundle, Names, Named
    <3>2. ASSUME watch[w].verdict = "Landed", NEW a \in Attempts
          PROVE  Landed(w, a) <=> a = task[w].bundle_id
      <4>1. Landed(w, task[w].bundle_id)
        BY <3>1, <3>2 DEF Truthful, Landed, Named
      <4> QED BY <3>1, <4>1 DEF WatchInv, HistoryInv, SubmitInv, LandsAtMostOnce
    <3> QED BY <3>1, <3>2 DEF Truthful
  <2> QED BY <2>2, <2>3
<1> QED BY <1>1, WatchInvariant, PTL

\* A caller that waits for its bundle changes nothing of what submit()
\* guarantees: its invariants hold as they do without the wait.
THEOREM WatchedInvariants ==
  WatchSpec => [](/\ TypeOK /\ OutcomeMatchesLedger /\ LandsAtMostOnce
                  /\ TipsClimbOnlyOnDrops /\ FailureJustified /\ OnePaymentPerOutcome)
<1>1. WatchInv => /\ TypeOK /\ OutcomeMatchesLedger /\ LandsAtMostOnce
                  /\ TipsClimbOnlyOnDrops /\ FailureJustified /\ OnePaymentPerOutcome
  BY HistoryClimbs, HistoryJustifies, HistoryDistinguishes
     DEF WatchInv, HistoryInv, SubmitInv, TaskOK, OutcomeMatchesLedger
<1> QED BY <1>1, WatchInvariant, PTL

\* A step of the wait is none of submit(), the engine or the chain.
LEMMA WatchNextCases ==
  ASSUME [WatchNext]_vars
  PROVE  [Next]_vars \/ UNCHANGED <<req, task, bundle, ledger, oracle, dead>>
BY DEF WatchNext, WaitForBundle, Wait, BundleStatus, Settled, DeadlinePassed, Sleep, Conclude, Turn

\* Nor does it change what submit() may not do: send after a final answer, or
\* land anything once the blockhash has expired.
THEOREM WatchedActions == WatchSpec => NothingSentAfterFinalAnswer /\ ExpiredNeverLands
<1>1. ASSUME WatchInv, [WatchNext]_vars, NEW w \in Workers, NEW a \in Attempts,
             task[w].reply \in FinalAnswers, ~Sent(w, a)
      PROVE  bundle'[w][a] = bundle[w][a]
  BY <1>1, WatchNextCases, SilentStep DEF WatchInv
<1>2. ASSUME WatchInv, [WatchNext]_vars, NEW w \in Workers,
             req[w].blockhash \in dead, NothingLanded(w)
      PROVE  NothingLanded(w)'
  <2>1. CASE [Next]_vars
    BY <1>2, <2>1, ExpiredStep DEF WatchInv, HistoryInv, SubmitInv
  <2>2. CASE UNCHANGED bundle
    BY <1>2, <2>2 DEF NothingLanded, Landed
  <2> QED BY <1>2, <2>1, <2>2, WatchNextCases
<1>3. WatchInv /\ [WatchNext]_vars =>
        [\A w \in Workers, a \in Attempts :
           task[w].reply \in FinalAnswers /\ ~Sent(w, a) => bundle'[w][a] = bundle[w][a]]_vars
  BY <1>1
<1>4. WatchInv /\ [WatchNext]_vars =>
        [\A w \in Workers :
           req[w].blockhash \in dead /\ NothingLanded(w) => NothingLanded(w)']_vars
  BY <1>2
<1> QED
  BY <1>3, <1>4, WatchInvariant, PTL DEF WatchSpec, NothingSentAfterFinalAnswer, ExpiredNeverLands

\* Nor what a caller sees of the submission: the promise is kept, the wait
\* does not show in it.
THEOREM WatchedPromise == WatchSpec => Promise!Safety
<1>1. ASSUME WatchInv, WatchInv', [WatchNext]_vars
      PROVE  [Promise!Next]_<<Offers, Paid, Answer>>
  <2>1. CASE [Next]_vars
    BY <1>1, <2>1, PromiseStep DEF WatchInv
  <2>2. CASE UNCHANGED <<req, task, bundle, ledger, oracle, dead>>
    <3>1. Offers' = Offers
      BY <1>1, <2>2, OffersStand DEF WatchInv, Sent
    <3> QED BY <2>2, <3>1 DEF Paid, Answer, Landed
  <2> QED BY <1>1, <2>1, <2>2, WatchNextCases
<1>2. WatchInv /\ WatchInv' /\ [WatchNext]_vars => [Promise!Next]_<<Offers, Paid, Answer>>
  BY <1>1
<1> QED BY <1>2, InitPromise, WatchInvariant, PTL DEF WatchSpec, Promise!Safety, Promise!promise

=============================================================================
