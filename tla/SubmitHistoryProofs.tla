------------------------- MODULE SubmitHistoryProofs -------------------------
(***************************************************************************)
(* What the retry loop of submit() has done so far: which bundles it sent, *)
(* with which tips, after which answers.  From that follow the properties  *)
(* about several attempts, that errors are earned, and that submit()       *)
(* implements SubmitPromise.                                               *)
(***************************************************************************)
EXTENDS BundleSubmitProofs, Sequences, FiniteSetTheorems

\* The attempts whose bundle has been sent: all so far, but for the one that
\* is about to be sent.
Count(t) == IF t.pc = "send" THEN t.attempt - 1 ELSE t.attempt

\* The tip after attempt a is that of a, or a bump of it if a was dropped,
\* which the engine says only of a bundle it took.
Climbs(w, a, t) ==
  IF t.last_err = "Dropped"
  THEN bundle[w][a].st \in Accepted /\ t.tip = BumpTip(req[w].policy, bundle[w][a].tip)
  ELSE t.tip = bundle[w][a].tip

SentOK(w, t) ==
  /\ t.attempt <= req[w].policy.max_attempts
  /\ t.pc = "start" => t.attempt = 0
  /\ \A a \in Attempts : Sent(w, a) <=> req[w].encodable /\ a <= Count(t)
  /\ t.pc \notin {"start", "done"} /\ Count(t) >= 1 => req[w].encodable

TipOK(w, t) ==
  /\ t.pc # "done" => \A a \in Attempts : Sent(w, a) => bundle[w][a].tip <= t.tip
  /\ t.pc \in {"next", "send"} /\ Count(t) >= 1 => Climbs(w, Count(t), t)
  /\ t.pc = "sending" /\ t.attempt > 1 => Climbs(w, t.attempt - 1, t)

AnswerOK(w, t) ==
  /\ t.pc \in {"poll", "polled"} => bundle[w][t.attempt].st \in Accepted
  /\ t.pc \notin {"polled", "done"} => t.reply \notin FinalAnswers
  /\ t.pc = "next" /\ t.attempt >= req[w].policy.max_attempts =>
       t.last_err = "Dropped" /\ bundle[w][t.attempt].st \in Accepted

LocalErrors == {"InvalidConfig", "InvalidBundleSize", "TipOracleCold", "Serde"}

ResultOK(w, t) ==
  /\ t.pc # "done" => t.result = NoResult
  /\ t.result.kind \in LocalErrors => \A a \in Attempts : ~Sent(w, a)
  /\ t.result.kind = "Transport" => t.attempt >= req[w].policy.max_attempts
  /\ t.result.kind = "RetriesExhausted" =>
       /\ t.result.last = "Dropped"
       /\ t.result.attempts = t.attempt
       /\ t.attempt \in Attempts
       /\ req[w].encodable
       /\ bundle[w][t.attempt].st \in Accepted

HistoryOK(w, t) == SentOK(w, t) /\ TipOK(w, t) /\ AnswerOK(w, t) /\ ResultOK(w, t)

DistinctPayments ==
  \A v, w \in Workers, a, b \in Attempts :
    v # w /\ Landed(v, a) /\ Landed(w, b) => TipTx(v, a) # TipTx(w, b)

HistoryInv ==
  /\ SubmitInv
  /\ \A w \in Workers : HistoryOK(w, task[w])
  /\ TipsRiseByBumps
  /\ DistinctPayments

-----------------------------------------------------------------------------
(***************************************************************************)
(* Steps that leave the bundles alone.                                     *)
(***************************************************************************)

\* What a worker knows of itself in a state of the invariant.
LEMMA Known ==
  ASSUME HistoryInv, NEW w \in Workers
  PROVE  /\ TypeOK /\ task[w] \in TaskType
         /\ TaskOK(w, task[w]) /\ HistoryOK(w, task[w])
         /\ req[w].policy \in Policies
         /\ req[w].policy.max_attempts \in Attempts
         /\ bundle[w] \in [Attempts -> BundleType]
BY RequestParts DEF HistoryInv, SubmitInv, TypeOK, Attempts

\* A step that changes no bundle and no request keeps what has been sent.
LEMMA StillBundles ==
  ASSUME HistoryInv, req' = req, bundle' = bundle
  PROVE  TipsRiseByBumps' /\ DistinctPayments'
BY DEF HistoryInv, TipsRiseByBumps, DistinctPayments, Sent, Landed, TipTx

\* A local step of a worker keeps the invariant if its new task is right.
LEMMA BecomeHistory ==
  ASSUME HistoryInv, SubmitInv', NEW w \in Workers, NEW t, Become(w, t), HistoryOK(w, t)
  PROVE  HistoryInv'
<1>1. /\ req' = req /\ bundle' = bundle
      /\ task' = [task EXCEPT ![w] = t]
  BY DEF Become
<1>2. ASSUME NEW v \in Workers PROVE HistoryOK(v, task[v])'
  <2>1. task'[v] = IF v = w THEN t ELSE task[v]
    BY <1>1 DEF HistoryInv, SubmitInv, TypeOK
  <2>2. HistoryOK(v, task'[v])
    BY <2>1 DEF HistoryInv
  <2> QED BY <1>1, <2>2 DEF HistoryOK, SentOK, TipOK, AnswerOK, ResultOK, Climbs, Sent
<1> QED BY <1>1, <1>2, StillBundles DEF HistoryInv

\* An early return with an error is a step of a worker that has sent nothing,
\* a rejection is no such error.
LEMMA FailHistory ==
  ASSUME HistoryInv, SubmitInv', NEW w \in Workers, NEW kind, Fail(w, kind),
         kind \notin {"Transport", "RetriesExhausted"},
         task[w].pc = "start" \/ (task[w].pc = "send" /\ ~req[w].encodable)
           \/ (task[w].pc = "polled" /\ kind \notin LocalErrors)
  PROVE  HistoryInv'
<1> DEFINE t == [task[w] EXCEPT !.pc = "done", !.result = [NoResult EXCEPT !.kind = kind]]
<1>1. task[w] \in TaskType /\ SentOK(w, task[w])
  BY Known DEF HistoryOK
<1>2. t.pc = "done" /\ t.attempt = task[w].attempt /\ t.result.kind = kind
  BY <1>1 DEF TaskType, NoResult
<1> HIDE DEF t
<1>3. SentOK(w, t) /\ (kind \in LocalErrors => \A a \in Attempts : ~Sent(w, a))
  BY <1>1, <1>2 DEF SentOK, Count, Attempts
<1>4. TipOK(w, t) /\ AnswerOK(w, t) /\ ResultOK(w, t)
  BY <1>2, <1>3 DEF TipOK, AnswerOK, ResultOK
<1> QED BY <1>3, <1>4, BecomeHistory DEF HistoryOK, Fail, Return, t

\* The errors of a call, and which of them are retried.
LEMMA CallErrors ==
  ASSUME NEW transport, NEW failure
  PROVE  LET error == ErrorOf(transport, failure)
         IN  /\ error \in {"Transport", "Rpc"}
             /\ IsRetriable(error) <=> error = "Transport"
             /\ error = "Transport" => failure \in NetworkFailures
BY DEF ErrorOf, JsonRpcError, GrpcError, IsRetriable

\* A failed call goes round the loop with the tip of the bundle that was sent,
\* unless it was the last attempt.
LEMMA CallFailedHistory ==
  ASSUME HistoryInv, SubmitInv', NEW w \in Workers, task[w].pc \in {"sending", "polled"},
         NEW failure, CallFailed(w, failure)
  PROVE  HistoryInv'
<1> DEFINE error == ErrorOf(req[w].transport, failure)
           again == [task[w] EXCEPT !.pc = "next", !.reply = failure, !.last_err = error]
           over  == [task[w] EXCEPT !.pc = "done", !.reply = failure,
                                    !.result = [NoResult EXCEPT !.kind = error]]
<1>1. /\ task[w] \in TaskType /\ TaskOK(w, task[w])
      /\ SentOK(w, task[w]) /\ TipOK(w, task[w]) /\ ResultOK(w, task[w])
  BY Known DEF HistoryOK
<1>2. /\ error \in {"Transport", "Rpc"}
      /\ IsRetriable(error) <=> error = "Transport"
      /\ error = "Transport" => failure \in NetworkFailures
  BY CallErrors
<1> HIDE DEF error
<1>3. ASSUME IsRetriable(error), ~LastAttempt(w) PROVE HistoryOK(w, again)
  <2>1. /\ again.pc = "next" /\ again.attempt = task[w].attempt /\ again.tip = task[w].tip
        /\ again.reply = failure /\ again.result = task[w].result /\ again.last_err = error
    BY <1>1 DEF TaskType
  <2> HIDE DEF again
  <2>2. SentOK(w, again)
    BY <1>1, <2>1 DEF SentOK, Count
  <2>3. TipOK(w, again)
    BY <1>1, <1>2, <2>1 DEF TipOK, Count, Climbs, TaskOK
  <2>4. AnswerOK(w, again)
    BY <1>2, <1>3, <2>1 DEF AnswerOK, FinalAnswers, LastAttempt
  <2>5. ResultOK(w, again)
    BY <1>1, <2>1 DEF ResultOK, NoResult, LocalErrors
  <2> QED BY <2>2, <2>3, <2>4, <2>5 DEF HistoryOK
<1>4. ASSUME ~(IsRetriable(error) /\ ~LastAttempt(w)) PROVE HistoryOK(w, over)
  <2>1. over.pc = "done" /\ over.attempt = task[w].attempt /\ over.result.kind = error
    BY <1>1 DEF TaskType, NoResult
  <2> HIDE DEF over
  <2>2. SentOK(w, over)
    BY <1>1, <2>1 DEF SentOK, Count
  <2>3. TipOK(w, over) /\ AnswerOK(w, over)
    BY <2>1 DEF TipOK, AnswerOK
  <2>4. ResultOK(w, over)
    BY <1>2, <1>4, <2>1 DEF ResultOK, LastAttempt, LocalErrors
  <2> QED BY <2>2, <2>3, <2>4 DEF HistoryOK
<1> QED BY <1>3, <1>4, BecomeHistory DEF CallFailed, error

-----------------------------------------------------------------------------
(***************************************************************************)
(* Steps that send or settle a bundle.                                     *)
(***************************************************************************)

\* The next bundle carries the tip that the answer to the last one led to.
LEMMA SendHistory ==
  ASSUME HistoryInv, SubmitInv', NEW w \in Workers, Send(w)
  PROVE  HistoryInv'
<1> DEFINE n == task[w].attempt
<1>1. /\ req' = req /\ task[w].pc = "send" /\ req[w].encodable
      /\ task' = [task EXCEPT ![w].pc = "sending"]
      /\ bundle' = [bundle EXCEPT ![w][n] = [st |-> "inflight", tip |-> task[w].tip]]
  BY DEF Send, At
<1>2. /\ bundle \in [Workers -> [Attempts -> BundleType]]
      /\ task \in [Workers -> TaskType] /\ task[w] \in TaskType
      /\ task[w].tip \in Nat
      /\ TaskOK(w, task[w]) /\ HistoryOK(w, task[w])
  BY Known, NumbersAssumption DEF TypeOK, TaskType, Lamports
<1>3. n \in Attempts
  BY <1>1, <1>2 DEF TaskOK
<1>4. \A a \in Attempts : Sent(w, a) <=> a < n
  BY <1>1, <1>2, <1>3 DEF HistoryOK, SentOK, Count, Attempts
<1>5. task'[w] = [task[w] EXCEPT !.pc = "sending"]
  BY <1>1, <1>2
<1>6. /\ task'[w].pc = "sending" /\ task'[w].attempt = n /\ task'[w].tip = task[w].tip
      /\ task'[w].result = task[w].result /\ task'[w].reply = task[w].reply
      /\ task'[w].last_err = task[w].last_err
  BY <1>2, <1>5 DEF TaskType
<1> HIDE DEF n
<1>7. bundle'[w][n] = [st |-> "inflight", tip |-> task[w].tip]
  BY <1>1, <1>2, <1>3
<1>8. ASSUME NEW v \in Workers, NEW b \in Attempts, <<v, b>> # <<w, n>>
      PROVE  bundle'[v][b] = bundle[v][b]
  BY <1>1, <1>2, <1>3, <1>8
<1>9. ASSUME NEW v \in Workers PROVE HistoryOK(v, task[v])'
  <2>1. CASE v = w
    <3>1. SentOK(w, task[w])'
      <4>1. \A a \in Attempts : Sent(w, a)' <=> a <= n
        BY <1>3, <1>4, <1>7, <1>8 DEF Sent, Attempts
      <4> QED BY <1>1, <1>2, <1>6, <4>1 DEF HistoryOK, SentOK, Count, n
    <3>2. TipOK(w, task[w])'
      <4>1. ASSUME NEW a \in Attempts, Sent(w, a)' PROVE bundle'[w][a].tip <= task[w].tip
        <5>1. CASE a = n
          BY <1>2, <1>7, <5>1
        <5>2. CASE a # n
          BY <1>1, <1>2, <1>8, <4>1, <5>2 DEF HistoryOK, TipOK, Sent
        <5> QED BY <5>1, <5>2
      <4>2. ASSUME n > 1 PROVE Climbs(w, task[w].attempt - 1, task[w])'
        <5>1. n - 1 \in Attempts /\ n - 1 # n /\ n - 1 >= 1
          BY <1>3, <4>2, NumbersAssumption DEF Attempts
        <5>2. Count(task[w]) = n - 1
          BY <1>1 DEF Count, n
        <5>3. Climbs(w, n - 1, task[w])
          BY <1>1, <1>2, <5>1, <5>2 DEF HistoryOK, TipOK
        <5>4. bundle'[w][n - 1] = bundle[w][n - 1]
          BY <1>8, <5>1
        <5> QED BY <1>1, <1>6, <5>3, <5>4 DEF Climbs
      <4> QED BY <1>6, <4>1, <4>2 DEF TipOK
    <3>3. AnswerOK(w, task[w])'
      BY <1>1, <1>2, <1>6 DEF HistoryOK, AnswerOK
    <3>4. ResultOK(w, task[w])'
      BY <1>1, <1>2, <1>6 DEF HistoryOK, ResultOK, NoResult, LocalErrors
    <3> QED BY <2>1, <3>1, <3>2, <3>3, <3>4 DEF HistoryOK
  <2>2. CASE v # w
    <3>1. task'[v] = task[v] /\ HistoryOK(v, task[v])
      BY <1>1, <1>2, <2>2 DEF HistoryInv
    <3>2. \A b \in Attempts : bundle'[v][b] = bundle[v][b]
      BY <1>8, <2>2
    <3>3. bundle'[v] = bundle[v]
      BY <1>1, <1>2, <2>2
    <3> QED BY <1>1, <3>1, <3>3
            DEF HistoryOK, SentOK, TipOK, AnswerOK, ResultOK, Climbs, Sent
  <2> QED BY <2>1, <2>2
<1>10. TipsRiseByBumps'
  <2> SUFFICES ASSUME NEW v \in Workers, NEW a \in 1 .. MaxAttempts - 1, Sent(v, a + 1)'
               PROVE  /\ Sent(v, a)'
                      /\ bundle'[v][a].tip <= bundle'[v][a + 1].tip
                      /\ bundle'[v][a + 1].tip # bundle'[v][a].tip =>
                           /\ bundle'[v][a + 1].tip = BumpTip(req[v].policy, bundle'[v][a].tip)
                           /\ bundle'[v][a].st \in Accepted
    BY <1>1 DEF TipsRiseByBumps
  <2>1. a \in Attempts /\ a + 1 \in Attempts /\ a # a + 1
    BY NumbersAssumption DEF Attempts
  <2>2. <<v, a>> # <<w, n>>
    <3>1. ASSUME v = w, a = n PROVE FALSE
      <4>1. bundle'[v][a + 1] = bundle[v][a + 1]
        BY <1>8, <2>1, <3>1
      <4> QED BY <1>4, <2>1, <3>1, <4>1 DEF Sent, Attempts
    <3> QED BY <3>1
  <2>3. bundle'[v][a] = bundle[v][a]
    BY <1>8, <2>1, <2>2
  <2>4. CASE <<v, a + 1>> = <<w, n>>
    <3>1. v = w /\ n = a + 1 /\ Sent(w, a)
      BY <1>4, <2>1, <2>4 DEF Attempts
    <3>2. Count(task[w]) = a /\ a >= 1
      BY <1>1, <2>1, <3>1 DEF Count, n, Attempts
    <3>3. bundle[w][a].tip <= task[w].tip /\ Climbs(w, a, task[w])
      BY <1>1, <1>2, <2>1, <3>1, <3>2 DEF HistoryOK, TipOK
    <3> QED BY <1>7, <2>3, <3>1, <3>3 DEF Sent, Climbs
  <2>5. CASE <<v, a + 1>> # <<w, n>>
    <3>1. bundle'[v][a + 1] = bundle[v][a + 1]
      BY <1>8, <2>1, <2>5
    <3> QED BY <2>3, <3>1 DEF HistoryInv, TipsRiseByBumps, Sent
  <2> QED BY <2>4, <2>5
<1>11. DistinctPayments'
  <2>1. ASSUME NEW v \in Workers, NEW b \in Attempts, Landed(v, b)'
        PROVE  Landed(v, b) /\ TipTx(v, b)' = TipTx(v, b)
    <3>1. <<v, b>> # <<w, n>>
      BY <1>7, <2>1 DEF Landed
    <3>2. bundle'[v][b] = bundle[v][b]
      BY <1>8, <3>1
    <3> QED BY <1>1, <2>1, <3>2 DEF Landed, TipTx
  <2> QED BY <2>1 DEF HistoryInv, DistinctPayments
<1> QED BY <1>9, <1>10, <1>11 DEF HistoryInv

\* What the history rests on survives a step that moves bundles on: no tip
\* changes, no bundle is sent or recalled, and what the engine took stays taken.
LEMMA HistoryFrame ==
  ASSUME NEW w \in Workers, HistoryOK(w, task[w]), TaskOK(w, task[w]), task[w] \in TaskType,
         req[w].policy.max_attempts \in Attempts,
         req' = req, task'[w] = task[w],
         \A a \in Attempts : /\ bundle'[w][a].tip = bundle[w][a].tip
                             /\ Sent(w, a)' <=> Sent(w, a)
                             /\ bundle[w][a].st \in Accepted => bundle'[w][a].st \in Accepted
  PROVE  HistoryOK(w, task[w])'
<1>1. SentOK(w, task[w])'
  BY DEF HistoryOK, SentOK
<1>t. task[w].attempt \in 0 .. MaxAttempts /\ MaxAttempts \in Nat
  BY NumbersAssumption DEF TaskType
<1>2. TipOK(w, task[w])'
  <2>1. Count(task[w]) >= 1 => Count(task[w]) \in Attempts
    BY <1>t DEF Count, Attempts
  <2>2. \A a \in Attempts : Climbs(w, a, task[w]) => Climbs(w, a, task[w])'
    BY DEF Climbs
  <2>3. task[w].pc \in {"next", "send"} /\ Count(task[w]) >= 1 =>
          Climbs(w, Count(task[w]), task[w])'
    BY <2>1, <2>2 DEF HistoryOK, TipOK
  <2>4. task[w].pc = "sending" /\ task[w].attempt > 1 =>
          Climbs(w, task[w].attempt - 1, task[w])'
    BY <1>t, <2>2 DEF HistoryOK, TipOK, Attempts
  <2> QED BY <2>3, <2>4 DEF HistoryOK, TipOK
<1>3. AnswerOK(w, task[w])'
  <2>1. task[w].pc = "next" /\ task[w].attempt >= req[w].policy.max_attempts =>
          task[w].attempt \in Attempts
    BY <1>t DEF Attempts
  <2> QED BY <2>1 DEF HistoryOK, AnswerOK, TaskOK
<1>4. ResultOK(w, task[w])'
  BY DEF HistoryOK, ResultOK
<1> QED BY <1>1, <1>2, <1>3, <1>4 DEF HistoryOK

\* The chain lands no bundle with a transaction it has executed.
LEMMA LandsFresh ==
  ASSUME TypeOK, NEW w \in Workers, NEW a \in Attempts, BlockEngine(w, a),
         ~Landed(w, a), Landed(w, a)'
  PROVE  BundleTxs(w, a) \cap ledger = {}
<1>1. CASE Land(w, a)
  BY <1>1 DEF Land
<1>2. CASE ~Land(w, a)
  <2>1. \E from, to : to # "landed" /\ Settle(w, a, from, to)
    BY <1>2 DEF BlockEngine, Receive, Refuse, Drop, Reject
  <2> QED BY <2>1, SettleLands
<1> QED BY <1>1, <1>2

\* A step of the block engine preserves the invariant.
LEMMA BlockEngineHistory ==
  ASSUME HistoryInv, SubmitInv', NEW w \in Workers, NEW a \in Attempts, BlockEngine(w, a)
  PROVE  HistoryInv'
<1>1. PICK from \in {"inflight", "pending"}, to \in Accepted \cup {"refused"} :
        Settle(w, a, from, to) /\ (to = "refused" => from = "inflight")
  BY DEF BlockEngine, Receive, Refuse, Land, Drop, Reject, Accepted
<1>2. /\ req' = req /\ task' = task /\ bundle[w][a].st = from
      /\ bundle' = [bundle EXCEPT ![w][a].st = to]
  BY <1>1 DEF Settle
<1>3. bundle \in [Workers -> [Attempts -> BundleType]]
  BY DEF HistoryInv, SubmitInv, TypeOK
<1>4. bundle'[w][a].st = to
  BY <1>2, <1>3 DEF BundleType
<1>5. ASSUME NEW v \in Workers, NEW b \in Attempts
      PROVE  /\ bundle'[v][b].tip = bundle[v][b].tip
             /\ Sent(v, b)' <=> Sent(v, b)
             /\ bundle[v][b].st \in Accepted => bundle'[v][b].st \in Accepted
             /\ TipTx(v, b)' = TipTx(v, b)
             /\ <<v, b>> # <<w, a>> => (Landed(v, b)' <=> Landed(v, b))
  <2>1. /\ bundle'[v][b].tip = bundle[v][b].tip
        /\ <<v, b>> # <<w, a>> => bundle'[v][b] = bundle[v][b]
    BY <1>2, <1>3 DEF BundleType
  <2>2. /\ from # "none" /\ to # "none"
        /\ from \in Accepted => to \in Accepted
    BY <1>1 DEF Accepted
  <2> QED BY <1>2, <1>4, <2>1, <2>2 DEF Sent, TipTx, Landed
<1>6. ASSUME NEW v \in Workers PROVE HistoryOK(v, task[v])'
  <2>1. /\ HistoryOK(v, task[v]) /\ TaskOK(v, task[v]) /\ task[v] \in TaskType
        /\ req[v].policy.max_attempts \in Attempts
    BY Known
  <2> QED BY <1>2, <1>5, <2>1, HistoryFrame
<1>7. TipsRiseByBumps'
  <2>1. \A b \in 1 .. MaxAttempts - 1 : b \in Attempts /\ b + 1 \in Attempts
    BY NumbersAssumption DEF Attempts
  <2> QED BY <1>2, <1>5, <2>1 DEF HistoryInv, TipsRiseByBumps
<1>8. DistinctPayments'
  <2> SUFFICES ASSUME NEW v \in Workers, NEW x \in Workers, NEW b \in Attempts, NEW c \in Attempts,
                      v # x, Landed(v, b)', Landed(x, c)', TipTx(v, b)' = TipTx(x, c)'
               PROVE  FALSE
    BY DEF DistinctPayments
  <2>1. TipTx(v, b) = TipTx(x, c)
    BY <1>5
  <2>2. ASSUME NEW y \in Workers, NEW d \in Attempts, y # w, Landed(y, d)', Landed(w, a)'
        PROVE  TipTx(y, d) # TipTx(w, a)
    <3>1. Landed(y, d)
      BY <1>5, <2>2
    <3>2. BundleTxs(y, d) \subseteq ledger
      BY <3>1 DEF HistoryInv, SubmitInv, BundleOK
    <3>3. BundleTxs(w, a) \cap ledger = {}
      <4>1. ~Landed(w, a)
        BY <1>2 DEF Landed
      <4> QED BY <2>2, <4>1, LandsFresh DEF HistoryInv, SubmitInv
    <3> QED BY <3>2, <3>3 DEF BundleTxs
  <2>3. CASE <<v, b>> = <<w, a>>
    BY <2>1, <2>2, <2>3
  <2>4. CASE <<x, c>> = <<w, a>>
    BY <2>1, <2>2, <2>4
  <2>5. CASE <<v, b>> # <<w, a>> /\ <<x, c>> # <<w, a>>
    BY <1>5, <2>1, <2>5 DEF HistoryInv, DistinctPayments
  <2> QED BY <2>3, <2>4, <2>5
<1> QED BY <1>6, <1>7, <1>8 DEF HistoryInv

-----------------------------------------------------------------------------
(***************************************************************************)
(* The invariant.                                                          *)
(***************************************************************************)

\* A step of submit() sends a bundle or leaves all of them alone.
LEMMA SubmitSendsOrNot ==
  ASSUME NEW w \in Workers, Submit(w)
  PROVE  Send(w) \/ UNCHANGED bundle
BY DEF Submit, RejectPolicy, RejectSize, OracleCold, Start, NextAttempt, Exhausted,
       EncodeFailed, SendOk, SendFailed, CallFailed, Poll, PollFailed, PollAgain, ReturnLanded,
       ReturnRejected, BundleDropped, Fail, Return, Become

\* Every step of submit() preserves the invariant.
LEMMA SubmitStepHistory ==
  ASSUME HistoryInv, TypeOK', NEW w \in Workers, Submit(w)
  PROVE  HistoryInv'
<1>t. /\ task[w] \in TaskType /\ TaskOK(w, task[w]) /\ HistoryOK(w, task[w])
      /\ req[w].policy \in Policies /\ req[w].policy.max_attempts \in Attempts
      /\ MaxAttempts \in Nat
  BY Known, NumbersAssumption
<1>n. task[w].attempt \in 0 .. MaxAttempts /\ task[w].tip \in Lamports
  BY <1>t DEF TaskType
<1>s. SubmitInv'
  BY SubmitStepInv DEF HistoryInv
<1>1. CASE RejectPolicy(w)
  BY <1>1, <1>s, FailHistory DEF RejectPolicy, At
<1>2. CASE RejectSize(w)
  BY <1>2, <1>s, FailHistory DEF RejectSize, At
<1>3. CASE OracleCold(w)
  BY <1>3, <1>s, FailHistory DEF OracleCold, At
<1>4. CASE Start(w)
  <2>1. PICK tip : Become(w, [task[w] EXCEPT !.pc = "next", !.tip = tip])
    BY <1>4 DEF Start
  <2> DEFINE t == [task[w] EXCEPT !.pc = "next", !.tip = tip]
  <2>2. /\ t.pc = "next" /\ t.attempt = task[w].attempt
        /\ t.reply = task[w].reply /\ t.result = task[w].result
    BY <1>t DEF TaskType
  <2>3. task[w].pc = "start" /\ task[w].attempt = 0
    BY <1>4, <1>t DEF Start, At, HistoryOK, SentOK
  <2> HIDE DEF t
  <2>4. SentOK(w, t)
    BY <1>t, <2>2, <2>3 DEF HistoryOK, SentOK, Count
  <2>5. \A a \in Attempts : ~Sent(w, a)
    BY <2>2, <2>3, <2>4 DEF SentOK, Count, Attempts
  <2>6. TipOK(w, t)
    BY <2>2, <2>3, <2>5 DEF TipOK, Count
  <2>7. AnswerOK(w, t)
    BY <1>t, <2>2, <2>3 DEF HistoryOK, AnswerOK, Attempts
  <2>8. ResultOK(w, t)
    BY <1>t, <2>2, <2>3 DEF HistoryOK, ResultOK, NoResult, LocalErrors
  <2> QED BY <1>s, <2>1, <2>4, <2>6, <2>7, <2>8, BecomeHistory DEF HistoryOK, t
<1>5. CASE NextAttempt(w)
  <2> DEFINE t == [task[w] EXCEPT !.pc = "send", !.attempt = @ + 1]
  <2>1. /\ t.pc = "send" /\ t.attempt = task[w].attempt + 1 /\ t.tip = task[w].tip
        /\ t.reply = task[w].reply /\ t.result = task[w].result
        /\ t.last_err = task[w].last_err
    BY <1>t DEF TaskType
  <2>2. task[w].pc = "next" /\ task[w].attempt + 1 <= req[w].policy.max_attempts
    BY <1>5, <1>n, <1>t DEF NextAttempt, At, LastAttempt, Attempts
  <2> HIDE DEF t
  <2>3. Count(t) = task[w].attempt /\ Count(task[w]) = task[w].attempt
    BY <1>n, <2>1, <2>2 DEF Count
  <2>4. SentOK(w, t) /\ TipOK(w, t)
    BY <1>t, <2>1, <2>2, <2>3 DEF HistoryOK, SentOK, TipOK, Climbs
  <2>5. AnswerOK(w, t) /\ ResultOK(w, t)
    BY <1>t, <2>1, <2>2 DEF HistoryOK, AnswerOK, ResultOK, NoResult, LocalErrors
  <2> QED BY <1>5, <1>s, <2>4, <2>5, BecomeHistory DEF NextAttempt, HistoryOK, t
<1>6. CASE Exhausted(w)
  <2> DEFINE last   == IF task[w].last_err = "none" THEN "StatusStreamClosed"
                                                   ELSE task[w].last_err
             result == [NoResult EXCEPT !.kind     = "RetriesExhausted",
                                        !.attempts = req[w].policy.max_attempts,
                                        !.last     = last]
             t      == [task[w] EXCEPT !.pc = "done", !.result = result]
  <2>1. /\ result.kind = "RetriesExhausted" /\ result.last = last
        /\ result.attempts = req[w].policy.max_attempts
    BY DEF NoResult
  <2>2. Become(w, t)
    BY <1>6 DEF Exhausted, Return
  <2> HIDE DEF result
  <2>3. t.pc = "done" /\ t.attempt = task[w].attempt /\ t.result = result
    BY <1>t DEF TaskType
  <2>4. /\ task[w].pc = "next" /\ task[w].attempt = req[w].policy.max_attempts
        /\ last = "Dropped" /\ bundle[w][task[w].attempt].st \in Accepted
        /\ req[w].encodable
    BY <1>6, <1>n, <1>t
       DEF Exhausted, At, LastAttempt, HistoryOK, SentOK, AnswerOK, Count, Attempts
  <2> HIDE DEF t, last
  <2>5. SentOK(w, t) /\ TipOK(w, t) /\ AnswerOK(w, t)
    BY <1>t, <2>3, <2>4 DEF HistoryOK, SentOK, TipOK, AnswerOK, Count
  <2>6. ResultOK(w, t)
    BY <1>t, <2>1, <2>3, <2>4 DEF ResultOK, LocalErrors
  <2> QED BY <1>s, <2>2, <2>5, <2>6, BecomeHistory DEF HistoryOK
<1>7. CASE Send(w)
  BY <1>7, <1>s, SendHistory
<1>8. CASE SendOk(w)
  <2> DEFINE t == [task[w] EXCEPT !.pc = "poll", !.bundle_id = task[w].attempt,
                                  !.left = PollBudget]
  <2>1. /\ t.pc = "poll" /\ t.attempt = task[w].attempt /\ t.tip = task[w].tip
        /\ t.reply = task[w].reply /\ t.result = task[w].result
    BY <1>t DEF TaskType
  <2>2. task[w].pc = "sending" /\ bundle[w][task[w].attempt].st \in Accepted
    BY <1>8 DEF SendOk, At
  <2> HIDE DEF t
  <2>3. HistoryOK(w, t)
    BY <1>t, <2>1, <2>2
       DEF HistoryOK, SentOK, TipOK, AnswerOK, ResultOK, Count, NoResult, LocalErrors
  <2> QED BY <1>8, <1>s, <2>3, BecomeHistory DEF SendOk, t
<1>9. CASE SendFailed(w)
  BY <1>9, <1>s, CallFailedHistory DEF SendFailed, At
<1>10. CASE Poll(w)
  <2>1. PICK left, reply :
          Become(w, [task[w] EXCEPT !.pc = "polled", !.reply = reply, !.left = left])
    BY <1>10 DEF Poll
  <2> DEFINE t == [task[w] EXCEPT !.pc = "polled", !.reply = reply, !.left = left]
  <2>2. /\ t.pc = "polled" /\ t.attempt = task[w].attempt /\ t.tip = task[w].tip
        /\ t.result = task[w].result /\ task[w].pc = "poll"
    BY <1>10, <1>t DEF TaskType, Poll, At
  <2> HIDE DEF t
  <2>3. HistoryOK(w, t)
    BY <1>t, <2>2
       DEF HistoryOK, SentOK, TipOK, AnswerOK, ResultOK, Count, NoResult, LocalErrors
  <2> QED BY <1>s, <2>1, <2>3, BecomeHistory DEF t
<1>11. CASE PollFailed(w)
  BY <1>11, <1>s, CallFailedHistory DEF PollFailed, At
<1>12. CASE PollAgain(w)
  <2> DEFINE t == [task[w] EXCEPT !.pc = "poll", !.left = @ - 1]
  <2>1. /\ t.pc = "poll" /\ t.attempt = task[w].attempt /\ t.tip = task[w].tip
        /\ t.reply = task[w].reply /\ t.result = task[w].result
    BY <1>t DEF TaskType
  <2>2. task[w].pc = "polled" /\ task[w].reply = "Pending"
    BY <1>12 DEF PollAgain, At, IsTerminal
  <2> HIDE DEF t
  <2>3. HistoryOK(w, t)
    BY <1>t, <2>1, <2>2
       DEF HistoryOK, SentOK, TipOK, AnswerOK, ResultOK, Count, NoResult, LocalErrors, FinalAnswers
  <2> QED BY <1>12, <1>s, <2>3, BecomeHistory DEF PollAgain, t
<1>13. CASE ReturnLanded(w)
  <2> DEFINE t == [task[w] EXCEPT !.pc = "done", !.result = Outcome(w)]
  <2>1. t.pc = "done" /\ t.attempt = task[w].attempt /\ t.result.kind = "Landed"
    BY <1>t DEF TaskType, Outcome, NoResult
  <2>2. task[w].pc = "polled"
    BY <1>13 DEF ReturnLanded, At
  <2> HIDE DEF t
  <2>3. HistoryOK(w, t)
    BY <1>t, <2>1, <2>2 DEF HistoryOK, SentOK, TipOK, AnswerOK, ResultOK, Count, LocalErrors
  <2> QED BY <1>13, <1>s, <2>3, BecomeHistory DEF ReturnLanded, Return, t
<1>14. CASE ReturnRejected(w)
  BY <1>14, <1>s, FailHistory DEF ReturnRejected, At, LocalErrors
<1>15. CASE BundleDropped(w)
  <2> DEFINE bumped == BumpTip(req[w].policy, task[w].tip)
             t      == [task[w] EXCEPT !.pc = "next", !.last_err = "Dropped",
                                       !.tip = BumpTip(req[w].policy, @)]
  <2>1. /\ t.pc = "next" /\ t.attempt = task[w].attempt /\ t.tip = bumped
        /\ t.reply = task[w].reply /\ t.last_err = "Dropped" /\ t.result = task[w].result
    BY <1>t DEF TaskType
  <2>2. task[w].pc = "polled" /\ task[w].reply \in {"Dropped", "Pending"}
    BY <1>15 DEF BundleDropped, At
  <2>3. bumped \in Lamports /\ task[w].tip <= bumped
    BY <1>n, <1>t, BumpTipType
  <2> HIDE DEF t
  <2>4. SentOK(w, t)
    BY <1>t, <2>1, <2>2 DEF HistoryOK, SentOK, Count
  <2>5. TipOK(w, t)
    <3>1. Climbs(w, task[w].attempt, t)
      BY <1>t, <2>1, <2>2 DEF Climbs, HistoryOK, AnswerOK, TaskOK
    <3>2. ASSUME NEW a \in Attempts, Sent(w, a) PROVE bundle[w][a].tip <= bumped
      <4>1. bundle[w][a].tip <= task[w].tip
        BY <1>t, <2>2, <3>2 DEF HistoryOK, TipOK
      <4>2. bundle[w][a].tip \in Lamports
        BY Known DEF BundleType
      <4> HIDE DEF bumped
      <4> QED BY <1>n, <2>3, <4>1, <4>2, NumbersAssumption DEF Lamports
    <3> HIDE DEF bumped
    <3> QED BY <2>1, <3>1, <3>2 DEF TipOK, Count
  <2>6. AnswerOK(w, t)
    BY <1>t, <2>1, <2>2 DEF HistoryOK, AnswerOK, FinalAnswers
  <2>7. ResultOK(w, t)
    BY <1>t, <2>1, <2>2 DEF HistoryOK, ResultOK, NoResult, LocalErrors
  <2> QED BY <1>15, <1>s, <2>4, <2>5, <2>6, <2>7, BecomeHistory DEF BundleDropped, HistoryOK, t
<1>16. CASE EncodeFailed(w)
  BY <1>16, <1>s, FailHistory DEF EncodeFailed, At
<1> QED BY <1>1, <1>2, <1>3, <1>4, <1>5, <1>6, <1>7, <1>8, <1>9, <1>10, <1>11, <1>12,
           <1>13, <1>14, <1>15, <1>16 DEF Submit

\* Nothing has happened at first.
LEMMA InitHistory == Init => HistoryInv
<1> SUFFICES ASSUME Init PROVE HistoryInv
  OBVIOUS
<1>1. SubmitInv
  BY SubmitInit
<1>2. \A w \in Workers, a \in Attempts : ~Sent(w, a) /\ ~Landed(w, a)
  BY DEF Init, Sent, Landed
<1>3. ASSUME NEW w \in Workers PROVE HistoryOK(w, task[w])
  <2>1. /\ task[w].pc = "start" /\ task[w].attempt = 0
        /\ task[w].reply = "none" /\ task[w].result = NoResult
    BY DEF Init
  <2>2. req[w].policy.max_attempts \in 1 .. MaxAttempts
    BY <1>1, RequestParts DEF SubmitInv
  <2>3. SentOK(w, task[w])
    BY <1>2, <2>1, <2>2 DEF SentOK, Count, Attempts
  <2>4. "none" \notin FinalAnswers
    BY DEF FinalAnswers, Statuses, Failures, NetworkFailures
  <2>5. TipOK(w, task[w]) /\ AnswerOK(w, task[w]) /\ ResultOK(w, task[w])
    BY <1>2, <2>1, <2>4 DEF TipOK, AnswerOK, ResultOK, NoResult, LocalErrors
  <2> QED BY <2>3, <2>5 DEF HistoryOK
<1>4. \A a \in 1 .. MaxAttempts - 1 : a + 1 \in Attempts
  BY NumbersAssumption DEF Attempts
<1> QED BY <1>1, <1>2, <1>3, <1>4 DEF HistoryInv, TipsRiseByBumps, DistinctPayments

\* Every step preserves it, whoever takes it.
LEMMA NextHistory == HistoryInv /\ [Next]_vars => HistoryInv'
<1> SUFFICES ASSUME HistoryInv, [Next]_vars PROVE HistoryInv'
  OBVIOUS
<1>1. TypeOK'
  BY NextType DEF HistoryInv, SubmitInv
<1>2. SubmitInv'
  BY <1>1, NextInv DEF HistoryInv
<1>3. ASSUME NEW w \in Workers, Submit(w) PROVE HistoryInv'
  BY <1>1, <1>3, SubmitStepHistory
<1>4. ASSUME NEW w \in Workers, NEW a \in Attempts, BlockEngine(w, a) PROVE HistoryInv'
  BY <1>2, <1>4, BlockEngineHistory
<1>5. CASE OracleMoves \/ Expire \/ UNCHANGED vars
  <2>1. req' = req /\ task' = task /\ bundle' = bundle
    BY <1>5 DEF OracleMoves, Expire, vars
  <2>2. \A w \in Workers : HistoryOK(w, task[w])'
    BY <2>1 DEF HistoryInv, HistoryOK, SentOK, TipOK, AnswerOK, ResultOK, Climbs, Sent
  <2> QED BY <1>2, <2>1, <2>2, StillBundles DEF HistoryInv
<1> QED BY <1>3, <1>4, <1>5 DEF Next

\* The invariant holds in every behaviour.
LEMMA HistoryInvariant == Spec => []HistoryInv
BY InitHistory, NextHistory, PTL DEF Spec

\* What the history says of the bundle that is being sent.
LEMMA HistoryClimbs == HistoryInv => TipsClimbOnlyOnDrops
<1> SUFFICES ASSUME HistoryInv, NEW w \in Workers, task[w].pc = "sending", task[w].attempt > 1
             PROVE  LET a      == task[w].attempt
                        before == bundle[w][a - 1].tip
                    IN  bundle[w][a].tip = IF task[w].last_err = "Dropped"
                                           THEN BumpTip(req[w].policy, before) ELSE before
  BY DEF HistoryInv, TipsClimbOnlyOnDrops, BumpFollowsDrop, At
<1>1. bundle[w][task[w].attempt].tip = task[w].tip
  BY Known DEF TaskOK
<1>2. Climbs(w, task[w].attempt - 1, task[w])
  BY Known DEF HistoryOK, TipOK
<1> QED BY <1>1, <1>2 DEF Climbs

\* Tips never fall from one attempt to the next, and rise only if the engine
\* had taken the bundle before and reported it dropped, or left it pending.
THEOREM TipsClimb == Spec => []TipsClimbOnlyOnDrops
BY HistoryClimbs, HistoryInvariant, PTL

\* What the history says of an error.
LEMMA HistoryJustifies == HistoryInv => FailureJustified
<1> SUFFICES ASSUME HistoryInv, NEW w \in Workers
             PROVE  LET result == task[w].result
                    IN  /\ result.kind \in LocalErrors => \A a \in Attempts : ~Sent(w, a)
                        /\ result.kind = "Transport" => LastAttempt(w)
                        /\ result.kind = "RetriesExhausted" =>
                             /\ result.last = "Dropped"
                             /\ result.attempts = task[w].attempt
                             /\ \A a \in 1 .. result.attempts : Sent(w, a)
                             /\ bundle[w][result.attempts].st \in Accepted
  BY DEF FailureJustified, LocalErrors
<1>1. ResultOK(w, task[w]) /\ SentOK(w, task[w])
  BY Known DEF HistoryOK
<1>2. ASSUME task[w].result.kind = "RetriesExhausted"
      PROVE  \A a \in 1 .. task[w].result.attempts : Sent(w, a)
  <2>1. /\ task[w].result.attempts = task[w].attempt /\ task[w].attempt \in Attempts
        /\ req[w].encodable /\ task[w].pc = "done"
    BY <1>1, <1>2 DEF ResultOK, NoResult
  <2>2. Count(task[w]) = task[w].attempt
    BY <2>1 DEF Count
  <2> QED BY <1>1, <2>1, <2>2, NumbersAssumption DEF SentOK, Attempts
<1> QED BY <1>1, <1>2 DEF ResultOK, LastAttempt

\* submit() returns no error before it has done what the error says.
THEOREM ErrorsAreEarned == Spec => []FailureJustified
BY HistoryJustifies, HistoryInvariant, PTL

\* What the history says of two outcomes.
LEMMA HistoryDistinguishes == HistoryInv => OnePaymentPerOutcome
<1> SUFFICES ASSUME HistoryInv, NEW v \in Workers, NEW w \in Workers, v # w,
                    task[v].result.kind = "Landed", task[w].result.kind = "Landed"
             PROVE  TipTx(v, task[v].result.bundle_id) # TipTx(w, task[w].result.bundle_id)
  BY DEF OnePaymentPerOutcome
<1>1. OutcomeIsTrue(v, task[v].result) /\ OutcomeIsTrue(w, task[w].result)
  BY Known DEF TaskOK
<1> QED BY <1>1 DEF OutcomeIsTrue, HistoryInv, DistinctPayments

\* Two submissions that both landed were paid with two tip transfers.
THEOREM PaymentsAreDistinct == Spec => []OnePaymentPerOutcome
BY HistoryDistinguishes, HistoryInvariant, PTL

\* A worker that has such an answer is past its last send, and the engine
\* settles only what was sent.
LEMMA SilentStep ==
  ASSUME HistoryInv, [Next]_vars, NEW w \in Workers, NEW a \in Attempts,
         task[w].reply \in FinalAnswers, ~Sent(w, a)
  PROVE  bundle'[w][a] = bundle[w][a]
<1>1. bundle \in [Workers -> [Attempts -> BundleType]]
  BY DEF HistoryInv, SubmitInv, TypeOK
<1>2. ASSUME NEW v \in Workers, Submit(v), v # w PROVE bundle'[w] = bundle[w]
  <2>1. CASE Send(v)
    BY <1>1, <1>2, <2>1 DEF Send
  <2>2. CASE UNCHANGED bundle
    BY <2>2
  <2> QED BY <1>2, <2>1, <2>2, SubmitSendsOrNot
<1>3. ASSUME Submit(w) PROVE UNCHANGED bundle
  <2>1. ASSUME Send(w) PROVE FALSE
    BY <2>1, Known DEF Send, At, HistoryOK, AnswerOK
  <2> QED BY <1>3, <2>1, SubmitSendsOrNot
<1>4. ASSUME NEW v \in Workers, NEW b \in Attempts, BlockEngine(v, b)
      PROVE  bundle'[w][a] = bundle[w][a]
  <2>1. PICK from \in {"inflight", "pending"}, to \in Accepted \cup {"refused"} :
          Settle(v, b, from, to)
    BY <1>4 DEF BlockEngine, Receive, Refuse, Land, Drop, Reject, Accepted
  <2>2. <<v, b>> # <<w, a>>
    BY <2>1 DEF Settle, Sent
  <2> QED BY <1>1, <2>1, <2>2 DEF Settle
<1>5. CASE OracleMoves \/ Expire \/ UNCHANGED vars
  BY <1>5 DEF OracleMoves, Expire, vars
<1> QED BY <1>2, <1>3, <1>4, <1>5 DEF Next

\* After an answer that is not retriable the worker puts no further bundle on
\* the wire, not even one it has prepared.
THEOREM SilentAfterFinalAnswer == Spec => NothingSentAfterFinalAnswer
<1>1. HistoryInv /\ [Next]_vars =>
        [\A w \in Workers, a \in Attempts :
           task[w].reply \in FinalAnswers /\ ~Sent(w, a) => bundle'[w][a] = bundle[w][a]]_vars
  BY SilentStep
<1> QED BY <1>1, HistoryInvariant, PTL DEF Spec, NothingSentAfterFinalAnswer

-----------------------------------------------------------------------------
(***************************************************************************)
(* submit() implements SubmitPromise, but for the liveness of the latter.  *)
(***************************************************************************)
Told(result) ==
  CASE result.kind = "none" -> [kind |-> "none", offer |-> 0, tip |-> 0]
    [] result.kind = "Landed" ->
         [kind |-> "landed", offer |-> result.attempts, tip |-> result.tip]
    [] OTHER -> [kind |-> "failed", offer |-> 0, tip |-> 0]

\* The answer of the refinement mapping, worker by worker.
LEMMA AnswerIs == Answer = [w \in Workers |-> Told(task[w].result)]
BY DEF Answer, Told

\* The bundles sent are those of the first attempts: no attempt is left out.
LEMMA SentCountIs ==
  ASSUME HistoryInv, NEW w \in Workers
  PROVE  /\ SentCount(w) \in 0 .. MaxAttempts
         /\ \A a \in Attempts : Sent(w, a) <=> a <= SentCount(w)
         /\ req[w].encodable => SentCount(w) = Count(task[w])
<1> DEFINE n == IF req[w].encodable THEN Count(task[w]) ELSE 0
<1>1. n \in 0 .. MaxAttempts /\ MaxAttempts \in Nat
  <2>1. task[w] \in TaskType /\ TaskOK(w, task[w])
    BY Known
  <2>2. task[w].attempt \in 0 .. MaxAttempts
    BY <2>1 DEF TaskType
  <2>3. task[w].pc = "send" => task[w].attempt \in Attempts
    BY <2>1 DEF TaskOK
  <2> QED BY <2>2, <2>3, NumbersAssumption DEF Count, Attempts
<1>2. \A a \in Attempts : Sent(w, a) <=> a <= n
  BY Known DEF HistoryOK, SentOK, Attempts
<1> HIDE DEF n
<1>3. {a \in Attempts : Sent(w, a)} = 1 .. n
  BY <1>1, <1>2 DEF Attempts
<1>4. Cardinality(1 .. n) = n
  BY <1>1, FS_Interval
<1>5. SentCount(w) = n
  BY <1>3, <1>4 DEF SentCount
<1> QED BY <1>1, <1>2, <1>5 DEF n

\* The offers stand while no bundle is sent and no tip changes.
LEMMA OffersStand ==
  ASSUME HistoryInv, HistoryInv',
         \A w \in Workers, a \in Attempts : /\ bundle'[w][a].tip = bundle[w][a].tip
                                            /\ Sent(w, a)' <=> Sent(w, a)
  PROVE  Offers' = Offers
<1>1. ASSUME NEW w \in Workers PROVE SentCount(w)' = SentCount(w)
  <2>1. {a \in Attempts : Sent(w, a)}' = {a \in Attempts : Sent(w, a)}
    OBVIOUS
  <2> QED BY <2>1 DEF SentCount
<1>2. ASSUME NEW w \in Workers
      PROVE  [a \in 1 .. SentCount(w) |-> bundle[w][a].tip]'
               = [a \in 1 .. SentCount(w) |-> bundle[w][a].tip]
  <2>1. \A a \in 1 .. SentCount(w) : a \in Attempts
    BY SentCountIs, NumbersAssumption DEF Attempts
  <2> QED BY <1>1, <2>1
<1> QED BY <1>2 DEF Offers

\* What a local step of a worker leaves as it was, and what it may tell.
LEMMA BecomePromise ==
  ASSUME HistoryInv, HistoryInv', NEW w \in Workers, NEW t, Become(w, t)
  PROVE  /\ Offers' = Offers /\ Paid' = Paid
         /\ Answer' = [Answer EXCEPT ![w] = Told(t.result)]
<1>1. bundle' = bundle /\ task' = [task EXCEPT ![w] = t]
  BY DEF Become
<1>2. Offers' = Offers
  BY <1>1, OffersStand DEF Sent
<1>3. Paid' = Paid
  BY <1>1 DEF Paid, Landed
<1>4. \A v \in Workers : task'[v] = IF v = w THEN t ELSE task[v]
  BY <1>1 DEF HistoryInv, SubmitInv, TypeOK
<1>5. Answer' = [v \in Workers |-> Told(task'[v].result)]
  BY AnswerIs DEF Answer, Told
<1> QED BY <1>2, <1>3, <1>4, <1>5, AnswerIs

\* A local step that does not end submit() is no step of the promise.
LEMMA StutterPromise ==
  ASSUME HistoryInv, HistoryInv', NEW w \in Workers, NEW t, Become(w, t),
         t.result = task[w].result
  PROVE  UNCHANGED <<Offers, Paid, Answer>>
<1>1. Answer[w] = Told(task[w].result)
  BY AnswerIs
<1> QED BY <1>1, BecomePromise, AnswerIs

\* A local step that ends it with an error tells the failure.
LEMMA FailPromise ==
  ASSUME HistoryInv, HistoryInv', NEW w \in Workers, NEW t, Become(w, t),
         task[w].pc # "done", t.result.kind \notin {"none", "Landed"}
  PROVE  Promise!TellFailed(w)
<1>1. task[w].result = NoResult
  BY Known DEF HistoryOK, ResultOK
<1>2. Answer[w] = Promise!NoAnswer
  BY <1>1, AnswerIs DEF Told, NoResult, Promise!NoAnswer
<1>3. Told(t.result) = Promise!Failed
  BY DEF Told, Promise!Failed
<1> QED BY <1>2, <1>3, BecomePromise DEF Promise!TellFailed

\* A failed call ends submit() with an error or does not end it.
LEMMA CallFailedPromise ==
  ASSUME HistoryInv, HistoryInv', NEW w \in Workers, task[w].pc # "done",
         NEW failure, CallFailed(w, failure)
  PROVE  Promise!TellFailed(w) \/ UNCHANGED <<Offers, Paid, Answer>>
<1> DEFINE error == ErrorOf(req[w].transport, failure)
           again == [task[w] EXCEPT !.pc = "next", !.reply = failure, !.last_err = error]
           over  == [task[w] EXCEPT !.pc = "done", !.reply = failure,
                                    !.result = [NoResult EXCEPT !.kind = error]]
<1>1. task[w] \in TaskType
  BY Known
<1>2. error \in {"Transport", "Rpc"}
  BY CallErrors
<1> HIDE DEF error
<1>3. again.result = task[w].result /\ over.result.kind = error
  BY <1>1 DEF TaskType, NoResult
<1>4. Become(w, again) \/ Become(w, over)
  BY DEF CallFailed, error
<1> HIDE DEF again, over
<1> QED BY <1>2, <1>3, <1>4, StutterPromise, FailPromise

\* An early return with an error tells the failure.
LEMMA EarlyFailPromise ==
  ASSUME HistoryInv, HistoryInv', NEW w \in Workers, task[w].pc # "done",
         NEW kind, kind \notin {"none", "Landed"}, Fail(w, kind)
  PROVE  Promise!TellFailed(w)
<1> DEFINE t == [task[w] EXCEPT !.pc = "done", !.result = [NoResult EXCEPT !.kind = kind]]
<1>1. t.result.kind = kind
  BY Known DEF TaskType, NoResult
<1>2. Become(w, t)
  BY DEF Fail, Return
<1> HIDE DEF t
<1> QED BY <1>1, <1>2, FailPromise

\* A bundle that is sent is one more offer, no lower than those before.
LEMMA SendPromise ==
  ASSUME HistoryInv, HistoryInv', NEW w \in Workers, Send(w)
  PROVE  Promise!Offer(w)
<1> DEFINE n == task[w].attempt
<1>1. /\ req' = req /\ task[w].pc = "send" /\ req[w].encodable
      /\ task' = [task EXCEPT ![w].pc = "sending"]
      /\ bundle' = [bundle EXCEPT ![w][n] = [st |-> "inflight", tip |-> task[w].tip]]
  BY DEF Send, At
<1>2. /\ bundle \in [Workers -> [Attempts -> BundleType]]
      /\ task \in [Workers -> TaskType] /\ task[w] \in TaskType
      /\ task[w].tip \in 0 .. U64Max
      /\ TaskOK(w, task[w]) /\ HistoryOK(w, task[w])
  BY Known DEF HistoryInv, SubmitInv, TypeOK, TaskType, Lamports
<1>3. n \in 1 .. MaxAttempts /\ MaxAttempts \in Nat
  BY <1>1, <1>2, NumbersAssumption DEF TaskOK, Attempts
<1>4. /\ task'[w].pc = "sending" /\ task'[w].attempt = n
      /\ task'[w].result = task[w].result
  BY <1>1, <1>2 DEF TaskType
<1>5. SentCount(w) = n - 1 /\ SentCount(w)' = n
  <2>1. SentCount(w) = n - 1
    BY <1>1, SentCountIs DEF Count
  <2>2. \A a \in Attempts : Sent(w, a)' <=> a <= n
    BY <1>1, <1>4 DEF HistoryInv, HistoryOK, SentOK, Count
  <2>3. {a \in Attempts : Sent(w, a)}' = 1 .. n
    BY <1>3, <2>2 DEF Attempts
  <2>4. Cardinality(1 .. n) = n
    BY <1>3, FS_Interval
  <2> QED BY <2>1, <2>3, <2>4 DEF SentCount
<1> HIDE DEF n
<1>6. Answer[w] = Promise!NoAnswer /\ UNCHANGED <<Paid, Answer>>
  <2>1. task[w].result = NoResult
    BY <1>1, <1>2 DEF HistoryOK, ResultOK
  <2>2. \A v \in Workers : task'[v].result = task[v].result
    BY <1>1, <1>2, <1>4
  <2>3. Answer' = [v \in Workers |-> Told(task'[v].result)]
    BY DEF Answer, Told
  <2>4. \A v \in Workers, a \in Attempts : Landed(v, a)' <=> Landed(v, a)
    <3>1. \A a \in Attempts : a = n => bundle'[w][a].st = "inflight" /\ bundle[w][a].st = "none"
      BY <1>1, <1>2, <1>3, <1>5, SentCountIs DEF Sent, Attempts
    <3>2. \A v \in Workers, a \in Attempts : <<v, a>> # <<w, n>> => bundle'[v][a] = bundle[v][a]
      BY <1>1, <1>2, <1>3 DEF Attempts
    <3> QED BY <3>1, <3>2 DEF Landed
  <2>5. Paid' = Paid
    BY <2>4 DEF Paid
  <2> QED BY <2>1, <2>2, <2>3, <2>5, AnswerIs DEF Told, NoResult, Promise!NoAnswer
<1>7. /\ Offers[w] = [a \in 1 .. n - 1 |-> bundle[w][a].tip]
      /\ Offers'[w] = [a \in 1 .. n |-> bundle'[w][a].tip]
  BY <1>5 DEF Offers
<1>8. \A a \in 1 .. n - 1 : bundle'[w][a].tip = bundle[w][a].tip /\ bundle[w][a].tip \in Lamports
  BY <1>1, <1>2, <1>3 DEF Attempts, BundleType
<1>9. bundle'[w][n].tip = task[w].tip
  BY <1>1, <1>2, <1>3 DEF Attempts
<1>10. Offers[w] \in Seq(Lamports) /\ Len(Offers[w]) = n - 1
  <2>1. n - 1 \in Nat
    BY <1>3
  <2> QED BY <1>7, <1>8, <2>1
<1>11. Offers'[w] = Append(Offers[w], task[w].tip)
  <2>1. Append(Offers[w], task[w].tip)
          = [i \in 1 .. n |-> IF i <= n - 1 THEN Offers[w][i] ELSE task[w].tip]
    BY <1>3, <1>10
  <2> QED BY <1>3, <1>7, <1>8, <1>9, <2>1
<1>12. ASSUME NEW v \in Workers, v # w PROVE Offers'[v] = Offers[v]
  <2>1. bundle'[v] = bundle[v]
    BY <1>1, <1>2, <1>12
  <2>2. SentCount(v)' = SentCount(v)
    BY <2>1 DEF SentCount, Sent
  <2> QED BY <2>1, <2>2 DEF Offers
<1>13. Offers' = [Offers EXCEPT ![w] = Append(@, task[w].tip)]
  BY <1>11, <1>12 DEF Offers
<1>14. \A i \in DOMAIN Offers[w] : Offers[w][i] <= task[w].tip
  <2>1. \A i \in 1 .. n - 1 : i \in Attempts /\ Sent(w, i)
    BY <1>3, <1>5, SentCountIs DEF Attempts
  <2>2. \A i \in 1 .. n - 1 : bundle[w][i].tip <= task[w].tip
    BY <1>1, <1>2, <2>1 DEF HistoryOK, TipOK
  <2> QED BY <1>7, <2>2
<1>15. Len(Offers[w]) < MaxAttempts
  BY <1>3, <1>10
<1>16. \E tip \in 0 .. U64Max :
         /\ \A i \in DOMAIN Offers[w] : Offers[w][i] <= tip
         /\ Offers' = [Offers EXCEPT ![w] = Append(@, tip)]
  BY <1>2, <1>13, <1>14
<1> QED BY ONLY <1>6, <1>15, <1>16 DEF Promise!Offer

\* The outcome submit() returns is the offer the chain took.
LEMMA LandedPromise ==
  ASSUME HistoryInv, HistoryInv', NEW w \in Workers, ReturnLanded(w)
  PROVE  Promise!TellLanded(w)
<1> DEFINE n == task[w].attempt
           t == [task[w] EXCEPT !.pc = "done", !.result = Outcome(w)]
<1>1. /\ task[w] \in TaskType /\ task[w].pc = "polled" /\ task[w].reply = "Landed"
      /\ TaskOK(w, task[w]) /\ HistoryOK(w, task[w])
  BY Known DEF ReturnLanded, At
<1>2. Become(w, t)
  BY DEF ReturnLanded, Return
<1>3. t.result = Outcome(w)
  BY <1>1 DEF TaskType
<1> HIDE DEF t
<1>4. n \in Attempts /\ Landed(w, n) /\ bundle[w][n].tip = task[w].tip
  BY <1>1 DEF TaskOK
<1>5. Told(Outcome(w)) = [kind |-> "landed", offer |-> n, tip |-> task[w].tip]
  BY DEF Told, Outcome, NoResult
<1>6. n \in Paid[w]
  BY <1>4 DEF Paid
<1>7. Offers[w][n] = task[w].tip
  <2>1. n <= SentCount(w) /\ SentCount(w) \in Nat
    BY <1>4, SentCountIs, NumbersAssumption DEF Landed, Sent
  <2>2. n \in 1 .. SentCount(w)
    BY <1>4, <2>1, NumbersAssumption DEF Attempts
  <2> QED BY <1>4, <2>2 DEF Offers
<1>8. Answer[w] = Promise!NoAnswer
  BY <1>1, AnswerIs DEF HistoryOK, ResultOK, Told, NoResult, Promise!NoAnswer
<1>9. /\ UNCHANGED <<Offers, Paid>>
      /\ Answer' = [Answer EXCEPT ![w] = [kind |-> "landed", offer |-> n, tip |-> Offers[w][n]]]
  BY <1>2, <1>3, <1>5, <1>7, BecomePromise
<1> HIDE DEF n
<1> QED BY ONLY <1>6, <1>8, <1>9 DEF Promise!TellLanded

\* Every step of submit() is one of the promise or none.
LEMMA SubmitKeepsPromise ==
  ASSUME HistoryInv, HistoryInv', NEW w \in Workers, Submit(w)
  PROVE  \/ Promise!Offer(w) \/ Promise!TellLanded(w) \/ Promise!TellFailed(w)
         \/ UNCHANGED <<Offers, Paid, Answer>>
<1>t. task[w] \in TaskType
  BY Known
<1>1. CASE \/ RejectPolicy(w) \/ RejectSize(w) \/ OracleCold(w) \/ EncodeFailed(w)
           \/ ReturnRejected(w)
  <2>1. PICK kind : kind \notin {"none", "Landed"} /\ Fail(w, kind)
    BY <1>1 DEF RejectPolicy, RejectSize, OracleCold, EncodeFailed, ReturnRejected
  <2>2. task[w].pc # "done"
    BY <1>1 DEF RejectPolicy, RejectSize, OracleCold, EncodeFailed, ReturnRejected, At
  <2> QED BY <2>1, <2>2, EarlyFailPromise
<1>2. CASE Exhausted(w)
  <2> DEFINE result == [NoResult EXCEPT
                         !.kind     = "RetriesExhausted",
                         !.attempts = req[w].policy.max_attempts,
                         !.last     = IF task[w].last_err = "none" THEN "StatusStreamClosed"
                                                                   ELSE task[w].last_err]
             t      == [task[w] EXCEPT !.pc = "done", !.result = result]
  <2>1. result.kind = "RetriesExhausted"
    BY DEF NoResult
  <2>2. Become(w, t) /\ task[w].pc # "done"
    BY <1>2 DEF Exhausted, Return, At
  <2> HIDE DEF result
  <2>3. t.result.kind = "RetriesExhausted"
    BY <1>t, <2>1 DEF TaskType
  <2> HIDE DEF t
  <2> QED BY <2>2, <2>3, FailPromise
<1>3. CASE SendFailed(w) \/ PollFailed(w)
  <2>1. PICK failure : CallFailed(w, failure)
    BY <1>3 DEF SendFailed, PollFailed
  <2>2. task[w].pc # "done"
    BY <1>3 DEF SendFailed, PollFailed, At
  <2> QED BY <2>1, <2>2, CallFailedPromise
<1>4. CASE Start(w) \/ NextAttempt(w) \/ SendOk(w) \/ Poll(w) \/ PollAgain(w) \/ BundleDropped(w)
  <2>1. CASE Start(w)
    <3>1. PICK tip : Become(w, [task[w] EXCEPT !.pc = "next", !.tip = tip])
      BY <2>1 DEF Start
    <3>2. [task[w] EXCEPT !.pc = "next", !.tip = tip].result = task[w].result
      BY <1>t DEF TaskType
    <3> QED BY <3>1, <3>2, StutterPromise
  <2>2. CASE NextAttempt(w)
    <3>1. [task[w] EXCEPT !.pc = "send", !.attempt = @ + 1].result = task[w].result
      BY <1>t DEF TaskType
    <3> QED BY <2>2, <3>1, StutterPromise DEF NextAttempt
  <2>3. CASE SendOk(w)
    <3>1. [task[w] EXCEPT !.pc = "poll", !.bundle_id = task[w].attempt,
                          !.left = PollBudget].result = task[w].result
      BY <1>t DEF TaskType
    <3> QED BY <2>3, <3>1, StutterPromise DEF SendOk
  <2>4. CASE Poll(w)
    <3>1. PICK left, reply :
            Become(w, [task[w] EXCEPT !.pc = "polled", !.reply = reply, !.left = left])
      BY <2>4 DEF Poll
    <3>2. [task[w] EXCEPT !.pc = "polled", !.reply = reply, !.left = left].result = task[w].result
      BY <1>t DEF TaskType
    <3> QED BY <3>1, <3>2, StutterPromise
  <2>5. CASE PollAgain(w)
    <3>1. [task[w] EXCEPT !.pc = "poll", !.left = @ - 1].result = task[w].result
      BY <1>t DEF TaskType
    <3> QED BY <2>5, <3>1, StutterPromise DEF PollAgain
  <2>6. CASE BundleDropped(w)
    <3>1. [task[w] EXCEPT !.pc = "next", !.last_err = "Dropped",
                          !.tip = BumpTip(req[w].policy, @)].result = task[w].result
      BY <1>t DEF TaskType
    <3> QED BY <2>6, <3>1, StutterPromise DEF BundleDropped
  <2> QED BY <1>4, <2>1, <2>2, <2>3, <2>4, <2>5, <2>6
<1> QED BY <1>1, <1>2, <1>3, <1>4, SendPromise, LandedPromise DEF Submit

\* The engine takes an offer by landing its bundle; its other steps do not
\* show.
LEMMA EngineKeepsPromise ==
  ASSUME HistoryInv, HistoryInv', NEW w \in Workers, NEW a \in Attempts, BlockEngine(w, a)
  PROVE  Promise!Take(w) \/ UNCHANGED <<Offers, Paid, Answer>>
<1>1. PICK from \in {"inflight", "pending"}, to \in Accepted \cup {"refused"} :
        Settle(w, a, from, to)
  BY DEF BlockEngine, Receive, Refuse, Land, Drop, Reject, Accepted
<1>2. /\ task' = task /\ bundle[w][a].st = from
      /\ bundle' = [bundle EXCEPT ![w][a].st = to]
      /\ bundle \in [Workers -> [Attempts -> BundleType]]
  BY <1>1 DEF Settle, HistoryInv, SubmitInv, TypeOK
<1>3. bundle'[w][a].st = to
  BY <1>2 DEF BundleType
<1>4. ASSUME NEW v \in Workers, NEW b \in Attempts
      PROVE  /\ bundle'[v][b].tip = bundle[v][b].tip
             /\ Sent(v, b)' <=> Sent(v, b)
             /\ <<v, b>> # <<w, a>> => (Landed(v, b)' <=> Landed(v, b))
  <2>1. /\ bundle'[v][b].tip = bundle[v][b].tip
        /\ <<v, b>> # <<w, a>> => bundle'[v][b] = bundle[v][b]
    BY <1>2 DEF BundleType
  <2>2. from # "none" /\ to # "none"
    BY DEF Accepted
  <2> QED BY <1>2, <1>3, <2>1, <2>2 DEF Sent, Landed
<1>5. Offers' = Offers /\ Answer' = Answer
  BY <1>2, <1>4, OffersStand DEF Answer
<1>6. CASE to # "landed"
  <2>1. ~Landed(w, a) /\ ~Landed(w, a)'
    BY <1>2, <1>3, <1>6 DEF Landed
  <2>2. \A v \in Workers, b \in Attempts : Landed(v, b)' <=> Landed(v, b)
    BY <1>4, <2>1
  <2>3. Paid' = Paid
    BY <2>2 DEF Paid
  <2> QED BY <1>5, <2>3
<1>7. CASE to = "landed"
  <2>1. Landed(w, a)' /\ ~Landed(w, a)
    BY <1>2, <1>3, <1>7 DEF Landed
  <2>2. \A b \in Attempts : Landed(w, b)' <=> b = a
    BY <2>1 DEF HistoryInv, SubmitInv, LandsAtMostOnce
  <2>3. \A b \in Attempts : ~Landed(w, b)
    BY <1>4, <2>1, <2>2
  <2>4. Paid[w] = {} /\ Paid'[w] = {a}
    BY <2>2, <2>3 DEF Paid
  <2>5. \A v \in Workers : v # w => Paid'[v] = Paid[v]
    BY <1>4 DEF Paid
  <2>6. Paid' = [Paid EXCEPT ![w] = {a}]
    BY <2>4, <2>5 DEF Paid
  <2>7. a \in DOMAIN Offers[w]
    <3>1. Sent(w, a)
      BY <1>2 DEF Sent
    <3> QED BY <3>1, SentCountIs, NumbersAssumption DEF Offers, Attempts
  <2> QED BY ONLY <1>5, <2>4, <2>6, <2>7 DEF Promise!Take
<1> QED BY <1>6, <1>7

\* At first nothing is offered, paid or told.
LEMMA InitPromise == Init => Promise!Init
<1> SUFFICES ASSUME Init PROVE Promise!Init
  OBVIOUS
<1>1. \A w \in Workers, a \in Attempts : ~Sent(w, a) /\ ~Landed(w, a)
  BY DEF Init, Sent, Landed
<1>2. Paid = [w \in Workers |-> {}]
  BY <1>1 DEF Paid
<1>3. ASSUME NEW w \in Workers PROVE Offers[w] = << >>
  <2>1. {a \in Attempts : Sent(w, a)} = {}
    BY <1>1
  <2>2. SentCount(w) = 0
    BY <2>1, FS_EmptySet DEF SentCount
  <2> QED BY <2>2 DEF Offers
<1>4. Offers = [w \in Workers |-> << >>]
  BY <1>3 DEF Offers
<1>5. Answer = [w \in Workers |-> Promise!NoAnswer]
  BY AnswerIs DEF Init, Told, NoResult, Promise!NoAnswer
<1> QED BY <1>2, <1>4, <1>5 DEF Promise!Init

\* Every step of the system is a step of the promise or does not show.
LEMMA PromiseStep ==
  ASSUME HistoryInv, HistoryInv', [Next]_vars
  PROVE  Promise!Next \/ UNCHANGED <<Offers, Paid, Answer>>
<1>1. ASSUME NEW w \in Workers, Submit(w)
      PROVE  Promise!Next \/ UNCHANGED <<Offers, Paid, Answer>>
  BY <1>1, SubmitKeepsPromise DEF Promise!Next, Promise!Tell
<1>2. ASSUME NEW w \in Workers, NEW a \in Attempts, BlockEngine(w, a)
      PROVE  Promise!Next \/ UNCHANGED <<Offers, Paid, Answer>>
  BY <1>2, EngineKeepsPromise DEF Promise!Next
<1>3. CASE OracleMoves \/ Expire \/ UNCHANGED vars
  <2>1. task' = task /\ bundle' = bundle
    BY <1>3 DEF OracleMoves, Expire, vars
  <2>2. Offers' = Offers
    BY <2>1, OffersStand DEF Sent
  <2> QED BY <2>1, <2>2 DEF Paid, Answer, Landed
<1> QED BY <1>1, <1>2, <1>3 DEF Next

\* Whatever submit(), the engine and the chain do, a caller sees no more than
\* SubmitPromise allows: offers that never fall, one of them taken at most,
\* and one answer, true when it says that a bundle landed.
THEOREM PromiseKept == Spec => Promise!Safety
<1>1. HistoryInv /\ HistoryInv' /\ [Next]_vars => [Promise!Next]_<<Offers, Paid, Answer>>
  BY PromiseStep
<1> QED BY <1>1, InitPromise, HistoryInvariant, PTL DEF Spec, Promise!Safety, Promise!promise

=============================================================================
