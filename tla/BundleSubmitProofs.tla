------------------------- MODULE BundleSubmitProofs -------------------------
(***************************************************************************)
(* Type correctness of submit(), for any number of workers, attempts, poll *)
(* intervals and for u64 of any width.                                     *)
(***************************************************************************)
EXTENDS BundleSubmit, TLAPS

\* A bump of a u64 tip is a u64 and never below the tip, for every policy.
LEMMA BumpTipType ==
  ASSUME NEW policy \in Policies, NEW lamports \in Lamports
  PROVE  /\ BumpTip(policy, lamports) \in Lamports
         /\ lamports <= BumpTip(policy, lamports)
<1> DEFINE product == lamports * policy.tip_bump_bps
           bump    == Smaller(product \div 10000, U64Max)
<1>1. lamports \in Nat /\ lamports <= U64Max /\ policy.tip_bump_bps \in Nat /\ U64Max \in Nat
  BY NumbersAssumption DEF Lamports, Policies
<1>2. product \in Nat
  BY <1>1
<1>3. product \div 10000 \in Nat
  <2> HIDE DEF product
  <2> QED BY <1>2
<1>4. bump \in Nat
  <2> HIDE DEF product
  <2> QED BY <1>1, <1>3 DEF Smaller
<1>5. BumpTip(policy, lamports) = Smaller(lamports + bump, U64Max)
  BY DEF BumpTip, SaturatingAdd
<1> HIDE DEF bump
<1> QED BY <1>1, <1>4, <1>5 DEF Smaller, Lamports

\* The parts of a request have the types the model gives them.
LEMMA RequestParts ==
  ASSUME TypeOK, NEW w \in Workers
  PROVE  /\ req[w] \in RequestType
         /\ req[w].policy \in Policies
         /\ req[w].policy.max_attempts \in 1 .. MaxAttempts
         /\ req[w].tip \in Lamports
         /\ req[w].transport \in Transports
         /\ req[w].txs \in Nat
<1>1. req[w] \in RequestType
  BY SubmitAssumption DEF TypeOK
<1> QED BY <1>1 DEF RequestType, Policies

\* A status call answers with one of the four statuses; it answers Landed of
\* a landed bundle only.
LEMMA StatusesOfType ==
  ASSUME NEW transport, NEW st, NEW reply \in StatusesOf(transport, st)
  PROVE  /\ reply \in Statuses
         /\ reply = "Landed" => st = "landed"
<1>1. CASE transport = "JsonRpc"
  <2>1. PICK e \in JsonRpcAnswers(st) : reply = JsonRpcStatus(e)
    BY <1>1 DEF StatusesOf
  <2>2. reply \in Statuses
    BY <2>1 DEF JsonRpcStatus, Statuses
  <2>3. ASSUME reply = "Landed", st # "landed" PROVE FALSE
    <3>1. e.found /\ e.slot /\ ~e.err
      BY <2>1, <2>3 DEF JsonRpcStatus
    <3>2. ~e.slot \/ e.err
      <4>1. CASE e = NoEntry
        BY <4>1 DEF NoEntry, Entry
      <4>2. CASE e # NoEntry /\ st \in {"dropped", "rejected"}
        <5>1. e \in {Entry(TRUE, s, "processed", TRUE) : s \in BOOLEAN}
          BY <2>3, <4>2 DEF JsonRpcAnswers
        <5> QED BY <5>1 DEF Entry
      <4>3. CASE e # NoEntry /\ st \notin {"dropped", "rejected"}
        <5>1. e = Entry(TRUE, FALSE, "", FALSE)
          BY <2>3, <4>3 DEF JsonRpcAnswers
        <5> QED BY <5>1 DEF Entry
      <4> QED BY <4>1, <4>2, <4>3
    <3> QED BY <3>1, <3>2
  <2> QED BY <2>2, <2>3
<1>2. CASE transport # "JsonRpc"
  <2>1. PICK s \in GrpcAnswers(st) : reply = GrpcStatus(s)
    BY <1>2 DEF StatusesOf
  <2> QED BY <2>1 DEF GrpcStatus, GrpcState, Statuses, GrpcAnswers
<1> QED BY <1>1, <1>2

-----------------------------------------------------------------------------
(***************************************************************************)
(* Type correctness.                                                       *)
(***************************************************************************)

\* A local step of a worker keeps every type if its new task has its type.
LEMMA BecomeType ==
  ASSUME TypeOK, NEW w \in Workers, NEW t \in TaskType, Become(w, t)
  PROVE  TypeOK'
BY DEF TypeOK, Become

\* A failed call leaves the worker a well-typed task.
LEMMA CallFailedType ==
  ASSUME TypeOK, NEW w \in Workers, NEW failure \in Failures, CallFailed(w, failure)
  PROVE  TypeOK'
<1>1. task[w] \in TaskType
  BY DEF TypeOK
<1>2. ErrorOf(req[w].transport, failure) \in Errors \cap ResultKinds
  BY DEF ErrorOf, JsonRpcError, GrpcError, Errors, ResultKinds
<1> DEFINE error == ErrorOf(req[w].transport, failure)
<1>3. [task[w] EXCEPT !.pc = "next", !.reply = failure, !.last_err = error] \in TaskType
  BY <1>1, <1>2 DEF TaskType, PCs
<1>4. [task[w] EXCEPT !.pc = "done", !.reply = failure,
                      !.result = [NoResult EXCEPT !.kind = error]] \in TaskType
  <2>1. [NoResult EXCEPT !.kind = error] \in ResultType
    BY <1>2, NumbersAssumption DEF NoResult, ResultType, Lamports
  <2> QED BY <1>1, <2>1 DEF TaskType, PCs
<1> QED BY <1>3, <1>4, BecomeType DEF CallFailed

\* Returning an error without data keeps every type.
LEMMA FailType ==
  ASSUME TypeOK, NEW w \in Workers, NEW kind \in ResultKinds, Fail(w, kind)
  PROVE  TypeOK'
<1>1. [NoResult EXCEPT !.kind = kind] \in ResultType
  BY NumbersAssumption DEF NoResult, ResultType, Lamports
<1>2. [task[w] EXCEPT !.pc = "done", !.result = [NoResult EXCEPT !.kind = kind]] \in TaskType
  BY <1>1 DEF TypeOK, TaskType, PCs
<1> QED BY <1>2, BecomeType DEF Fail, Return

\* A step of the block engine moves one bundle to a state of its type.
LEMMA SettleType ==
  ASSUME TypeOK, NEW w \in Workers, NEW a \in Attempts, NEW from,
         NEW to \in Accepted \cup {"refused"}, Settle(w, a, from, to)
  PROVE  TypeOK'
<1>1. [bundle[w][a] EXCEPT !.st = to] \in BundleType
  BY DEF TypeOK, BundleType
<1>2. bundle' \in [Workers -> [Attempts -> BundleType]]
  BY <1>1 DEF TypeOK, Settle
<1> QED BY <1>2 DEF TypeOK, Settle

\* The result of Exhausted has its type.
LEMMA ExhaustedResult ==
  ASSUME NEW n \in 0 .. MaxAttempts, NEW last \in Errors \cup {"none"}
  PROVE  [NoResult EXCEPT !.kind = "RetriesExhausted", !.attempts = n, !.last = last]
           \in ResultType
<1>1. NoResult \in ResultType
  BY NumbersAssumption DEF NoResult, ResultType, ResultKinds, Lamports
<1>2. "RetriesExhausted" \in ResultKinds
  BY DEF ResultKinds
<1> QED BY <1>1, <1>2 DEF ResultType

\* Every step of submit() keeps every type.
LEMMA SubmitType ==
  ASSUME TypeOK, NEW w \in Workers, Submit(w)
  PROVE  TypeOK'
<1> USE NumbersAssumption, SubmitAssumption
<1>r. task[w] \in TaskType
  BY DEF TypeOK
<1>p. /\ req[w].policy \in Policies
      /\ req[w].policy.max_attempts \in 1 .. MaxAttempts
      /\ req[w].tip \in Lamports
      /\ req[w].transport \in Transports
  BY RequestParts
<1>1. CASE RejectPolicy(w)
  BY <1>1, FailType DEF RejectPolicy, ResultKinds
<1>2. CASE RejectSize(w)
  BY <1>2, FailType DEF RejectSize, ResultKinds
<1>3. CASE OracleCold(w)
  BY <1>3, FailType DEF OracleCold, ResultKinds
<1>4. CASE Start(w)
  <2>1. PICK tip \in ResolveTip(w) : Become(w, [task[w] EXCEPT !.pc = "next", !.tip = tip])
    BY <1>4 DEF Start
  <2>2. req[w].strategy \in Strategies
    BY RequestParts DEF RequestType
  <2>3. tip \in Lamports
    BY <1>p, <2>2 DEF ResolveTip, Strategies, TypeOK
  <2>4. [task[w] EXCEPT !.pc = "next", !.tip = tip] \in TaskType
    BY <1>r, <2>3 DEF TaskType, PCs
  <2> QED BY <2>1, <2>4, BecomeType
<1>5. CASE NextAttempt(w)
  <2>1. task[w].attempt + 1 \in 0 .. MaxAttempts
    BY <1>5, <1>r, <1>p DEF NextAttempt, LastAttempt, TaskType
  <2>2. [task[w] EXCEPT !.pc = "send", !.attempt = @ + 1] \in TaskType
    BY <1>r, <2>1 DEF TaskType, PCs
  <2> QED BY <1>5, <2>2, BecomeType DEF NextAttempt
<1>6. CASE Exhausted(w)
  <2> DEFINE last   == IF task[w].last_err = "none" THEN "StatusStreamClosed"
                                                   ELSE task[w].last_err
             result == [NoResult EXCEPT !.kind     = "RetriesExhausted",
                                        !.attempts = req[w].policy.max_attempts,
                                        !.last     = last]
  <2>1. last \in Errors \cup {"none"} /\ req[w].policy.max_attempts \in 0 .. MaxAttempts
    BY <1>r, <1>p DEF TaskType, Errors
  <2>2. result \in ResultType
    BY <2>1, ExhaustedResult
  <2>3. [task[w] EXCEPT !.pc = "done", !.result = result] \in TaskType
    BY <1>r, <2>2 DEF TaskType, PCs
  <2> QED BY <1>6, <2>3, BecomeType DEF Exhausted, Return
<1>7. CASE Send(w)
  <2>1. [task[w] EXCEPT !.pc = "sending"] \in TaskType
    BY <1>r DEF TaskType, PCs
  <2>2. task' \in [Workers -> TaskType]
    BY <1>7, <2>1 DEF Send, TypeOK
  <2>3. [st |-> "inflight", tip |-> task[w].tip] \in BundleType
    BY <1>r DEF TaskType, BundleType
  <2>4. bundle' \in [Workers -> [Attempts -> BundleType]]
    BY <1>7, <2>3 DEF Send, TypeOK
  <2> QED BY <1>7, <2>2, <2>4 DEF Send, TypeOK
<1>8. CASE SendOk(w)
  <2>1. PollBudget \in 0 .. PollBudget
    BY SubmitAssumption
  <2>2. [task[w] EXCEPT !.pc = "poll", !.bundle_id = task[w].attempt,
                        !.left = PollBudget] \in TaskType
    BY <1>r, <2>1 DEF TaskType, PCs
  <2> QED BY <1>8, <2>2, BecomeType DEF SendOk
<1>9. CASE SendFailed(w)
  <2>1. SendFailures(req[w].transport) \subseteq Failures
    BY DEF SendFailures, JsonRpcFailures, GrpcFailures, Failures, NetworkFailures
  <2> QED BY <1>9, <2>1, CallFailedType DEF SendFailed
<1>10. CASE Poll(w)
  <2>1. PICK left \in 0 .. task[w].left,
             reply \in StatusesOf(req[w].transport, bundle[w][task[w].bundle_id].st)
                       \cup CallFailures(req[w].transport) :
          Become(w, [task[w] EXCEPT !.pc = "polled", !.reply = reply, !.left = left])
    BY <1>10 DEF Poll
  <2>2. reply \in Statuses \cup Failures
    BY StatusesOfType DEF CallFailures, JsonRpcFailures, GrpcFailures, Failures, NetworkFailures
  <2>3. left \in 0 .. PollBudget
    BY <1>r DEF TaskType
  <2>4. [task[w] EXCEPT !.pc = "polled", !.reply = reply, !.left = left] \in TaskType
    BY <1>r, <2>2, <2>3 DEF TaskType, PCs
  <2> QED BY <2>1, <2>4, BecomeType
<1>11. CASE PollFailed(w)
  BY <1>11, CallFailedType DEF PollFailed
<1>12. CASE PollAgain(w)
  <2>1. task[w].left - 1 \in 0 .. PollBudget
    BY <1>12, <1>r DEF PollAgain, TaskType
  <2>2. [task[w] EXCEPT !.pc = "poll", !.left = @ - 1] \in TaskType
    BY <1>r, <2>1 DEF TaskType, PCs
  <2> QED BY <1>12, <2>2, BecomeType DEF PollAgain
<1>13. CASE ReturnLanded(w)
  <2>1. Outcome(w) \in ResultType
    BY <1>r DEF Outcome, NoResult, ResultType, ResultKinds, TaskType
  <2>2. [task[w] EXCEPT !.pc = "done", !.result = Outcome(w)] \in TaskType
    BY <1>r, <2>1 DEF TaskType, PCs
  <2> QED BY <1>13, <2>2, BecomeType DEF ReturnLanded, Return
<1>14. CASE ReturnRejected(w)
  BY <1>14, FailType DEF ReturnRejected, ResultKinds
<1>15. CASE BundleDropped(w)
  <2>1. BumpTip(req[w].policy, task[w].tip) \in Lamports
    BY <1>r, <1>p, BumpTipType DEF TaskType
  <2>2. [task[w] EXCEPT !.pc = "next", !.last_err = "Dropped",
                        !.tip = BumpTip(req[w].policy, @)] \in TaskType
    BY <1>r, <2>1 DEF TaskType, PCs, Errors
  <2> QED BY <1>15, <2>2, BecomeType DEF BundleDropped
<1>16. CASE EncodeFailed(w)
  BY <1>16, FailType DEF EncodeFailed, ResultKinds
<1> QED BY <1>1, <1>2, <1>3, <1>4, <1>5, <1>6, <1>7, <1>8, <1>9, <1>10, <1>11, <1>12,
           <1>13, <1>14, <1>15, <1>16 DEF Submit

\* Every variable has its type at first.
LEMMA InitType == Init => TypeOK
<1> SUFFICES ASSUME Init PROVE TypeOK
  OBVIOUS
<1>1. NoResult \in ResultType
  BY NumbersAssumption DEF NoResult, ResultType, ResultKinds, Lamports
<1>2. [pc |-> "start", attempt |-> 0, tip |-> 0, bundle_id |-> 0, left |-> 0,
       reply |-> "none", last_err |-> "none", result |-> NoResult] \in TaskType
  BY <1>1, NumbersAssumption, SubmitAssumption DEF TaskType, PCs, Lamports
<1>3. [st |-> "none", tip |-> 0] \in BundleType
  BY NumbersAssumption DEF BundleType, Lamports
<1> QED BY <1>2, <1>3 DEF Init, TypeOK

\* Every step of the specification keeps every type.
LEMMA NextType == TypeOK /\ [Next]_vars => TypeOK'
<1> SUFFICES ASSUME TypeOK, [Next]_vars PROVE TypeOK'
  OBVIOUS
<1>1. ASSUME NEW w \in Workers, Submit(w) PROVE TypeOK'
  BY <1>1, SubmitType
<1>2. ASSUME NEW w \in Workers, NEW a \in Attempts, BlockEngine(w, a) PROVE TypeOK'
  BY <1>2, SettleType DEF BlockEngine, Receive, Refuse, Land, Drop, Reject, Accepted
<1>3. CASE OracleMoves
  BY <1>3, SubmitAssumption DEF OracleMoves, TypeOK
<1>4. CASE Expire
  BY <1>4 DEF Expire, TypeOK
<1>5. CASE UNCHANGED vars
  BY <1>5 DEF vars, TypeOK
<1> QED BY <1>1, <1>2, <1>3, <1>4, <1>5 DEF Next

\* Every variable keeps its type in every behaviour of the specification: in
\* particular no bump takes a tip out of u64.
THEOREM TypeCorrect == Spec => []TypeOK
BY InitType, NextType, PTL DEF Spec

-----------------------------------------------------------------------------
(***************************************************************************)
(* Outcomes are true and payments are made once.                           *)
(*                                                                         *)
(* OutcomeMatchesLedger is about the end of a submission.  What makes it   *)
(* inductive is what the worker knows on the way there: TaskOK follows the *)
(* tip from the attempt through send, poll and reply.                      *)
(***************************************************************************)
TaskOK(w, t) ==
  /\ t.pc \notin {"start", "done"} => SizeOK(w)
  /\ t.pc \in {"send", "sending", "poll", "polled"} => t.attempt \in Attempts
  /\ t.pc \in {"sending", "poll", "polled"} => bundle[w][t.attempt].tip = t.tip
  /\ t.pc \in {"poll", "polled"} => t.bundle_id = t.attempt
  /\ t.pc = "polled" /\ t.reply = "Landed" => Landed(w, t.bundle_id)
  /\ t.result.kind = "Landed" => t.pc = "done" /\ OutcomeIsTrue(w, t.result)

\* Only a bundle of legal size is ever sent, and what landed is on the chain.
BundleOK(w, a) ==
  /\ Sent(w, a) => SizeOK(w)
  /\ Landed(w, a) => BundleTxs(w, a) \subseteq ledger

SubmitInv ==
  /\ TypeOK
  /\ \A w \in Workers : TaskOK(w, task[w])
  /\ \A w \in Workers, a \in Attempts : BundleOK(w, a)
  /\ LandsAtMostOnce

\* A local step of a worker preserves the invariant if its new task is right.
LEMMA BecomeInv ==
  ASSUME SubmitInv, TypeOK', NEW w \in Workers, NEW t, Become(w, t), TaskOK(w, t)
  PROVE  SubmitInv'
<1>1. /\ req' = req /\ bundle' = bundle /\ ledger' = ledger
      /\ task' = [task EXCEPT ![w] = t]
  BY DEF Become
<1>2. ASSUME NEW v \in Workers PROVE TaskOK(v, task[v])'
  <2>1. task'[v] = IF v = w THEN t ELSE task[v]
    BY <1>1 DEF SubmitInv, TypeOK
  <2>2. TaskOK(v, task'[v])
    BY <2>1 DEF SubmitInv
  <2> QED BY <1>1, <2>2 DEF TaskOK, SizeOK, Landed, OutcomeIsTrue, BundleTxs, UserTxs, TipTx
<1>3. ASSUME NEW v \in Workers, NEW a \in Attempts PROVE BundleOK(v, a)'
  <2>1. BundleOK(v, a)
    BY DEF SubmitInv
  <2> QED BY <1>1, <2>1 DEF BundleOK, Sent, SizeOK, Landed, BundleTxs, UserTxs, TipTx
<1>4. LandsAtMostOnce'
  BY <1>1 DEF SubmitInv, LandsAtMostOnce, Landed
<1> QED BY <1>2, <1>3, <1>4 DEF SubmitInv

\* A call that failed leads back to the loop or out of it with an error.
LEMMA CallFailedInv ==
  ASSUME SubmitInv, TypeOK', NEW w \in Workers, task[w].pc \in {"sending", "polled"},
         NEW failure, CallFailed(w, failure)
  PROVE  SubmitInv'
<1> DEFINE error == ErrorOf(req[w].transport, failure)
<1>1. task[w] \in TaskType /\ TaskOK(w, task[w])
  BY DEF SubmitInv, TypeOK
<1>2. error # "Landed"
  BY DEF ErrorOf, JsonRpcError, GrpcError
<1>3. TaskOK(w, [task[w] EXCEPT !.pc = "next", !.reply = failure, !.last_err = error])
  BY <1>1 DEF TaskOK, TaskType
<1>4. TaskOK(w, [task[w] EXCEPT !.pc = "done", !.reply = failure,
                                !.result = [NoResult EXCEPT !.kind = error]])
  <2> HIDE DEF error
  <2>1. [NoResult EXCEPT !.kind = error].kind = error
    BY DEF NoResult
  <2> QED BY <1>1, <1>2, <2>1 DEF TaskOK, TaskType
<1> QED BY <1>3, <1>4, BecomeInv DEF CallFailed

\* So does an error that comes without a call.
LEMMA FailInv ==
  ASSUME SubmitInv, TypeOK', NEW w \in Workers, NEW kind, kind # "Landed", Fail(w, kind)
  PROVE  SubmitInv'
<1>1. task[w] \in TaskType
  BY DEF SubmitInv, TypeOK
<1>2. [NoResult EXCEPT !.kind = kind].kind = kind
  BY DEF NoResult
<1>3. TaskOK(w, [task[w] EXCEPT !.pc = "done", !.result = [NoResult EXCEPT !.kind = kind]])
  BY <1>1, <1>2 DEF TaskOK, TaskType
<1> QED BY <1>3, BecomeInv DEF Fail, Return

\* What a task rests on survives a step that moves bundles on: no request,
\* task or tip changes, what landed stays landed and the ledger grows.
LEMMA TaskFrame ==
  ASSUME NEW w \in Workers, TaskOK(w, task[w]), task[w] \in TaskType,
         req' = req, task'[w] = task[w], ledger \subseteq ledger',
         \A a \in Attempts : bundle'[w][a].tip = bundle[w][a].tip,
         \A a \in Attempts : Landed(w, a) => Landed(w, a)'
  PROVE  TaskOK(w, task[w])'
<1> DEFINE t == task[w]
<1>1. t.result.kind = "Landed" => t.pc = "done" /\ OutcomeIsTrue(w, t.result)'
  <2> SUFFICES ASSUME t.result.kind = "Landed"
               PROVE  t.pc = "done" /\ OutcomeIsTrue(w, t.result)'
    OBVIOUS
  <2>1. t.pc = "done" /\ OutcomeIsTrue(w, t.result)
    BY DEF TaskOK
  <2>2. t.result.bundle_id \in Attempts
    BY <2>1 DEF OutcomeIsTrue
  <2>3. BundleTxs(w, t.result.bundle_id)' = BundleTxs(w, t.result.bundle_id)
    BY <2>2 DEF BundleTxs, UserTxs, TipTx
  <2> QED BY <2>1, <2>2, <2>3 DEF OutcomeIsTrue
<1>2. SizeOK(w)' <=> SizeOK(w)
  BY DEF SizeOK
<1> QED BY <1>1, <1>2 DEF TaskOK

\* A step of the block engine preserves the invariant.  Landing is the one
\* that matters: the chain takes a bundle whole and no transaction twice, and
\* every bundle of a submission holds the user's transactions.
LEMMA BlockEngineInv ==
  ASSUME SubmitInv, TypeOK', NEW w \in Workers, NEW a \in Attempts, BlockEngine(w, a)
  PROVE  SubmitInv'
<1>1. PICK from \in {"inflight", "pending"}, to \in Accepted \cup {"refused"} :
        Settle(w, a, from, to)
  BY DEF BlockEngine, Receive, Refuse, Land, Drop, Reject, Accepted
<1>2. /\ req' = req /\ task' = task
      /\ bundle[w][a].st = from /\ from # "landed"
      /\ bundle' = [bundle EXCEPT ![w][a].st = to]
  BY <1>1 DEF Settle
<1>3. ledger \subseteq ledger'
  BY DEF BlockEngine, Receive, Refuse, Land, Drop, Reject
<1>4. bundle \in [Workers -> [Attempts -> BundleType]] /\ task \in [Workers -> TaskType]
  BY DEF SubmitInv, TypeOK
<1>5. ASSUME NEW v \in Workers, NEW b \in Attempts
      PROVE  /\ bundle'[v][b].tip = bundle[v][b].tip
             /\ Landed(v, b) => Landed(v, b)'
             /\ Sent(v, b)' => Sent(v, b)
             /\ <<v, b>> # <<w, a>> => bundle'[v][b] = bundle[v][b]
             /\ BundleTxs(v, b)' = BundleTxs(v, b)
  <2>1. /\ bundle'[v][b].tip = bundle[v][b].tip
        /\ <<v, b>> # <<w, a>> => bundle'[v][b] = bundle[v][b]
    BY <1>2, <1>4 DEF BundleType
  <2>2. bundle[w][a].st \notin {"landed", "none"}
    BY <1>2
  <2> QED BY <1>2, <2>1, <2>2 DEF Landed, Sent, BundleTxs, UserTxs, TipTx
<1>6. ASSUME NEW v \in Workers PROVE TaskOK(v, task[v])'
  BY <1>2, <1>3, <1>4, <1>5, TaskFrame DEF SubmitInv
<1>7. ASSUME Landed(w, a)'
      PROVE  /\ BundleTxs(w, a) \cap ledger = {}
             /\ ledger' = ledger \cup BundleTxs(w, a)
  <2>1. to = "landed"
    BY <1>2, <1>4, <1>7 DEF Landed, BundleType
  <2>2. CASE Land(w, a)
    BY <2>2 DEF Land
  <2>3. CASE ~Land(w, a)
    <3>1. \E other \in {"pending", "refused", "dropped", "rejected"} :
            bundle' = [bundle EXCEPT ![w][a].st = other]
      BY <2>3 DEF BlockEngine, Receive, Refuse, Drop, Reject, Settle
    <3>2. ~Landed(w, a)'
      BY <3>1, <1>4 DEF Landed, BundleType
    <3> QED BY <3>2, <1>7
  <2> QED BY <2>2, <2>3
<1>8. ASSUME NEW v \in Workers, NEW b \in Attempts PROVE BundleOK(v, b)'
  <2>1. BundleOK(v, b) /\ SizeOK(v)' = SizeOK(v)
    BY <1>2 DEF SubmitInv, SizeOK
  <2>2. Landed(v, b)' => BundleTxs(v, b)' \subseteq ledger'
    <3>1. CASE <<v, b>> = <<w, a>>
      BY <3>1, <1>5, <1>7
    <3>2. CASE <<v, b>> # <<w, a>>
      BY <3>2, <1>3, <1>5, <2>1 DEF Landed, BundleOK
    <3> QED BY <3>1, <3>2
  <2> QED BY <1>5, <2>1, <2>2 DEF BundleOK
<1>9. LandsAtMostOnce'
  <2> SUFFICES ASSUME NEW v \in Workers, NEW b \in Attempts, NEW c \in Attempts,
                      Landed(v, b)', Landed(v, c)', b # c
               PROVE  FALSE
    BY DEF LandsAtMostOnce
  <2>1. ASSUME NEW d \in Attempts, d # a, Landed(w, d)', Landed(w, a)' PROVE FALSE
    <3>1. Landed(w, d)
      BY <2>1, <1>5 DEF Landed
    <3>2. UserTxs(w) \subseteq ledger
      BY <3>1 DEF SubmitInv, BundleOK, BundleTxs
    <3>3. UserTxs(w) # {}
      <4>1. SizeOK(w)
        BY <3>1 DEF SubmitInv, BundleOK, Landed, Sent
      <4>2. 1 \in 1 .. req[w].txs
        BY <4>1, RequestParts DEF SubmitInv, SizeOK
      <4> QED BY <4>2 DEF UserTxs
    <3>4. UserTxs(w) \cap ledger = {}
      BY <2>1, <1>7 DEF BundleTxs
    <3> QED BY <3>2, <3>3, <3>4
  <2>2. CASE v = w /\ a \in {b, c}
    BY <2>1, <2>2
  <2>3. CASE v # w \/ a \notin {b, c}
    <3>1. Landed(v, b) /\ Landed(v, c)
      BY <2>3, <1>5 DEF Landed
    <3> QED BY <3>1 DEF SubmitInv, LandsAtMostOnce
  <2> QED BY <2>2, <2>3
<1> QED BY <1>6, <1>8, <1>9 DEF SubmitInv

\* A send puts a new bundle with the task's tip on the wire.
LEMMA SendInv ==
  ASSUME SubmitInv, TypeOK', NEW w \in Workers, Send(w)
  PROVE  SubmitInv'
<1> DEFINE a == task[w].attempt
<1>1. /\ req' = req /\ ledger' = ledger
      /\ task' = [task EXCEPT ![w].pc = "sending"]
      /\ bundle' = [bundle EXCEPT ![w][a] = [st |-> "inflight", tip |-> task[w].tip]]
      /\ task[w].pc = "send"
  BY DEF Send, At
<1>2. /\ bundle \in [Workers -> [Attempts -> BundleType]]
      /\ task \in [Workers -> TaskType] /\ task[w] \in TaskType
      /\ TaskOK(w, task[w])
  BY DEF SubmitInv, TypeOK
<1>3. a \in Attempts /\ SizeOK(w) /\ task[w].result.kind # "Landed"
  BY <1>1, <1>2 DEF TaskOK
<1> HIDE DEF a
<1>4. bundle'[w][a] = [st |-> "inflight", tip |-> task[w].tip]
  BY <1>1, <1>2, <1>3
<1>5. ASSUME NEW v \in Workers, NEW b \in Attempts, <<v, b>> # <<w, a>>
      PROVE  bundle'[v][b] = bundle[v][b] /\ BundleTxs(v, b)' = BundleTxs(v, b)
  <2>1. bundle'[v][b] = bundle[v][b]
    BY <1>1, <1>2, <1>3, <1>5
  <2> QED BY <1>1, <2>1 DEF BundleTxs, UserTxs, TipTx
<1>6. ASSUME NEW v \in Workers PROVE TaskOK(v, task[v])'
  <2>1. CASE v = w
    <3>1. task'[w] = [task[w] EXCEPT !.pc = "sending"]
      BY <1>1, <1>2
    <3>2. /\ task'[w].pc = "sending" /\ task'[w].attempt = a
          /\ task'[w].tip = task[w].tip /\ task'[w].result = task[w].result
      BY <1>2, <3>1 DEF TaskType, a
    <3> QED BY <1>1, <1>3, <1>4, <2>1, <3>2 DEF TaskOK, SizeOK
  <2>2. CASE v # w
    <3>1. task'[v] = task[v] /\ TaskOK(v, task[v]) /\ task[v] \in TaskType
      BY <1>1, <1>2, <2>2 DEF SubmitInv
    <3>2. \A b \in Attempts : /\ bundle'[v][b].tip = bundle[v][b].tip
                              /\ Landed(v, b) => Landed(v, b)'
      BY <1>5, <2>2 DEF Landed
    <3> QED BY <1>1, <3>1, <3>2, TaskFrame
  <2> QED BY <2>1, <2>2
<1>7. ASSUME NEW v \in Workers, NEW b \in Attempts PROVE BundleOK(v, b)'
  <2>1. BundleOK(v, b) /\ SizeOK(v)' = SizeOK(v)
    BY <1>1 DEF SubmitInv, SizeOK
  <2>2. CASE <<v, b>> = <<w, a>>
    <3>1. v = w /\ ~Landed(v, b)'
      BY <1>4, <2>2 DEF Landed
    <3> QED BY <1>3, <2>1, <3>1 DEF BundleOK
  <2>3. CASE <<v, b>> # <<w, a>>
    BY <1>1, <1>5, <2>1, <2>3 DEF BundleOK, Sent, Landed
  <2> QED BY <2>2, <2>3
<1>8. LandsAtMostOnce'
  <2>1. ASSUME NEW v \in Workers, NEW b \in Attempts, Landed(v, b)' PROVE Landed(v, b)
    <3>1. <<v, b>> # <<w, a>>
      BY <1>4, <2>1 DEF Landed
    <3> QED BY <1>5, <2>1, <3>1 DEF Landed
  <2> QED BY <2>1 DEF SubmitInv, LandsAtMostOnce
<1> QED BY <1>6, <1>7, <1>8 DEF SubmitInv

\* Every step of submit() preserves the invariant.
LEMMA SubmitStepInv ==
  ASSUME SubmitInv, TypeOK', NEW w \in Workers, Submit(w)
  PROVE  SubmitInv'
<1>t. task[w] \in TaskType /\ TaskOK(w, task[w])
  BY DEF SubmitInv, TypeOK
<1>1. CASE RejectPolicy(w)
  BY <1>1, FailInv DEF RejectPolicy
<1>2. CASE RejectSize(w)
  BY <1>2, FailInv DEF RejectSize
<1>3. CASE OracleCold(w)
  BY <1>3, FailInv DEF OracleCold
<1>4. CASE Start(w)
  <2>1. PICK tip \in ResolveTip(w) : Become(w, [task[w] EXCEPT !.pc = "next", !.tip = tip])
    BY <1>4 DEF Start
  <2>2. SizeOK(w) /\ task[w].result.kind # "Landed"
    BY <1>4, <1>t DEF Start, At, TaskOK
  <2>3. TaskOK(w, [task[w] EXCEPT !.pc = "next", !.tip = tip])
    BY <1>t, <2>2 DEF TaskOK, TaskType
  <2> QED BY <2>1, <2>3, BecomeInv
<1>5. CASE NextAttempt(w)
  <2>1. task[w].attempt + 1 \in Attempts
    <3>1. req[w].policy.max_attempts \in 1 .. MaxAttempts
      BY RequestParts DEF SubmitInv
    <3> QED BY <1>5, <1>t, <3>1, NumbersAssumption DEF NextAttempt, LastAttempt, TaskType, Attempts
  <2>2. TaskOK(w, [task[w] EXCEPT !.pc = "send", !.attempt = @ + 1])
    BY <1>5, <1>t, <2>1 DEF NextAttempt, At, TaskOK, TaskType
  <2> QED BY <1>5, <2>2, BecomeInv DEF NextAttempt
<1>6. CASE Exhausted(w)
  <2> DEFINE last   == IF task[w].last_err = "none" THEN "StatusStreamClosed"
                                                   ELSE task[w].last_err
             result == [NoResult EXCEPT !.kind     = "RetriesExhausted",
                                        !.attempts = req[w].policy.max_attempts,
                                        !.last     = last]
  <2>1. result.kind # "Landed"
    BY DEF NoResult
  <2>2. TaskOK(w, [task[w] EXCEPT !.pc = "done", !.result = result])
    <3> HIDE DEF result
    <3> QED BY <1>t, <2>1 DEF TaskOK, TaskType
  <2> QED BY <1>6, <2>2, BecomeInv DEF Exhausted, Return
<1>7. CASE Send(w)
  BY <1>7, SendInv
<1>8. CASE SendOk(w)
  <2>1. TaskOK(w, [task[w] EXCEPT !.pc = "poll", !.bundle_id = task[w].attempt,
                                  !.left = PollBudget])
    BY <1>8, <1>t DEF SendOk, At, TaskOK, TaskType
  <2> QED BY <1>8, <2>1, BecomeInv DEF SendOk
<1>9. CASE SendFailed(w)
  BY <1>9, CallFailedInv DEF SendFailed, At
<1>10. CASE Poll(w)
  <2>1. PICK left \in 0 .. task[w].left,
             reply \in StatusesOf(req[w].transport, bundle[w][task[w].bundle_id].st)
                       \cup CallFailures(req[w].transport) :
          Become(w, [task[w] EXCEPT !.pc = "polled", !.reply = reply, !.left = left])
    BY <1>10 DEF Poll
  <2>2. reply = "Landed" => Landed(w, task[w].bundle_id)
    BY <2>1, StatusesOfType DEF CallFailures, JsonRpcFailures, GrpcFailures, Failures, NetworkFailures, Landed
  <2>3. TaskOK(w, [task[w] EXCEPT !.pc = "polled", !.reply = reply, !.left = left])
    BY <1>10, <1>t, <2>2 DEF Poll, At, TaskOK, TaskType
  <2> QED BY <2>1, <2>3, BecomeInv
<1>11. CASE PollFailed(w)
  BY <1>11, CallFailedInv DEF PollFailed, At
<1>12. CASE PollAgain(w)
  <2>1. TaskOK(w, [task[w] EXCEPT !.pc = "poll", !.left = @ - 1])
    BY <1>12, <1>t DEF PollAgain, At, TaskOK, TaskType
  <2> QED BY <1>12, <2>1, BecomeInv DEF PollAgain
<1>13. CASE ReturnLanded(w)
  <2>1. OutcomeIsTrue(w, Outcome(w))
    <3>1. /\ task[w].attempt \in Attempts /\ task[w].bundle_id = task[w].attempt
          /\ bundle[w][task[w].attempt].tip = task[w].tip /\ Landed(w, task[w].attempt)
      BY <1>13, <1>t DEF ReturnLanded, At, TaskOK
    <3>2. BundleTxs(w, task[w].attempt) \subseteq ledger
      BY <3>1 DEF SubmitInv, BundleOK
    <3>3. /\ Outcome(w).attempts = task[w].attempt /\ Outcome(w).tip = task[w].tip
          /\ Outcome(w).bundle_id = task[w].bundle_id
      BY DEF Outcome, NoResult
    <3> QED BY <3>1, <3>2, <3>3 DEF OutcomeIsTrue
  <2>2. TaskOK(w, [task[w] EXCEPT !.pc = "done", !.result = Outcome(w)])
    BY <1>t, <2>1 DEF TaskOK, TaskType
  <2> QED BY <1>13, <2>2, BecomeInv DEF ReturnLanded, Return
<1>14. CASE ReturnRejected(w)
  BY <1>14, FailInv DEF ReturnRejected
<1>15. CASE BundleDropped(w)
  <2>1. TaskOK(w, [task[w] EXCEPT !.pc = "next", !.last_err = "Dropped",
                                  !.tip = BumpTip(req[w].policy, @)])
    BY <1>15, <1>t DEF BundleDropped, At, TaskOK, TaskType
  <2> QED BY <1>15, <2>1, BecomeInv DEF BundleDropped
<1>16. CASE EncodeFailed(w)
  BY <1>16, FailInv DEF EncodeFailed
<1> QED BY <1>1, <1>2, <1>3, <1>4, <1>5, <1>6, <1>7, <1>8, <1>9, <1>10, <1>11, <1>12,
           <1>13, <1>14, <1>15, <1>16 DEF Submit

\* It holds at first.
LEMMA SubmitInit == Init => SubmitInv
<1> SUFFICES ASSUME Init PROVE SubmitInv
  OBVIOUS
<1>1. ASSUME NEW w \in Workers PROVE TaskOK(w, task[w])
  BY <1>1 DEF Init, TaskOK, NoResult
<1>2. ASSUME NEW w \in Workers, NEW a \in Attempts PROVE bundle[w][a].st = "none"
  BY <1>2 DEF Init
<1> QED BY <1>1, <1>2, InitType DEF SubmitInv, BundleOK, Sent, Landed, LandsAtMostOnce

\* Every step preserves it, whoever takes it.
LEMMA NextInv == SubmitInv /\ TypeOK' /\ [Next]_vars => SubmitInv'
<1> SUFFICES ASSUME SubmitInv, TypeOK', [Next]_vars PROVE SubmitInv'
  OBVIOUS
<1>1. ASSUME NEW w \in Workers, Submit(w) PROVE SubmitInv'
  BY <1>1, SubmitStepInv
<1>2. ASSUME NEW w \in Workers, NEW a \in Attempts, BlockEngine(w, a) PROVE SubmitInv'
  BY <1>2, BlockEngineInv
<1>3. CASE OracleMoves \/ Expire \/ UNCHANGED vars
  <2>1. req' = req /\ task' = task /\ bundle' = bundle /\ ledger' = ledger
    BY <1>3 DEF OracleMoves, Expire, vars
  <2> QED BY <2>1 DEF SubmitInv, TaskOK, BundleOK, LandsAtMostOnce, OutcomeIsTrue, Sent,
                      Landed, SizeOK, BundleTxs, UserTxs, TipTx
<1> QED BY <1>1, <1>2, <1>3 DEF Next

\* The invariant holds in every behaviour.
LEMMA SubmitInvariant == Spec => []SubmitInv
BY SubmitInit, NextInv, TypeCorrect, PTL DEF Spec

\* The outcome submit() returns is true of the chain: the bundle it names
\* landed, in the attempt and with the tip it quotes.
THEOREM OutcomeCorrect == Spec => []OutcomeMatchesLedger
<1>1. SubmitInv => OutcomeMatchesLedger
  BY DEF SubmitInv, TaskOK, OutcomeMatchesLedger
<1> QED BY <1>1, SubmitInvariant, PTL

\* However often submit() sends its bundle again, the user's transactions are
\* executed and a tip is paid at most once.
THEOREM PaidOnce == Spec => []LandsAtMostOnce
<1>1. SubmitInv => LandsAtMostOnce
  BY DEF SubmitInv
<1> QED BY <1>1, SubmitInvariant, PTL

-----------------------------------------------------------------------------
\* submit() itself makes no bundle land: it only ever puts one in flight.
LEMMA SubmitLandsNothing ==
  ASSUME TypeOK, NEW v \in Workers, Submit(v),
         NEW w \in Workers, NEW a \in Attempts, Landed(w, a)'
  PROVE  Landed(w, a)
<1>1. CASE UNCHANGED bundle
  BY <1>1 DEF Landed
<1>2. CASE Send(v)
  BY <1>2 DEF Send, Landed, TypeOK
<1> QED
  BY <1>1, <1>2 DEF Submit, RejectPolicy, RejectSize, OracleCold, Start, NextAttempt, Exhausted,
     EncodeFailed, SendOk, SendFailed, CallFailed, Poll, PollFailed, PollAgain, ReturnLanded,
     ReturnRejected, BundleDropped, Fail, Return, Become

\* A settlement that is no landing makes no bundle land, and a landing only its
\* own.
LEMMA SettleLands ==
  ASSUME TypeOK, NEW v \in Workers, NEW b \in Attempts, NEW from, NEW to,
         Settle(v, b, from, to), NEW w \in Workers, NEW a \in Attempts,
         ~Landed(w, a), Landed(w, a)'
  PROVE  v = w /\ b = a /\ to = "landed"
<1>1. bundle \in [Workers -> [Attempts -> BundleType]]
  BY DEF TypeOK
<1>2. bundle' = [bundle EXCEPT ![v][b].st = to]
  BY DEF Settle
<1>3. v = w
  BY <1>1, <1>2 DEF Landed
<1>4. b = a
  BY <1>1, <1>2, <1>3 DEF Landed
<1>5. bundle'[w][a].st = to
  BY <1>1, <1>2, <1>3, <1>4 DEF BundleType
<1> QED BY <1>3, <1>4, <1>5 DEF Landed

\* The engine lands a bundle only while its tip transfer's blockhash is alive.
LEMMA LandsWhileAlive ==
  ASSUME TypeOK, NEW v \in Workers, NEW b \in Attempts, BlockEngine(v, b),
         NEW w \in Workers, NEW a \in Attempts, ~Landed(w, a), Landed(w, a)'
  PROVE  req[w].blockhash \notin dead
<1>1. CASE Land(v, b)
  <2>1. v = w
    BY <1>1, SettleLands DEF Land
  <2> QED BY <1>1, <2>1 DEF Land, TipTx
<1>2. CASE Receive(v, b) \/ Refuse(v, b) \/ Drop(v, b) \/ Reject(v, b)
  <2>1. \E from, to : to # "landed" /\ Settle(v, b, from, to)
    BY <1>2 DEF Receive, Refuse, Drop, Reject
  <2> QED BY <2>1, SettleLands
<1> QED BY <1>1, <1>2 DEF BlockEngine

\* With the blockhash expired and nothing landed, no step lands anything.
LEMMA ExpiredStep ==
  ASSUME TypeOK, [Next]_vars, NEW w \in Workers,
         req[w].blockhash \in dead, NothingLanded(w)
  PROVE  NothingLanded(w)'
<1> SUFFICES ASSUME NEW a \in Attempts, Landed(w, a)' PROVE FALSE
  BY DEF NothingLanded
<1>1. ~Landed(w, a)
  BY DEF NothingLanded
<1>2. ASSUME NEW v \in Workers, Submit(v) PROVE FALSE
  BY <1>1, <1>2, SubmitLandsNothing
<1>3. ASSUME NEW v \in Workers, NEW b \in Attempts, BlockEngine(v, b) PROVE FALSE
  BY <1>1, <1>3, LandsWhileAlive
<1>4. CASE OracleMoves \/ Expire \/ UNCHANGED vars
  BY <1>1, <1>4 DEF OracleMoves, Expire, vars, Landed
<1> QED BY <1>2, <1>3, <1>4 DEF Next

\* Once the blockhash has expired with nothing landed, the bundle may be built
\* anew: nothing of this submission lands any more.
THEOREM ExpiredIsFinal == Spec => ExpiredNeverLands
<1>1. TypeOK /\ [Next]_vars =>
        [\A w \in Workers :
           req[w].blockhash \in dead /\ NothingLanded(w) => NothingLanded(w)']_vars
  BY ExpiredStep
<1> QED BY <1>1, TypeCorrect, PTL DEF Spec, ExpiredNeverLands

=============================================================================
