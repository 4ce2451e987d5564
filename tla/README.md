# A TLA+ model of jito-bundler

`jito-bundler` is a Rust client library that submits *bundles* of Solana
transactions to a Jito block engine: it adds a tip payment to the user's signed
transactions, sends them over JSON-RPC or gRPC, polls for the outcome, and
retries what was lost or dropped, with backoff and a higher tip.  It chooses the
tip from an oracle fed by a WebSocket stream, and the engine's region by racing
health probes.

This directory models the library's own logic, checks it with TLC on small
instances, and proves every safety property the runs check but one, with TLAPS, for
every value of the constants.  Paths below are relative to the repository.

- [The system](#the-system): inventory of its parts
- [The modules](#the-modules): which module models what, and how
- [The runs](#the-runs): what TLC checks, bounds, fairness
- [The proofs](#the-proofs)
- [Where comments and code disagree](#where-comments-and-code-disagree)
- [What is not modelled](#what-is-not-modelled)
- [The plan](#the-plan)

## The system

| part | source | state | operations | what makes it correct |
|---|---|---|---|---|
| Bundle submission | `src/bundle.rs` | the builder; inside `submit()`: attempt, tip, last error, bundle id, poll deadline | `submit`, `resolve_tip`, `encode_bundle`, `await_terminal` | an outcome is true of the chain; the user pays at most once; tips rise only on drops; nothing is sent after a final answer; errors are earned; it returns |
| Retry policy | `src/retry.rs` | five fields, immutable | `validate`, `backoff_for`, `bump_tip` | delays start at the initial backoff, never shrink, never pass the ceiling; a bump raises the tip and saturates |
| Transport clients | `src/client/` | endpoint, HTTP client or channel | `send_bundle`, `bundle_status` | a landing is reported only for a landed bundle; failures are classified so that the retry loop does the right thing |
| Errors, status | `src/error.rs`, `src/status.rs` | none | `is_retriable`, `is_terminal` | as above |
| Tip oracle | `src/tip.rs` | ring buffer, cursor, `filled` behind one `RwLock` | `push_sample`, `percentile`, `len`, `warmup` | it holds the last *capacity* samples; a percentile has its rank; warmed up stays warm; `warmup` returns |
| Tip accounts | `src/tip.rs` | eight constants | `pick` | two bundles with the same tip, account and blockhash carry the same payment |
| Tip stream | `src/tip.rs` (`spawn_stream`) | one task per built engine: connection, backoff | connect, read, feed, sleep | only published numbers become samples; the backoff doubles to 30 s and resets; the task never gives up |
| Region selection | `src/region.rs` | one probe task per region, the best so far | `auto_select_with_timeout` | the fastest region that answered wins; it returns |
| Engine | `src/engine.rs` | the builder; the `EngineInner` its clones share: region, client, oracle, payer, defaults | builder setters, `build`, `auto_region`, clone, `with_tip_payer`, `bundle`, `bundle_status`, `wait_for_bundle` | a handle is a value, whatever it shares; its oracle is fed; its endpoint is its region's; a failed build leaves nothing behind; no region's silence holds up `build`; `wait_for_bundle` returns, and what it says agrees with `submit` |
| Examples | `examples/` | locals | as above, in a row | quotes taken one after the other belong together |
| Metrics | `src/metrics.rs` | none | counters | pure output, called from nowhere |

How they interact.  `JitoEngineBuilder::build` selects a region, connects a
client, spawns a tip stream for its oracle and shares everything behind an
`Arc`.  `engine.bundle()` copies the shared parts into a `BundleBuilder`; its
`submit()` asks the oracle once for a tip, then loops: sleep, build and sign the
tip transaction, `send_bundle`, poll `bundle_status` until an end or the
deadline, then return or go round again.  Any number of clones submit at once,
while stream tasks push samples into the oracle they read.

What is hard about it.  A call that failed may have taken effect: the
engine may hold a bundle whose `send_bundle` timed out, and may land a bundle
that was given up as dropped.  Several attempts of one submission, and several
submissions of one payer, compete on the chain.  `warmup` and the stream tasks
take the oracle's lock for one step at a time, and so do the queries of one
program.  A build fails between its awaits, with a detached task among its
effects.  Probes end in any order, but
are collected in catalog order.  Tips, delays and percentile indices are integer
and float arithmetic with boundaries.  `PROJECT.json` lists each such hazard at
its line, with the properties that would notice it going wrong.

## The modules

    RetryPolicy --+--> RetrySchedule --> RetryScheduleProofs
                  |
    BundleClient -+--> BundleSubmit --(refines)--> SubmitPromise
                            |
                            +--> BundleSubmitProofs --> SubmitHistoryProofs
                            |                                   |
                            +--> BundleWatch ----------> BundleWatchProofs

    TipOracle --(refines)--> SlidingWindow <--(uses)-- TipStream --> TipStreamProofs
        |
        +--> TipQuotes --> TipOracleProofs

    RegionSelect --> Engine --(refines)--> EngineValue
         |              |
         v              v
    RegionSelectProofs --> EngineProofs

**RetryPolicy** is the arithmetic of `retry.rs`: `ValidPolicy`, `BackoffFor`,
`BumpTip`.  The f64 multiplier is a whole number of hundredths or `NotFinite`;
u64 has a width of `U64Max`, so that TLC reaches its saturation.
**RetrySchedule** lets a policy lay out the delays and tips of successive
attempts, with any mix of drops and lost calls.

**BundleClient** is what the two transports make of an answer: `ErrorOf` maps
the ways a call fails to the library's errors, `JsonRpcStatus` and `GrpcStatus`
parse a status.  The answers that a block engine may give for a bundle in a
given state (`JsonRpcAnswers`, `GrpcAnswers`) are external: an answer may lag
behind or miss the bundle, and a rejection reaches JSON-RPC as an entry with an
`err`, the only channel its reply format has.

**BundleSubmit** is `submit()` and `await_terminal()`.

| model | code |
|---|---|
| `req[w]` | the fields of the `BundleBuilder` when `submit()` takes it |
| `task[w].pc` | the await at which the future stands, see the module's header |
| `task[w].attempt`, `.tip`, `.last_err`, `.bundle_id` | the locals of the same names |
| `task[w].left` | poll intervals until the deadline of `await_terminal` |
| `task[w].reply` | the answer being matched on |
| `task[w].result` | what `submit()` returned |
| `bundle[w][a]`, `ledger` | external: what became of the bundle of attempt `a`, and what the chain executed |
| `oracle` | the percentile a query would answer now |
| `RejectPolicy`, `RejectSize`, `OracleCold`, `EncodeFailed` | the `?` and early returns, in order |
| `Start`, `NextAttempt`, `Send`, `SendOk`, `SendFailed` | the loop up to the `match` on `send_bundle` |
| `Poll`, `PollAgain`, `PollFailed` | `await_terminal` and its `?` |
| `ReturnLanded`, `ReturnRejected`, `BundleDropped`, `CallFailed`, `Exhausted` | the arms of the second `match`, and the end of the loop |

Each worker holds a clone of one engine, so all pay with one key.  A bundle's
transactions are the user's (the same in every attempt) and a tip transfer that
is determined by account, amount and blockhash: signing is deterministic, so two
equal transfers are one transaction.  The engine (`Receive`, `Refuse`, `Land`,
`Drop`, `Reject`) may act at any time, also on a bundle the client gave up.
What is assumed of the outside world is stated there: the chain executes a bundle
as a whole, no transaction twice, and no tip transfer whose blockhash has expired
(`Expire`), and an application-level error to `send_bundle` means that the
bundle was not taken.

**SubmitPromise** is what a caller may rely on, without engine, transports or
retry loop: a bounded number of offers that never fall, at most one of them
taken, one answer, true when it says *landed*.  It deliberately lets an offer be
taken after the caller was told of a failure: the code does not prevent that.
`ImplementsPromise` is the refinement, its mapping (`Offers`, `Paid`, `Answer`)
at the end of BundleSubmit.  `Safety` is the promise without the fairness that makes
the answer come.

**BundleWatch** adds `wait_for_bundle`, with the `bundle_status` it calls: once
`submit()` has answered with a bundle id, in an outcome, in `Rejected`, or in the
`Dropped` inside `RetriesExhausted`, the caller may wait for that bundle, while
the engine and the chain go on.  `watch[w].left` is what `task[w].left` is in
`await_terminal`; unlike there, a failed call ends the wait and a deadline
returns the status as it is.

**TipOracle** is the ring buffer, the percentile query and the `warmup` calls of
several readers.  `push_sample` and `percentile` hold the lock throughout and
are one step; `warmup` takes it once per `len()`, so its loop is four steps that
pushes interleave with.  `sort_unstable` is modelled by what it does: the place of a
slot is the number of slots that come before it (`Place`).

**SlidingWindow** is what the buffer stands for, the last `Capacity` samples, and
what a percentile of them is, by counting instead of sorting; `ImplementsWindow` is the refinement.

**TipQuotes** is the program of `examples/with_tip_oracle.rs`: `warmup`, `p50`,
`p75`, `p95`, and the query of `submit()` under the strategy `Percentile75`.
Each takes the lock anew, so samples come in between; the model counts them
for each quote.

**TipStream** is the background task, one per built engine, several on one
oracle, which is there the SlidingWindow that TipOracle implements.  A frame's
values are missing, NaN or infinite, or finite in tenths of a lamport, so
that truncation, saturation and the filter before the cast are visible.

**RegionSelect** is `auto_select_with_timeout`: probes that start late, end by
an answer, an error, the budget or a panic, and the caller that awaits them
in catalog order.

**Engine** is a program that uses `src/engine.rs`.  It consumes builders one after
the other (`Plans`), awaits `build()`, and in between clones, drops and repays its
handles and drafts bundles.

| model | code |
|---|---|
| `features` | the cargo features the binary was compiled with |
| `app.builder` | the `JitoEngineBuilder` that `build(self)` consumes; `DefaultBuilder` is `JitoEngine::builder()` |
| `app.pc` | the await of `build()`: the region selection, which is RegionSelect itself (`Selecting`), or the client, whose making is an await only over gRPC (`AwaitsPeer`) |
| `inner`, `handle[h]` | the `EngineInner`s, and which of them the `Arc` in `h` points to |
| `draft` | the `BundleBuilder` in the making |
| `streams` | the running stream tasks, with the oracle each feeds; what they do is TipStream |
| `ConnectFailed`, `Fail` | every error `build()` returns, by transport and features |
| `Built` | from the connection to the end of `build()`, where there is no await |
| `Clone`, `DropHandle`, `WithTipPayer`, `Bundle` | `clone()`, drop, `with_tip_payer`, `bundle()` |
| `SetTip` ... `SetMaxAttempts`, `Submit` | the setters of `BundleBuilder` for what `bundle()` fills in, and the end of the draft |

An oracle is numbered by the build that made it.  One program does one thing at a
time: other tasks could use other handles during a `build()`, but none of those
steps reads what a build writes before `Built`.

**EngineValue** is what that program takes its handles for: values, with no
sharing.  `ImplementsValue` is the refinement; its mapping (`Held`) dereferences
each handle.  A draft must come from the engine as it is at `bundle()`, its account
index from the payer of that moment.

Definitions with a comment such as "A push that wraps one slot too late" are
faulty variants of the definition that follows them.  They belong to no
specification.  `PROJECT.json` ("mutants") pairs each property with one, and TLC
finds the property violated when the variant takes the definition's place: this is
what shows that the property says something about the code.

## The runs

Runs that must pass:

| run | module, configuration | distinct states | what it shows |
|---|---|---|---|
| `submit` | MCBundleWatch, `BundleWatch.cfg` | 226 000 | one submission, every request of `SoloRequests`, every behaviour of the engine, and a caller that then waits for the bundle: types, true outcomes, one landing, tips, earned errors, silence after a final answer, no landing after expiry, agreement of both calls, termination, refinement of SubmitPromise |
| `submit_peers` | MCBundleSubmit, `BundleSubmitPeers.cfg` | 1.0 million | two clones of one engine with the same tip, account and blockhash: outcomes stay true, and two successes never rest on one payment |
| `retry_schedule` | MCRetrySchedule, `RetrySchedule.cfg` | 7 002 | delays and bumps over 360 policies and seven tips |
| `tip_oracle` | MCTipOracle, `TipOracle.cfg` | 196 000 | ring buffer = sliding window; rank of a percentile; warmup; quotes no older than the pushes since |
| `tip_stream` | MCTipStream, `TipStream.cfg` | 5 200 | two tasks on one oracle |
| `engine` | MCEngine, `Engine.cfg` | 567 000 | two builds, the first with a selection by three probes in every order of start and end, over either transport, the second for a custom region over gRPC, in binaries with and without each feature; handles as values, fed oracles, no orphan task, and a build that ends or waits for a gRPC peer |

The six runs that find a violation are the findings below.

### Properties

- `OutcomeMatchesLedger`: a `BundleOutcome` names a bundle that did land, the
  one of the attempt it counts, with the tip it quotes.
- `LandsAtMostOnce`: of all the bundles a submission sends, one lands at most.
  This rests on the user's transactions being the same in every bundle, not on
  the client knowing what happened to the earlier ones.
- `TipsClimbOnlyOnDrops`, `FailureJustified`, `NothingSentAfterFinalAnswer`:
  what the retry loop may and may not do after each kind of answer.  The first has
  two parts: between any two attempts the tip stays or is bumped once
  (`TipsRiseByBumps`), and the bundle being sent is bumped exactly if the attempt
  before ended in a drop (`BumpFollowsDrop`), so neither a failed send nor a failed
  poll of an accepted bundle raises it.
- `OnePaymentPerOutcome`: two concurrent submissions never both count one tip
  transfer as theirs.
- `ExpiredNeverLands`: once the blockhash has expired with nothing landed,
  nothing of the submission lands.  It holds because every attempt's tip transfer
  carries the blockhash read before the loop, and a bundle executes as a whole;
  the user's own transactions may be durable.
- `VerdictsAgree`: `wait_for_bundle` contradicts neither what `submit()` said nor
  the chain.  `Landed` after `RetriesExhausted` is no contradiction, and possible.
- `SubmitReturns`, `WaitReturns`, `WarmupReturns`, `KeepsTrying`: the loops end, or
  never stop trying, whatever the engine answers or leaves unanswered; see the
  fairness below for what of the network `SubmitReturns` and `WaitReturns` rest on.
- `BuildReturns`: the region selection ends though regions never answer, and a
  build returns, unless it comes to await the connection of a gRPC channel
  (`AwaitsPeer`): the code bounds that by nothing.
- `DelaysGrowToCeiling`, `BumpRaisesTip`: the schedule of a policy.
- `PercentileHasItsRank`: stated by counting samples below and above, and
  against `Percentile` of SlidingWindow, not by the index the code computes.
- `QuotesAgeByPushes`: a quote is off by no more ranks than samples were pushed
  since it was taken, also while the window grows and its ranks move.
- `QuotesOrdered`: with no push in between, p50 <= p75 <= p95 and the tip paid is
  the p75 printed.  With some, none of that holds, and `QuotesAgeByPushes` says how
  far it may fail.
- `QuotesTypeOK`: after a successful `warmup(n)`, n > 0, the program never meets
  `TipOracleCold`.
- `WarmStaysWarm`: after a successful `warmup(n)`, n > 0, no query finds the
  oracle cold, through any number of wraps.
- `OnlyPublishedTips`, `SleepDoublesPerFailure`: what a stream task puts in the
  oracle, and its backoff counted from the failures rather than from the
  variable that holds it.
- `FastestResponderWins`: against all probes, in whatever order they ended.
- `OracleIsFed`: the oracle of every engine and draft is one a running task feeds,
  after any clones, drops and swaps of the payer.  It rests on the stream task
  not ending with its `JoinHandle` or with the last engine.
- `NoOrphanStreams`: a build that fails has spawned nothing.
- `EndpointOfRegion`: an engine talks to the endpoint of its region for its
  transport, and to a gRPC one only in a binary that has gRPC.
- `ImplementsPromise`, `ImplementsWindow`, `ImplementsValue`: the refinements.

### Bounds, and why they are enough

- `U64Max = 13` (submit) makes the second bump of a tip of 10 saturate: 10, 12,
  13.  `U64Max = 40` (schedule) has tips below, at and next to the limit.  In the
  schedule `max_backoff` stays below `U64Max`; the cast from u128 to u64 of a
  longer one is in `BackoffFor`, but no ceiling of 584 years is configured.
- `MaxAttempts = 3`: a first, a middle and a last attempt; one is lost,
  one dropped, and one still in flight.  Requests with one and two attempts are
  there too.  Two workers have two and one attempts.
- `Expiring = {1}`: the blockhash of every request, so that expiry comes
  before, between and after the attempts.  `WatchBudget = 1` for `wait_for_bundle`,
  as next: the four kinds of verdict, each before and after a sleep.
- `PollBudget = 1`: the deadline passes in the call, in the sleep, or not at all.
- Capacity 3 with a reader who wants 0, 2 or 4 samples: none, some, and more than
  the buffer can hold.  Capacity and samples are enough to wrap repeatedly.  One
  reader is enough: a reader reads the ring and its own state, and writes only
  the latter.  The age of a quote is counted up to the capacity.
- Two streams and a capacity of two, so that batches interleave and push each
  other out.  `FailureBound = 8`: the backoff is at its ceiling after seven
  failures, and further ones do not change it.
- Three probes, a budget of two ticks, starts at tick 0 or 1: ties, late
  starters that were faster, and timeouts.
- Two builds, two handles, three `EngineInner`: a clone and a swap of the payer of
  either engine, or both engines side by side, with a shared oracle or one of
  their own.  Two payers are enough for a swap to be seen.

### Fairness, and why the code justifies it

- BundleSubmit: a worker's future is polled until it is done.  Every await ends:
  both clients have a ten-second timeout (`src/client/json_rpc.rs:28`,
  `src/client/grpc.rs:39`), sleeps are finite.  The one of gRPC covers a request on
  a live connection.  Should the channel lose its connection and open a new one
  underneath a request, no timeout of the code covers that connect; the model takes
  it to end, so over gRPC `SubmitReturns`, `WaitReturns` and the liveness in
  `ImplementsPromise` hold up to that.  *No* fairness for the engine: bundles
  may stay pending for ever, requests may stay in flight.
- BundleWatch: as BundleSubmit, for the future of `wait_for_bundle` too; nobody
  has to call it.
- TipOracle, TipQuotes: readers are scheduled, their sleeps end and time passes.  Nothing
  makes samples arrive.
- TipStream: a sleep ends, a batch in hand is fed.  No message is ever owed, nor
  the end of a connect, which has no timeout.  Dropping the `JoinHandle` (`let _ =` in
  `src/engine.rs`) detaches a tokio task; it does not stop it.
- RegionSelect: tasks are scheduled, time passes and the HTTP client keeps its
  timeout.  Regions owe no answer.
- Engine: those of RegionSelect while `build()` awaits it, and the making of a client
  that is not awaited: `JsonRpcClient::new` opens no connection, and a binary
  without gRPC refuses it at once.  A gRPC connection that is really attempted
  (`AwaitsPeer`) has *no* fairness: `src/client/grpc.rs:47` sets no connect
  timeout, and a peer may accept TCP and be silent in the TLS handshake.  The program
  owes nothing else.

`CHECK_DEADLOCK FALSE` stands where the system really stops: all submissions
returned and all bundles settled, the schedule over, the unit test's loop done,
the last build over and all handles dropped.

## The proofs

Every theorem holds for all values of the constants that meet the assumptions
the modules declare: `NumbersAssumption`, `SubmitAssumption`, `WatchAssumption`,
`ScheduleAssumption`, `OracleAssumption`, `StreamAssumption`, `RegionAssumption`,
`EngineAssumption`.  These give constants their types and exclude zero where the code does;
TLC evaluates each in a run.  Nothing else is assumed.

| component | proof module | inductive invariant |
|---|---|---|
| `submit()` and the block engine | BundleSubmitProofs | `SubmitInv` |
| its retry loop, `SubmitPromise` | SubmitHistoryProofs | `HistoryInv`, over `SubmitInv` |
| `wait_for_bundle` | BundleWatchProofs | `WatchInv`, over `HistoryInv` |
| tips of a schedule | RetryScheduleProofs | `ScheduleInv` |
| oracle, `warmup`, quotes | TipOracleProofs | `OracleInv`, `QuotesInv` |
| stream tasks | TipStreamProofs | `StreamInv` |
| region selection | RegionSelectProofs | `SelectInv` |
| engines | EngineProofs | `EngineInv` |

**BundleSubmitProofs** proves, for any set of workers and requests, any number of
attempts and poll intervals, and u64 of any width:

| theorem | statement |
|---|---|
| `TypeCorrect` | `Spec => []TypeOK`: in particular no chain of bumps takes a tip out of u64 |
| `OutcomeCorrect` | `Spec => []OutcomeMatchesLedger` |
| `PaidOnce` | `Spec => []LandsAtMostOnce` |
| `ExpiredIsFinal` | `Spec => ExpiredNeverLands`, an action property |

`TypeOK` is inductive; the only arithmetic is `BumpTipType`, that a bump of a
u64 is a u64 and no smaller.

`OutcomeMatchesLedger` and `LandsAtMostOnce` are not inductive alone.  The first
speaks of a submission that has returned, and says nothing of the state before.
`SubmitInv` strengthens them by what a worker knows on its way:

- `TaskOK`: from `sending` to `polled` the bundle of the current attempt carries
  the task's tip; from `poll` on, the id polled is that of the attempt; a reply of
  `Landed` is true of that bundle; a result of `Landed` is true of the ledger.
- `BundleOK`: only a bundle of legal size is ever sent, and all transactions of
  a landed bundle are in the ledger.
- `LandsAtMostOnce` itself: were a second bundle of a worker to land, the
  user's first transaction (there is one, the size is legal) would be in the
  ledger already, and the chain would not take it.

Most steps of `submit()` change one task only; `BecomeInv` reduces them to
`TaskOK` of the new task.  `TaskFrame` says that a task does not notice the
engine's steps, since what landed stays landed and the ledger only grows.
`StatusesOfType` is where the parsing of both transports matters: neither reports
a landing of a bundle that did not land.  (With the faulty variant
`BundleTxsMovedOut` in place of `BundleTxs` the proof fails, as it should.)

`ExpiredIsFinal` needs `TypeOK` only: `SubmitLandsNothing` says that no step of
`submit()` makes a bundle land, `SettleLands` that a step of the engine changes
the one bundle it is about, and `LandsWhileAlive` reads the guard of `Land`.

**SubmitHistoryProofs** proves, of the same specification:

| theorem | statement |
|---|---|
| `TipsClimb` | `Spec => []TipsClimbOnlyOnDrops` |
| `ErrorsAreEarned` | `Spec => []FailureJustified` |
| `PaymentsAreDistinct` | `Spec => []OnePaymentPerOutcome`, for any number of workers |
| `SilentAfterFinalAnswer` | `Spec => NothingSentAfterFinalAnswer`, an action property |
| `PromiseKept` | `Spec => Promise!Safety`: `ImplementsPromise` without its liveness |

`SubmitInv` says what a worker knows of its current attempt; these properties relate
it to the attempts before.  `HistoryInv` adds, for each worker,

- `SentOK`: the bundles sent are those of the attempts so far, the one about to
  be sent excepted, and none if the user's transactions do not encode;
- `TipOK`: no bundle sent has a tip above the task's; from the head of the loop to the
  next send the task's tip is that of the last bundle, or the bump of it if the last
  error is a drop, in which case the engine took that bundle (`Climbs`);
- `AnswerOK`: a worker polls only a bundle the engine took, holds a final answer only
  where it is about to return, and leaves the loop at its end only after a drop;
- `ResultOK`: what each error, once returned, says of the attempts;
- and `TipsRiseByBumps` and `DistinctPayments` themselves.  Two *landed* bundles
  of two workers have different tip transfers, because the chain takes a transaction
  once; `OnePaymentPerOutcome` says so of the two *results* only, and is not inductive.

A step of a worker changes either its task only (`BecomeHistory`, which leaves
`HistoryOK` of the new task) or sends its bundle (`SendHistory`); steps of the
engine are `BlockEngineHistory`.  `PromiseStep` maps each to a step of SubmitPromise:
`Send` is an offer, a landing is the take, a return is the answer, everything else a
stutter.  `SentCountIs` relates the offers, a count of bundles sent, to the attempt;
`OffersStand` says that what was offered stays as it was.

**BundleWatchProofs** proves, for any `WatchBudget`:

| theorem | statement |
|---|---|
| `WatchTypes` | `WatchSpec => []WatchTypeOK` |
| `VerdictsHold` | `WatchSpec => []VerdictsAgree` |
| `WatchedInvariants` | `WatchSpec =>` all six invariants of BundleSubmit |
| `WatchedActions` | `WatchSpec =>` both of its action properties |
| `WatchedPromise` | `WatchSpec => Promise!Safety` |

`VerdictsAgree` compares two answers given at different times.  `WatchInv` ties
each to the bundle instead: `Truthful` is what a status says of a bundle over either
transport (JSON-RPC has no word for a rejection), `AnswersAreTruthful` that both
parsers keep to it, `TruthIsStable` that the engine does not undo it.  `NamesOK` adds
that the id a result goes with is that of a bundle the engine took.

**RegionSelectProofs** proves, for any catalog, any budget and any delay of a
probe's start:

| theorem | statement |
|---|---|
| `SelectionType` | `Spec => []TypeOK`: the clock and the elapsed times stay within `MaxStart + Timeout` |
| `FastestWins` | `Spec => []FastestResponderWins` |

Neither is inductive.  That an elapsed time is at most the budget needs `ProbeOK`:
the clock has not passed the latest start while a probe waits for its first
step, nor the end of a running probe's budget.  `FastestResponderWins` speaks of
the end only; `Collected` says it of the probes before `caller.next`: they
are over, and the best so far is the fastest of those that answered.
`CallerOK` adds that no probe is running at the end that could still answer.

**EngineProofs** proves, for any builders, features, handles, payers and custom
regions, and any number of builds:

| theorem | statement |
|---|---|
| `EngineTypesHold` | `EngineSpec => []EngineTypeOK` |
| `EverySelectionIsFastest` | `EngineSpec => [](TypeOK /\ FastestResponderWins)`: the above for every `build()` |
| `OraclesAreFed` | `EngineSpec => []OracleIsFed` |
| `FailedBuildsLeaveNothing` | `EngineSpec => []NoOrphanStreams` |
| `EndpointsAreOfRegions` | `EngineSpec => []EndpointOfRegion` |
| `HandlesAreValues` | `EngineSpec => ImplementsValue` |

The invariant `EngineInv` is that of the selection, full types, and
`BuildsInOrder` (no task and no engine is of a build to come, and none of the
build that runs: or the task of a new engine could be a second one), `Begun` and
`RoomToBuild` (a running build has its number, a free handle and room, for nothing
else happens meanwhile), and `AllFed`, which strengthens `OracleIsFed` to the
engines no handle points to: a draft or a later state may still depend on them.
Most steps change little: `ProgramStep`, `IdleStep` and `NewEngineStep` say once
what a step that moves the program, the handles, or makes an engine has to keep.

`HandlesAreValues` maps every step to one of EngineValue or to a stutter.  Its
lemma is `OnlyMoved`: where a step moves one pointer and keeps the engines there
are, every other handle holds what it held.  With `WithTipPayerInPlace`, the
faulty swap inside the shared `EngineInner`, that premise is false.  `LeastFree`
needs that the naturals are well-founded.  EngineValue has no liveness, so the
whole refinement is proved.  The assumptions are `RegionAssumption` and
`EngineAssumption`.

**RetryScheduleProofs** proves `TipsRise`, `Spec => BumpRaisesTip`, for any
policies and tips and a u64 of any width.  `BumpEffects` is the arithmetic: the product
in wider integers, the division that truncates, both saturations.

**TipOracleProofs** proves, for any requested capacity (zero included), samples,
readers, wanted counts and percentiles:

| theorem | statement |
|---|---|
| `OracleTypes` | `Spec \/ QuotesSpec => []TypeOK` |
| `WarmHolds` | `Spec \/ QuotesSpec => []WarmStaysWarm` |
| `RanksHold` | `Spec \/ QuotesSpec => []PercentileHasItsRank` |
| `RingIsWindow` | `Spec \/ QuotesSpec => ImplementsWindow`, the whole refinement |
| `QuotesAreSamples` | `QuotesSpec => []QuotesTypeOK` |
| `QuotesStayNear` | `QuotesSpec => []QuotesAgeByPushes` |
| `QuotesKeepOrder` | `QuotesSpec => []QuotesOrdered` |

`OracleInv` is `TypeOK`, `WarmStaysWarm` and `Written`: the slots a query looks
at have been written, so that no zero of the fresh buffer is taken for a sample.
`WindowShape` lists the window in terms of slots; `PushSlides` is the refinement of
`push_sample`, before and after the buffer is full.  `Wraps` is the one fact about
`%` they need: an index is at most one lap ahead.

For the percentile, `PlacesDiffer` and `SnapshotShape` say that the places of the filled
slots are a permutation of the indices, since there are as many of them;
`SnapshotRank` that the slot at place k has at most k samples below its amount and more
than k not above it.  `RotationCounts` carries counts over from slots to the window,
and `PercentileMeans` concludes that the `CHOOSE` of SlidingWindow picks the same amount.

`QuotesAgeByPushes` is inductive once it speaks of slots instead of the window
(`Near`): by `PushShifts` and `IndexSteps` a push moves each count by at most
one and the rank by at most one, in directions that a growing age makes up for.
`QuotesOrdered` is inductive relative to it: a push makes all quotes of a program older alike,
and a new quote is compared with others of age zero only (`FreshQuotesOrdered`).

**TipStreamProofs** proves, for any number of tasks, any batches and any capacity:

| theorem | statement |
|---|---|
| `StreamTypes` | `Spec => []TypeOK` |
| `TipsArePublished` | `Spec => []OnlyPublishedTips` |
| `SleepsDouble` | `Spec => []SleepDoublesPerFailure` |
| `FeedsAreWindow` | `Spec => Oracle!Spec` |

`OnlyPublishedTips` needs that what waits in a task's queue was published
(`FlattenedBatch` is the index arithmetic of the three nested loops).  The sleep is
tied to the count of failures by `BackoffOK` in every control state: while sleeping
the backoff lags one doubling behind the count, before a connect it has caught up,
and while connected both are at their start.  `FeedsAreWindow` and `RingIsWindow` meet in
SlidingWindow: the tasks, in any interleaving, make pushes of samples, and a
ring buffer that gets pushes of samples is the window.

**Only model-checked.**

- Liveness, for which `ENABLED` is out of the prover's reach: `SubmitReturns`,
  `WaitReturns`, `WarmupReturns`, `KeepsTrying`, `BuildReturns`, and the liveness
  in `ImplementsPromise`.
- `DelaysGrowToCeiling`.  The delay is a power with a variable exponent; the provers know
  nothing of one (not even that it is a number), and its growth is an induction
  over the exponent.  `SleepDoublesPerFailure` is provable because its exponent is at
  most five where it matters.

## Where comments and code disagree

Each is a run in which TLC finds the claim violated.

| run | claim | code |
|---|---|---|
| `dropped_but_landed` | `src/error.rs:49`: a dropped bundle was dropped before landing | a bundle still pending at the deadline is reported as dropped (`src/bundle.rs:240`); it may land later, after the caller was told `RetriesExhausted` |
| `grpc_network_error` | `src/error.rs:29`: transport failures all collapse into `Error::Transport` | a network failure on gRPC becomes `Error::Rpc` (`src/client/grpc.rs:116`), which is not retried |
| `rejection_as_drop` | `src/retry.rs:3`: rejections propagate at once | over JSON-RPC every `err` is a drop (`src/client/json_rpc.rs:145`), so that a rejection is bumped and retried |
| `median_test` | `src/tip.rs:335`: the test expects the median of 1000 ... 100000 to be 50000 | the index rounds 49.5 to 50: the code answers 51000 |
| `warmup_race` | `src/error.rs:84`: `TipOracleCold` means too few samples | `warmup` counts twice; samples that arrive in between make it report enough samples as an error (`src/tip.rs:217`) |
| `reconnect` | `src/tip.rs:264`: the task reconnects with backoff on disconnect | only a failed connect backs off; a connection that ends is reopened at once (`src/tip.rs:276`) |

Seen while reading and not run:

- `src/retry.rs:53` says of `none()` that the result is returned directly, yet
  a drop surfaces as `RetriesExhausted` around it.
- `src/bundle.rs:112` calls `max_attempts` a shorthand for a policy that is the
  default but for its attempts; the code keeps the rest of the policy set before
  (`SetMaxAttempts`).
- `src/tip.rs:265` says to drop the `JoinHandle` to cancel the stream; dropping it
  detaches the task, and `build()` relies on that (`OracleIsFed`).
- `src/region.rs:103` says that custom regions may override the tip stream; both
  arms give the same URL (`TipStreamUrl`).
- The quickstart of `src/engine.rs:31` asks for `Percentile75` right after
  `auto_region()`, when the oracle has no sample yet: the answer is
  `TipOracleCold` unless one arrives in between.
- `src/client/grpc.rs:47` and `src/tip.rs:273` connect without a timeout.  A silent peer
  holds `build()` over gRPC for ever, and a stream task in its connect, whose
  backoff then never comes into play.
- An attempt may overrun the poll budget of `src/bundle.rs:141` by one call and one
  sleep, and so may `wait_for_bundle` its timeout.
- `src/status.rs:7` mentions a `bundle_status_stream` that does not exist, and
  `Error::StatusStreamClosed` has no other producer than the unreachable default
  at the end of `submit()`.

## What is not modelled

- Encoding: base64, bincode and JSON.  Its one effect on control, the error of
  `encode_bundle`, is `EncodeFailed`.
- `slot` and `signatures` of a status are passed through untouched.
- Fields of errors beyond their kind, logging, and metrics (never called).
- The setters of `BundleBuilder` for transactions, blockhash and poll times: nothing
  reads these fields before `submit()` does, so BundleSubmit starts from every
  value they may have.
- The other two examples and the integration tests: sequential uses of operations
  the modules have.
- What the program pushes into an oracle or asks of it while it holds engines: that
  is TipQuotes and TipStream, which share the oracle's abstraction with Engine's
  oracle numbers, not its state.
- Poisoned locks and task cancellation: no code of the library panics with the
  lock held, and a dropped `submit()` future just stops.

## The plan

Done, in this order of importance: RetryPolicy, BundleClient, BundleSubmit with
SubmitPromise, RetrySchedule, TipOracle with SlidingWindow, TipStream, RegionSelect;
then Engine over RegionSelect with EngineValue, BundleWatch over BundleSubmit with the
expiry of blockhashes, TipQuotes over TipOracle; and the proofs of every component.
No part of the library with state of its own is left without a model, and no safety
property but `DelaysGrowToCeiling` without a theorem.

Left:

1. Theorems that no run states as a property yet: that an engine keeps its region,
   endpoint and oracle for as long as a handle points to it, over any swaps of the
   payer and any builds; that a stream task, once spawned, feeds the oracle it was
   spawned for to the end.
2. `DelaysGrowToCeiling`, should the provers learn powers.
