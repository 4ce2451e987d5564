----------------------------- MODULE TipOracle -----------------------------
(***************************************************************************)
(* TipOracle of src/tip.rs: the ring buffer of landed tips behind one      *)
(* RwLock, the percentile query, and the warmup() calls of several readers *)
(* while samples are being pushed.                                         *)
(*                                                                         *)
(* push_sample and percentile hold the lock throughout and are one step    *)
(* each.  warmup takes the lock anew for every len(), so each of its steps *)
(* is a step here.                                                         *)
(***************************************************************************)
EXTENDS Integers, Sequences, FiniteSets

CONSTANTS
  RequestedCapacity, \* the argument of with_capacity
  Samples,           \* the lamports that may be pushed
  Percentiles,       \* the percentiles that are asked for, in hundredths
  Readers,           \* the tasks that call warmup
  Wanted             \* the sample counts they wait for

ASSUME OracleAssumption ==
  /\ RequestedCapacity \in Nat
  /\ Samples \subseteq Nat
  /\ Percentiles \subseteq Int
  /\ Wanted \subseteq Nat

\* with_capacity takes the larger of its argument and one.
Capacity == IF RequestedCapacity < 1 THEN 1 ELSE RequestedCapacity

VARIABLES
  samples, \* the buffer, zeroes at first
  cursor,  \* the slot of the next sample
  filled,  \* the cursor has wrapped around
  warm     \* warm[r]: the control state of r's warmup()

ring == <<samples, cursor, filled>>

vars == <<samples, cursor, filled, warm>>

Slots == 0 .. Capacity - 1

Init ==
  /\ samples = [i \in Slots |-> 0]
  /\ cursor = 0
  /\ filled = FALSE
  /\ warm \in [Readers -> {[pc |-> "check", n |-> n, expired |-> FALSE, samples |-> 0] :
                            n \in Wanted}]

\* len(), and the part of the buffer a query looks at.
Held == IF filled THEN Capacity ELSE cursor

\* A push that wraps one slot too late.
PushSampleLateWrap(lamports) ==
  /\ samples' = [samples EXCEPT ![cursor] = lamports]
  /\ cursor' = (cursor + 1) % (Capacity + 1)
  /\ filled' = (filled \/ cursor' = 0)
  /\ UNCHANGED warm

\* A push that derives filled from the cursor alone.
PushSampleRecomputed(lamports) ==
  /\ samples' = [samples EXCEPT ![cursor] = lamports]
  /\ cursor' = (cursor + 1) % Capacity
  /\ filled' = (cursor' = 0)
  /\ UNCHANGED warm

\* A push that overwrites the newest sample once the buffer is full.
PushSampleStuck(lamports) ==
  /\ samples' = [samples EXCEPT ![cursor] = lamports]
  /\ cursor' = IF filled THEN cursor ELSE (cursor + 1) % Capacity
  /\ filled' = (filled \/ cursor' = 0)
  /\ UNCHANGED warm

PushSample(lamports) ==
  /\ samples' = [samples EXCEPT ![cursor] = lamports]
  /\ cursor' = (cursor + 1) % Capacity
  /\ filled' = (filled \/ cursor' = 0)
  /\ UNCHANGED warm

-----------------------------------------------------------------------------
(***************************************************************************)
(* percentile(p).  The f64 index is rounded half away from zero, which for *)
(* the p of this module is exactly the integer computation below.          *)
(***************************************************************************)
Cold == Held = 0

Clamp(p) == IF p < 0 THEN 0 ELSE IF p > 100 THEN 100 ELSE p

\* sort_unstable: the place of a slot is the number of slots that come before
\* it.  Equal amounts cannot be told apart, so any order among them will do.
Before(i, j) == samples[i] < samples[j] \/ (samples[i] = samples[j] /\ i < j)

Place(S, i) == Cardinality({j \in S : Before(j, i)})

Sorted(S) ==
  [k \in 0 .. Cardinality(S) - 1 |-> samples[CHOOSE i \in S : Place(S, i) = k]]

\* A snapshot of the whole buffer, slots never written included.
SnapshotWhole == Sorted(Slots)

\* The slots that hold a sample.
Filled == 0 .. Held - 1

\* A snapshot in the order of the slots.
SnapshotUnsorted == [k \in Filled |-> samples[k]]

Snapshot == Sorted(Filled)

PercentileIndex(p) == (2 * (Held - 1) * Clamp(p) + 100) \div 200

\* The answer of a query; defined unless Cold, when the query is an error.
Percentile(p) ==
  LET idx  == PercentileIndex(p)
      last == Held - 1
  IN  Snapshot[IF idx < last THEN idx ELSE last]

-----------------------------------------------------------------------------
(***************************************************************************)
(* warmup(n, timeout).                                                     *)
(***************************************************************************)
At(r, pc) == warm[r].pc = pc

Become(r, w) == warm' = [warm EXCEPT ![r] = w] /\ UNCHANGED ring

CheckLen(r) ==
  /\ At(r, "check")
  /\ Become(r, [warm[r] EXCEPT !.pc = IF Held >= warm[r].n THEN "ready" ELSE "deadline"])

\* A deadline that a sleeping reader forgets about.
CheckDeadlineIgnored(r) ==
  /\ At(r, "deadline")
  /\ Become(r, [warm[r] EXCEPT !.pc = "sleep"])

\* A warmup that returns Ok when its time is over.
CheckDeadlineOk(r) ==
  /\ At(r, "deadline")
  /\ Become(r, [warm[r] EXCEPT !.pc = IF warm[r].expired THEN "ready" ELSE "sleep"])

CheckDeadline(r) ==
  /\ At(r, "deadline")
  /\ Become(r, [warm[r] EXCEPT !.pc = IF warm[r].expired THEN "report" ELSE "sleep"])

\* len() is read again for the error.
ReportCold(r) ==
  /\ At(r, "report")
  /\ Become(r, [warm[r] EXCEPT !.pc = "cold", !.samples = Held])

SleepOver(r) ==
  /\ At(r, "sleep")
  /\ Become(r, [warm[r] EXCEPT !.pc = "check"])

\* The clock passes the deadline of r.
TimePasses(r) ==
  /\ ~warm[r].expired
  /\ ~At(r, "ready") /\ ~At(r, "cold")
  /\ Become(r, [warm[r] EXCEPT !.expired = TRUE])

Warmup(r) == CheckLen(r) \/ CheckDeadline(r) \/ ReportCold(r) \/ SleepOver(r)

Next ==
  \/ \E lamports \in Samples : PushSample(lamports)
  \/ \E r \in Readers : Warmup(r) \/ TimePasses(r)

\* A reader's future is polled, its 50 ms sleeps end, and time passes.
\* Nothing makes samples arrive.
Spec ==
  Init /\ [][Next]_vars /\ \A r \in Readers : WF_vars(Warmup(r)) /\ WF_vars(TimePasses(r))

-----------------------------------------------------------------------------
\* The cursor stays inside the buffer, and what was never written is zero.
TypeOK ==
  /\ samples \in [Slots -> Samples \cup {0}]
  /\ cursor \in Slots
  /\ filled \in BOOLEAN
  /\ warm \in [Readers -> [ pc      : {"check", "deadline", "sleep", "report", "ready", "cold"},
                            n       : Wanted,
                            expired : BOOLEAN,
                            samples : 0 .. Capacity ]]

\* The samples in the order they were pushed, oldest first.
Window ==
  IF filled THEN [i \in 1 .. Capacity |-> samples[(cursor + i - 1) % Capacity]]
            ELSE [i \in 1 .. cursor |-> samples[i - 1]]

Sliding == INSTANCE SlidingWindow WITH window <- Window

\* The ring buffer holds exactly the last Capacity samples, across the wrap.
ImplementsWindow == Sliding!Spec

\* A query answers with one of the last Capacity samples pushed, never with a
\* slot not yet written, and with the same one as a count over the window; of
\* the n - 1 others, at most p percent and half a sample lie below it, and at
\* most 100 - p percent and half a sample above; and a higher percentile is
\* never the smaller amount.
PercentileHasItsRank ==
  ~Cold =>
    \A p \in Percentiles :
      LET v     == Percentile(p)
          below == Cardinality({i \in DOMAIN Window : Window[i] < v})
          above == Cardinality({i \in DOMAIN Window : Window[i] > v})
          n     == Len(Window)
      IN  /\ v = Sliding!Percentile(Clamp(p))
          /\ \E i \in DOMAIN Window : Window[i] = v
          /\ 200 * below <= 2 * (n - 1) * Clamp(p) + 100
          /\ 200 * above <= 2 * (n - 1) * (100 - Clamp(p)) + 100
          /\ \A q \in Percentiles : p <= q => v <= Percentile(q)

\* Once warmup(n) with n of at least one has returned Ok, a percentile query
\* never finds the oracle cold again, however the buffer wraps afterwards.
WarmStaysWarm ==
  \A r \in Readers : At(r, "ready") => Held >= warm[r].n /\ (warm[r].n > 0 => ~Cold)

\* warmup() returns, even for more samples than the buffer can ever hold.
WarmupReturns == \A r \in Readers : <>(At(r, "ready") \/ At(r, "cold"))

\* TipOracleCold says that the oracle has not yet received enough samples.
ColdMeansShort == \A r \in Readers : At(r, "cold") => warm[r].samples < warm[r].n

=============================================================================
