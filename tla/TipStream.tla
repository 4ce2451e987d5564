----------------------------- MODULE TipStream -----------------------------
(***************************************************************************)
(* TipOracle::spawn_stream of src/tip.rs: the background tasks that        *)
(* read the tip-stream WebSocket and feed an oracle.  JitoEngineBuilder    *)
(* spawns one with every engine it builds, so that engines built with one  *)
(* oracle have several Streams feeding it.                                 *)
(*                                                                         *)
(* The oracle is the sliding window that TipOracle is shown to implement.  *)
(* Time is counted in units of 500 ms.                                     *)
(***************************************************************************)
EXTENDS Integers, Sequences

CONSTANTS
  Streams,  \* the tasks
  Batches,  \* the texts that parse: sequences of frames of three optional f64
  U64Max,   \* the largest u64
  Capacity  \* of the oracle

\* A field of a frame: missing, NaN or infinite, or finite and given in tenths
\* of a lamport.
Values == [kind : {"missing", "nan", "infinite", "finite"}, tenths : Int]

Frames == [1 .. 3 -> Values]

ASSUME StreamAssumption ==
  U64Max \in Nat /\ Capacity \in Nat \ {0} /\ Batches \subseteq Seq(Frames)

VARIABLES
  stream, \* stream[s]: the control state of task s
  window, \* the samples the oracle holds
  failed  \* failed[s]: connects of s that failed since the last one that succeeded

vars == <<stream, window, failed>>

Samples == 0 .. U64Max

Oracle == INSTANCE SlidingWindow

MinBackoff == 1   \* 500 ms

MaxBackoff == 60  \* 30 s

\* failed[s] is counted up to here: past it the backoff stays at MaxBackoff.
FailureBound == 8

Init ==
  /\ stream = [s \in Streams |-> [pc |-> "connecting", backoff |-> MinBackoff, queue |-> << >>]]
  /\ Oracle!Init
  /\ failed = [s \in Streams |-> 0]

At(s, pc) == stream[s].pc = pc

Become(s, t) == stream' = [stream EXCEPT ![s] = t]

\* A connect that keeps the backoff where the last failure left it.
ConnectKeepsBackoff(s) ==
  /\ At(s, "connecting")
  /\ Become(s, [stream[s] EXCEPT !.pc = "reading"])
  /\ failed' = [failed EXCEPT ![s] = 0]
  /\ UNCHANGED window

Connect(s) ==
  /\ At(s, "connecting")
  /\ Become(s, [stream[s] EXCEPT !.pc = "reading", !.backoff = MinBackoff])
  /\ failed' = [failed EXCEPT ![s] = 0]
  /\ UNCHANGED window

ConnectFailed(s) ==
  /\ At(s, "connecting")
  /\ Become(s, [stream[s] EXCEPT !.pc = "sleeping"])
  /\ failed' = [failed EXCEPT ![s] = IF @ < FailureBound THEN @ + 1 ELSE @]
  /\ UNCHANGED window

\* A doubling without its ceiling.
WakeUncapped(s) ==
  /\ At(s, "sleeping")
  /\ Become(s, [stream[s] EXCEPT !.pc = "connecting", !.backoff = 2 * @])
  /\ UNCHANGED <<window, failed>>

\* A task that gives up at the ceiling.
WakeGivesUp(s) ==
  /\ At(s, "sleeping") /\ stream[s].backoff < MaxBackoff
  /\ Become(s, [stream[s] EXCEPT !.pc = "connecting", !.backoff = 2 * @])
  /\ UNCHANGED <<window, failed>>

Wake(s) ==
  /\ At(s, "sleeping")
  /\ LET twice == 2 * stream[s].backoff
     IN  Become(s, [stream[s] EXCEPT !.pc = "connecting",
                                     !.backoff = IF twice <= MaxBackoff THEN twice
                                                                        ELSE MaxBackoff])
  /\ UNCHANGED <<window, failed>>

\* ws.next() yields a text that parses.  Every other message, a WebSocket
\* error included, changes nothing.
Receive(s) ==
  /\ At(s, "reading")
  /\ \E batch \in Batches :
       Become(s, [stream[s] EXCEPT
                   !.pc    = "feeding",
                   !.queue = [i \in 1 .. 3 * Len(batch) |->
                               batch[((i - 1) \div 3) + 1][((i - 1) % 3) + 1]]])
  /\ UNCHANGED <<window, failed>>

\* The filter without its tests on the number.
UsableAny(value) == value.kind # "missing"

Usable(value) == value.kind = "finite" /\ value.tenths >= 0

\* `as u64` truncates and saturates; a NaN and a negative number become zero.
AsU64(value) ==
  IF value.kind # "finite" \/ value.tenths < 0 THEN 0
  ELSE IF value.tenths \div 10 <= U64Max THEN value.tenths \div 10 ELSE U64Max

\* One turn of the innermost loop.  The oracle's lock is taken for one sample
\* at a time, so other tasks see and extend a batch half pushed.
Feed(s) ==
  /\ At(s, "feeding") /\ stream[s].queue # << >>
  /\ IF Usable(Head(stream[s].queue)) THEN Oracle!Push(AsU64(Head(stream[s].queue)))
                                      ELSE UNCHANGED window
  /\ Become(s, [stream[s] EXCEPT !.queue = Tail(@)])
  /\ UNCHANGED failed

BatchDone(s) ==
  /\ At(s, "feeding") /\ stream[s].queue = << >>
  /\ Become(s, [stream[s] EXCEPT !.pc = "reading"])
  /\ UNCHANGED <<window, failed>>

\* ws.next() yields None: the connection is over.
Disconnect(s) ==
  /\ At(s, "reading")
  /\ Become(s, [stream[s] EXCEPT !.pc = "connecting"])
  /\ UNCHANGED <<window, failed>>

Step(s) ==
  Connect(s) \/ ConnectFailed(s) \/ Wake(s) \/ Receive(s) \/ Feed(s) \/ BatchDone(s)
    \/ Disconnect(s)

Next == \E s \in Streams : Step(s)

\* The tasks are scheduled for ever: nothing cancels them, as the builder
\* drops the JoinHandle, which detaches a tokio task.  The network and the
\* server owe them nothing, not even the end of a connect, which has no timeout.
Spec ==
  /\ Init /\ [][Next]_vars
  /\ \A s \in Streams : WF_vars(Wake(s)) /\ WF_vars(Feed(s) \/ BatchDone(s))

-----------------------------------------------------------------------------
\* The window keeps to u64 and to its capacity, the backoff to its ceiling.
TypeOK ==
  /\ window \in Seq(Samples) /\ Len(window) <= Capacity
  /\ \A s \in Streams : /\ stream[s].pc \in {"connecting", "sleeping", "reading", "feeding"}
                        /\ stream[s].backoff \in MinBackoff .. MaxBackoff

Published == UNION {{batch[i][j] : i \in DOMAIN batch, j \in 1 .. 3} : batch \in Batches}

\* However the tasks interleave, every sample in the window is the integral
\* part of a finite, non-negative number some batch published: a field that
\* is missing, negative or NaN never turns into a tip of zero.
OnlyPublishedTips ==
  \A i \in DOMAIN window :
    \E value \in Published : /\ value.kind = "finite" /\ value.tenths >= 0
                             /\ \/ window[i] = value.tenths \div 10
                                \/ window[i] = U64Max /\ value.tenths > 10 * U64Max

\* The k-th failed connect in a row is followed by a sleep of 2^(k-1) times
\* 500 ms, up to 30 s; a connect that succeeds starts the count afresh.
SleepDoublesPerFailure ==
  \A s \in Streams :
    At(s, "sleeping") =>
      stream[s].backoff = IF failed[s] > 6 THEN MaxBackoff ELSE 2 ^ (failed[s] - 1)

\* A task never stops trying: whatever the network does, it is over and over
\* either connected or about to connect.
KeepsTrying == \A s \in Streams : []<>(At(s, "connecting") \/ At(s, "reading"))

\* The doc comment of spawn_stream has the task back off when it is
\* disconnected: it does not go straight from a connection to a connect.
BacksOffOnDisconnect ==
  [][\A s \in Streams : At(s, "reading") => stream'[s].pc # "connecting"]_vars

=============================================================================
