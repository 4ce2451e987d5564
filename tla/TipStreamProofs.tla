-------------------------- MODULE TipStreamProofs --------------------------
(***************************************************************************)
(* Proofs about the stream tasks, for any number of them, any batches and  *)
(* any capacity of the oracle they feed.                                   *)
(***************************************************************************)
EXTENDS TipStream, SequenceTheorems, TLAPS

\* What is still to be fed was published.
StreamType == [ pc      : {"connecting", "sleeping", "reading", "feeding"},
                backoff : MinBackoff .. MaxBackoff,
                queue   : Seq(Published) ]

\* The number a sample was published as.
TipOf(value, lamports) ==
  /\ value.kind = "finite" /\ value.tenths >= 0
  /\ \/ lamports = value.tenths \div 10
     \/ lamports = U64Max /\ value.tenths > 10 * U64Max

\* The k-th value of 1, 2, 4, 8, 16, 32, 60, 60, ..., counted from zero.
Doubled(k) == IF k > 5 THEN MaxBackoff ELSE 2 ^ k

\* The backoff counts the connects that failed in a row: before the sleep that
\* follows a failure it lags one behind the count, after it the two agree.
BackoffOK(pc, backoff, count) ==
  /\ pc \in {"reading", "feeding"} => count = 0 /\ backoff = MinBackoff
  /\ pc = "connecting" => backoff = Doubled(count)
  /\ pc = "sleeping" => count > 0 /\ backoff = Doubled(count - 1)

StreamOK(t, count) ==
  t \in StreamType /\ count \in 0 .. FailureBound /\ BackoffOK(t.pc, t.backoff, count)

WindowOK ==
  /\ window \in Seq(Samples) /\ Len(window) <= Capacity
  /\ \A i \in DOMAIN window : \E value \in Published : TipOf(value, window[i])

StreamInv ==
  /\ DOMAIN stream = Streams /\ DOMAIN failed = Streams
  /\ stream = [s \in Streams |-> stream[s]] /\ failed = [s \in Streams |-> failed[s]]
  /\ \A s \in Streams : StreamOK(stream[s], failed[s])
  /\ WindowOK

-----------------------------------------------------------------------------
(***************************************************************************)
(* The backoff.                                                            *)
(***************************************************************************)

\* The ladder of delays.
LEMMA Ladder ==
  /\ Doubled(0) = 1 /\ Doubled(1) = 2 /\ Doubled(2) = 4 /\ Doubled(3) = 8
  /\ Doubled(4) = 16 /\ Doubled(5) = 32
  /\ \A k \in Nat : k > 5 => Doubled(k) = 60
BY DEF Doubled, MaxBackoff

\* One rung up is twice as long, and no longer than the ceiling.
LEMMA NextRung ==
  ASSUME NEW k \in 0 .. FailureBound
  PROVE  /\ Doubled(k) \in MinBackoff .. MaxBackoff
         /\ Doubled(k + 1) = IF 2 * Doubled(k) <= MaxBackoff THEN 2 * Doubled(k)
                                                             ELSE MaxBackoff
<1>1. k \in {0, 1, 2, 3, 4, 5, 6, 7, 8}
  BY DEF FailureBound
<1> QED BY <1>1, Ladder DEF MinBackoff, MaxBackoff

-----------------------------------------------------------------------------
(***************************************************************************)
(* The values of a batch.                                                  *)
(***************************************************************************)

\* A field of a frame of a batch is a value.
LEMMA PublishedValues == Published \subseteq Values
BY StreamAssumption DEF Published, Frames

\* Flattening a batch reaches the fields of its frames and no other index.
LEMMA FlattenedBatch ==
  ASSUME NEW batch \in Batches
  PROVE  [i \in 1 .. 3 * Len(batch) |-> batch[((i - 1) \div 3) + 1][((i - 1) % 3) + 1]]
           \in Seq(Published)
<1> DEFINE n == Len(batch)
           queue == [i \in 1 .. 3 * n |-> batch[((i - 1) \div 3) + 1][((i - 1) % 3) + 1]]
<1>1. batch \in Seq(Frames) /\ n \in Nat /\ DOMAIN batch = 1 .. n
  BY StreamAssumption, LenProperties
<1> HIDE DEF n
<1>2. ASSUME NEW i \in 1 .. 3 * n
      PROVE  batch[((i - 1) \div 3) + 1][((i - 1) % 3) + 1] \in Published
  <2> DEFINE frame == ((i - 1) \div 3) + 1
             field == ((i - 1) % 3) + 1
  <2>1. frame \in 1 .. n /\ field \in 1 .. 3
    BY <1>1
  <2> HIDE DEF frame, field
  <2>2. batch[frame][field] \in Published
    BY <1>1, <2>1 DEF Published
  <2> QED BY <2>2 DEF frame, field
<1>3. queue \in [1 .. 3 * n -> Published]
  BY <1>2
<1>4. 3 * n \in Nat
  BY <1>1
<1> HIDE DEF queue
<1>5. queue \in Seq(Published)
  BY <1>3, <1>4, SeqDef
<1> QED BY <1>5 DEF queue, n

\* What passes the filter and is cast is a sample, and the tip it was
\* published as: in particular a saturated one stands for a larger number.
LEMMA CastTip ==
  ASSUME NEW value \in Values, Usable(value)
  PROVE  AsU64(value) \in Samples /\ TipOf(value, AsU64(value))
<1>1. value.kind = "finite" /\ value.tenths \in Int /\ value.tenths >= 0
  BY DEF Usable, Values
<1>2. AsU64(value) = IF value.tenths \div 10 <= U64Max THEN value.tenths \div 10 ELSE U64Max
  BY <1>1 DEF AsU64
<1> QED BY <1>1, <1>2, StreamAssumption DEF Samples, TipOf

-----------------------------------------------------------------------------
(***************************************************************************)
(* The window.                                                             *)
(***************************************************************************)

\* A push of a published tip keeps the window to its capacity and to what was
\* published.
LEMMA PushWindow ==
  ASSUME WindowOK, NEW value \in Published, NEW lamports \in Samples, TipOf(value, lamports),
         Oracle!Push(lamports)
  PROVE  WindowOK'
<1> DEFINE kept == IF Len(window) < Capacity THEN window ELSE Tail(window)
           Tip(l) == \E v \in Published : TipOf(v, l)
<1>1. /\ window \in Seq(Samples) /\ Len(window) <= Capacity /\ Len(window) \in Nat
      /\ DOMAIN window = 1 .. Len(window)
      /\ \A i \in 1 .. Len(window) : Tip(window[i])
  BY LenProperties DEF WindowOK
<1>2. window' = Append(kept, lamports) /\ Tip(lamports)
  BY DEF Oracle!Push
<1> HIDE DEF Tip
<1>3. /\ kept \in Seq(Samples) /\ Len(kept) \in Nat /\ Len(kept) < Capacity
      /\ \A i \in 1 .. Len(kept) : Tip(kept[i])
  <2>1. CASE Len(window) < Capacity
    BY <1>1, <2>1
  <2>2. CASE ~(Len(window) < Capacity)
    <3>1. kept = Tail(window) /\ window # << >> /\ Len(window) = Capacity
      <4>1. Len(window) = Capacity /\ Len(window) # 0
        <5>1. Len(window) \in Nat /\ Len(window) <= Capacity /\ ~(Len(window) < Capacity)
          BY <1>1, <2>2
        <5> HIDE DEF kept
        <5> QED BY <5>1, StreamAssumption
      <4>2. kept = Tail(window)
        BY <2>2
      <4> QED BY <1>1, <4>1, <4>2, EmptySeq
    <3>2. /\ Tail(window) \in Seq(Samples) /\ Len(Tail(window)) = Len(window) - 1
          /\ \A i \in 1 .. Len(Tail(window)) : Tail(window)[i] = window[i + 1]
      BY <1>1, <3>1, HeadTailProperties
    <3> QED BY <1>1, <3>1, <3>2, StreamAssumption
  <2> QED BY <2>1, <2>2
<1> HIDE DEF kept
<1>4. /\ window' \in Seq(Samples) /\ Len(window') = Len(kept) + 1
      /\ \A i \in 1 .. Len(kept) : window'[i] = kept[i]
      /\ window'[Len(kept) + 1] = lamports
  BY <1>2, <1>3, AppendProperties
<1>5. Len(window') <= Capacity /\ DOMAIN window' = 1 .. Len(kept) + 1
  BY <1>3, <1>4, StreamAssumption, LenProperties
<1>6. ASSUME NEW i \in DOMAIN window' PROVE Tip(window'[i])
  BY <1>2, <1>3, <1>4, <1>5
<1> QED BY <1>4, <1>5, <1>6 DEF WindowOK, Tip

-----------------------------------------------------------------------------
(***************************************************************************)
(* The invariant.                                                          *)
(***************************************************************************)

\* It holds at first.
LEMMA StreamInit == Init => StreamInv
<1> SUFFICES ASSUME Init PROVE StreamInv
  OBVIOUS
<1>1. window = << >> /\ WindowOK
  BY StreamAssumption, EmptySeq DEF Init, Oracle!Init, WindowOK
<1>2. ASSUME NEW s \in Streams PROVE StreamOK(stream[s], failed[s])
  <2> DEFINE t == [pc |-> "connecting", backoff |-> MinBackoff, queue |-> << >>]
  <2>1. stream[s] = t /\ failed[s] = 0
    BY DEF Init
  <2>2. t \in StreamType
    BY EmptySeq DEF StreamType, MinBackoff, MaxBackoff
  <2> QED BY <2>1, <2>2, Ladder DEF StreamOK, BackoffOK, MinBackoff, FailureBound
<1> QED BY <1>1, <1>2 DEF Init, StreamInv

\* A step of one task disturbs that task and its count only.
LEMMA TaskStep ==
  ASSUME StreamInv, NEW s \in Streams, NEW t, NEW count,
         Become(s, t), failed' = [failed EXCEPT ![s] = count],
         StreamOK(t, count), WindowOK'
  PROVE  StreamInv'
<1>1. /\ stream' = [stream EXCEPT ![s] = t] /\ DOMAIN stream = Streams
      /\ failed' = [failed EXCEPT ![s] = count] /\ DOMAIN failed = Streams
  BY DEF StreamInv, Become
<1>2. DOMAIN stream' = Streams /\ DOMAIN failed' = Streams
  BY <1>1
<1>3. stream' = [q \in Streams |-> stream'[q]] /\ failed' = [q \in Streams |-> failed'[q]]
  BY <1>1
<1>4. ASSUME NEW q \in Streams PROVE StreamOK(stream'[q], failed'[q])
  <2>1. CASE q = s
    BY <1>1, <2>1
  <2>2. CASE q # s
    BY <1>1, <2>2 DEF StreamInv
  <2> QED BY <2>1, <2>2
<1> QED BY <1>2, <1>3, <1>4 DEF StreamInv

\* Every step of every task preserves it.
LEMMA StreamStep == StreamInv /\ [Next]_vars => StreamInv'
<1> SUFFICES ASSUME StreamInv, [Next]_vars PROVE StreamInv'
  OBVIOUS
<1>1. CASE UNCHANGED vars
  BY <1>1 DEF vars, StreamInv, StreamOK, WindowOK
<1>2. ASSUME NEW s \in Streams, Step(s) PROVE StreamInv'
  <2> DEFINE old == stream[s]
             count == failed[s]
  <2>1. /\ old \in StreamType /\ count \in 0 .. FailureBound
        /\ BackoffOK(old.pc, old.backoff, count) /\ WindowOK
        /\ DOMAIN stream = Streams /\ DOMAIN failed = Streams
        /\ failed = [q \in Streams |-> failed[q]]
    BY DEF StreamInv, StreamOK
  <2>2. failed = [failed EXCEPT ![s] = count]
    BY <2>1
  <2>3. UNCHANGED window => WindowOK'
    BY <2>1 DEF WindowOK
  <2> HIDE DEF old, count
  <2>4. CASE Connect(s)
    <3> DEFINE t == [old EXCEPT !.pc = "reading", !.backoff = MinBackoff]
    <3>1. Become(s, t) /\ failed' = [failed EXCEPT ![s] = 0] /\ WindowOK'
      BY <2>3, <2>4 DEF Connect, old
    <3>2. t \in StreamType /\ t.pc = "reading" /\ t.backoff = MinBackoff
      <4>1. MinBackoff \in MinBackoff .. MaxBackoff
        BY DEF MinBackoff, MaxBackoff
      <4> QED BY <2>1, <4>1 DEF StreamType
    <3> HIDE DEF t
    <3>3. StreamOK(t, 0)
      BY <3>2 DEF StreamOK, BackoffOK, FailureBound
    <3> QED BY <3>1, <3>3, TaskStep
  <2>5. CASE ConnectFailed(s)
    <3> DEFINE t == [old EXCEPT !.pc = "sleeping"]
               up == IF count < FailureBound THEN count + 1 ELSE count
    <3>1. Become(s, t) /\ failed' = [failed EXCEPT ![s] = up] /\ WindowOK'
      BY <2>3, <2>5 DEF ConnectFailed, old, count
    <3>2. old.pc = "connecting" /\ old.backoff = Doubled(count)
      BY <2>1, <2>5 DEF ConnectFailed, At, old, BackoffOK
    <3>3. t \in StreamType /\ t.pc = "sleeping" /\ t.backoff = Doubled(count)
      BY <2>1, <3>2 DEF StreamType
    <3>4. up \in 0 .. FailureBound /\ up > 0 /\ Doubled(count) = Doubled(up - 1)
      <4>1. CASE count < FailureBound
        BY <2>1, <4>1 DEF FailureBound
      <4>2. CASE ~(count < FailureBound)
        BY <2>1, <4>2, Ladder DEF FailureBound
      <4> QED BY <4>1, <4>2
    <3> HIDE DEF t, up
    <3>5. StreamOK(t, up)
      BY <3>3, <3>4 DEF StreamOK, BackoffOK
    <3> QED BY <3>1, <3>5, TaskStep
  <2>6. CASE Wake(s)
    <3> DEFINE b == IF 2 * old.backoff <= MaxBackoff THEN 2 * old.backoff ELSE MaxBackoff
               t == [old EXCEPT !.pc = "connecting", !.backoff = b]
    <3>1. Become(s, t) /\ failed' = [failed EXCEPT ![s] = count] /\ WindowOK'
      BY <2>2, <2>3, <2>6 DEF Wake, old
    <3>2. count > 0 /\ old.backoff = Doubled(count - 1)
      BY <2>1, <2>6 DEF Wake, At, old, BackoffOK
    <3>3. b = Doubled(count) /\ b \in MinBackoff .. MaxBackoff
      <4>1. count - 1 \in 0 .. FailureBound /\ (count - 1) + 1 = count
        BY <2>1, <3>2 DEF FailureBound
      <4>2. Doubled((count - 1) + 1) = b
        BY <3>2, <4>1, NextRung
      <4> QED BY <2>1, <4>1, <4>2, NextRung
    <3> HIDE DEF b
    <3>4. t \in StreamType /\ t.pc = "connecting" /\ t.backoff = b
      BY <2>1, <3>3 DEF StreamType
    <3> HIDE DEF t
    <3>5. StreamOK(t, count)
      BY <2>1, <3>3, <3>4 DEF StreamOK, BackoffOK
    <3> QED BY <3>1, <3>5, TaskStep
  <2>7. CASE Receive(s)
    <3>1. PICK batch \in Batches :
            Become(s, [old EXCEPT
                        !.pc    = "feeding",
                        !.queue = [i \in 1 .. 3 * Len(batch) |->
                                    batch[((i - 1) \div 3) + 1][((i - 1) % 3) + 1]]])
      BY <2>7 DEF Receive, old
    <3> DEFINE queue == [i \in 1 .. 3 * Len(batch) |->
                          batch[((i - 1) \div 3) + 1][((i - 1) % 3) + 1]]
               t == [old EXCEPT !.pc = "feeding", !.queue = queue]
    <3>2. Become(s, t) /\ failed' = [failed EXCEPT ![s] = count] /\ WindowOK'
      BY <2>2, <2>3, <2>7, <3>1 DEF Receive
    <3>3. queue \in Seq(Published)
      BY FlattenedBatch
    <3> HIDE DEF queue
    <3>4. old.pc = "reading"
      BY <2>7 DEF Receive, At, old
    <3>5. t \in StreamType /\ t.pc = "feeding" /\ t.backoff = old.backoff
      BY <2>1, <3>3 DEF StreamType
    <3> HIDE DEF t
    <3>6. StreamOK(t, count)
      BY <2>1, <3>4, <3>5 DEF StreamOK, BackoffOK
    <3> QED BY <3>2, <3>6, TaskStep
  <2>8. CASE Feed(s)
    <3> DEFINE t == [old EXCEPT !.queue = Tail(old.queue)]
    <3>1. old.pc = "feeding" /\ old.queue # << >> /\ old.queue \in Seq(Published)
      BY <2>1, <2>8 DEF Feed, At, old, StreamType
    <3>2. Head(old.queue) \in Published /\ Tail(old.queue) \in Seq(Published)
      BY <3>1, HeadTailProperties
    <3>3. Become(s, t) /\ failed' = [failed EXCEPT ![s] = count]
      BY <2>2, <2>8 DEF Feed, old
    <3>4. WindowOK'
      <4>1. CASE Usable(Head(old.queue))
        <5>1. Oracle!Push(AsU64(Head(old.queue)))
          BY <2>8, <4>1 DEF Feed, old
        <5>2. Head(old.queue) \in Values
          BY <3>2, PublishedValues
        <5> QED BY <2>1, <3>2, <4>1, <5>1, <5>2, CastTip, PushWindow
      <4>2. CASE ~Usable(Head(old.queue))
        BY <2>3, <2>8, <4>2 DEF Feed, old
      <4> QED BY <4>1, <4>2
    <3>5. t \in StreamType /\ t.pc = "feeding" /\ t.backoff = old.backoff
      BY <2>1, <3>1, <3>2 DEF StreamType
    <3> HIDE DEF t
    <3>6. StreamOK(t, count)
      BY <2>1, <3>1, <3>5 DEF StreamOK, BackoffOK
    <3> QED BY <3>3, <3>4, <3>6, TaskStep
  <2>9. CASE BatchDone(s)
    <3> DEFINE t == [old EXCEPT !.pc = "reading"]
    <3>1. Become(s, t) /\ failed' = [failed EXCEPT ![s] = count] /\ WindowOK'
      BY <2>2, <2>3, <2>9 DEF BatchDone, old
    <3>2. old.pc = "feeding"
      BY <2>9 DEF BatchDone, At, old
    <3>3. t \in StreamType /\ t.pc = "reading" /\ t.backoff = old.backoff
      BY <2>1 DEF StreamType
    <3> HIDE DEF t
    <3>4. StreamOK(t, count)
      BY <2>1, <3>2, <3>3 DEF StreamOK, BackoffOK
    <3> QED BY <3>1, <3>4, TaskStep
  <2>10. CASE Disconnect(s)
    <3> DEFINE t == [old EXCEPT !.pc = "connecting"]
    <3>1. Become(s, t) /\ failed' = [failed EXCEPT ![s] = count] /\ WindowOK'
      BY <2>2, <2>3, <2>10 DEF Disconnect, old
    <3>2. old.pc = "reading"
      BY <2>10 DEF Disconnect, At, old
    <3>3. t \in StreamType /\ t.pc = "connecting" /\ t.backoff = old.backoff
      BY <2>1 DEF StreamType
    <3> HIDE DEF t
    <3>4. StreamOK(t, count)
      BY <2>1, <3>2, <3>3, Ladder DEF StreamOK, BackoffOK, MinBackoff
    <3> QED BY <3>1, <3>4, TaskStep
  <2> QED BY <1>2, <2>4, <2>5, <2>6, <2>7, <2>8, <2>9, <2>10 DEF Step
<1> QED BY <1>1, <1>2 DEF Next

\* It holds in every behaviour, fair or not.
LEMMA StreamInvariant == Spec => []StreamInv
<1>1. Spec => Init /\ [][Next]_vars
  BY PTL DEF Spec
<1> QED BY <1>1, StreamInit, StreamStep, PTL

-----------------------------------------------------------------------------
(***************************************************************************)
(* The theorems.                                                           *)
(***************************************************************************)

\* However many tasks feed it, the oracle keeps to u64 and to its capacity,
\* and no backoff leaves its bounds.
THEOREM StreamTypes == Spec => []TypeOK
<1>1. StreamInv => TypeOK
  BY DEF StreamInv, WindowOK, StreamOK, StreamType, TypeOK
<1> QED BY <1>1, StreamInvariant, PTL

\* Every sample in the window is the integral part of a finite, non-negative
\* number of some batch, or a saturated u64 that stands for a larger one.
THEOREM TipsArePublished == Spec => []OnlyPublishedTips
<1>1. StreamInv => OnlyPublishedTips
  BY DEF StreamInv, WindowOK, TipOf, OnlyPublishedTips
<1> QED BY <1>1, StreamInvariant, PTL

\* The sleep after the k-th failure in a row doubles with k up to 30 s, and
\* starts afresh after a connect.
THEOREM SleepsDouble == Spec => []SleepDoublesPerFailure
<1>1. StreamInv => SleepDoublesPerFailure
  <2> SUFFICES ASSUME StreamInv, NEW s \in Streams, stream[s].pc = "sleeping"
               PROVE  stream[s].backoff = IF failed[s] > 6 THEN MaxBackoff
                                                           ELSE 2 ^ (failed[s] - 1)
    BY DEF SleepDoublesPerFailure, At
  <2>1. failed[s] \in 1 .. FailureBound /\ stream[s].backoff = Doubled(failed[s] - 1)
    BY DEF StreamInv, StreamOK, BackoffOK, FailureBound
  <2> QED BY <2>1 DEF Doubled
<1> QED BY <1>1, StreamInvariant, PTL

\* To the oracle any number of tasks is one stream of pushes: every step of a
\* behaviour pushes one sample or leaves the window alone.
THEOREM FeedsAreWindow == Spec => Oracle!Spec
<1>1. Init => Oracle!Init
  BY DEF Init
<1>2. StreamInv /\ [Next]_vars => [Oracle!Next]_window
  <2> SUFFICES ASSUME StreamInv, [Next]_vars PROVE [Oracle!Next]_window
    OBVIOUS
  <2>1. ASSUME NEW s \in Streams, Feed(s) PROVE [Oracle!Next]_window
    <3> DEFINE value == Head(stream[s].queue)
    <3>1. stream[s].queue \in Seq(Published) /\ stream[s].queue # << >>
      BY <2>1 DEF Feed, StreamInv, StreamOK, StreamType
    <3>2. value \in Values
      BY <3>1, HeadTailProperties, PublishedValues
    <3>3. CASE Usable(value)
      <4>1. Oracle!Push(AsU64(value))
        BY <2>1, <3>3 DEF Feed
      <4>2. AsU64(value) \in Samples
        BY <3>2, <3>3, CastTip
      <4> QED BY <4>1, <4>2 DEF Oracle!Next
    <3>4. CASE ~Usable(value)
      BY <2>1, <3>4 DEF Feed
    <3> QED BY <3>3, <3>4
  <2> QED BY <2>1 DEF Next, Step, Connect, ConnectFailed, Wake, Receive, BatchDone, Disconnect, vars
<1>3. Spec => Init /\ [][Next]_vars
  BY PTL DEF Spec
<1> QED BY <1>1, <1>2, <1>3, StreamInvariant, PTL DEF Oracle!Spec

=============================================================================
