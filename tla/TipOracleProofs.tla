-------------------------- MODULE TipOracleProofs --------------------------
(***************************************************************************)
(* The ring buffer of the tip oracle is the sliding window it is meant to  *)
(* be, for any capacity and any samples, whoever pushes, waits and asks.   *)
(***************************************************************************)
EXTENDS TipQuotes, SequenceTheorems, FiniteSetTheorems, TLAPS

ReaderType == [ pc      : {"check", "deadline", "sleep", "report", "ready", "cold"},
                n       : Wanted,
                expired : BOOLEAN,
                samples : 0 .. Capacity ]

\* What a query may look at has been written.
Written == \A i \in Filled : samples[i] \in Samples

OracleInv == TypeOK /\ Written /\ WarmStaysWarm

\* The slot of the i-th oldest sample.
SlotOf(i) ==
  IF filled THEN IF cursor + i - 1 < Capacity THEN cursor + i - 1 ELSE cursor + i - 1 - Capacity
            ELSE i - 1

-----------------------------------------------------------------------------
(***************************************************************************)
(* The ring.                                                               *)
(***************************************************************************)

\* There is a slot for a sample, whatever with_capacity was asked for.
LEMMA CapacityIsPositive == Capacity \in Nat /\ Capacity > 0
BY OracleAssumption DEF Capacity

\* One lap around the buffer at most.
LEMMA Wraps ==
  ASSUME NEW n \in Nat, NEW k \in 0 .. 2 * n - 1
  PROVE  k % n = IF k < n THEN k ELSE k - n
OBVIOUS

\* What a buffer holds, and where.
LEMMA RingShape ==
  ASSUME TypeOK
  PROVE  /\ Held \in 0 .. Capacity /\ cursor \in 0 .. Capacity - 1
         /\ filled \in BOOLEAN
         /\ Filled = 0 .. Held - 1 /\ Filled \subseteq Slots
         /\ filled => Held = Capacity
         /\ ~filled => Held = cursor
         /\ samples \in [Slots -> Samples \cup {0}]
BY CapacityIsPositive DEF TypeOK, Held, Filled, Slots

\* A push writes one slot, the next one until the buffer is full and the
\* oldest one from then on.
LEMMA PushEffects ==
  ASSUME TypeOK, NEW lamports, PushSample(lamports)
  PROVE  /\ samples' = [samples EXCEPT ![cursor] = lamports]
         /\ cursor' = IF cursor + 1 < Capacity THEN cursor + 1 ELSE 0
         /\ filled' \in BOOLEAN /\ (filled' <=> Held + 1 >= Capacity)
         /\ Held' = IF Held < Capacity THEN Held + 1 ELSE Capacity
         /\ warm' = warm
<1>1. /\ samples' = [samples EXCEPT ![cursor] = lamports]
      /\ cursor' = (cursor + 1) % Capacity
      /\ filled' = (filled \/ cursor' = 0)
      /\ warm' = warm
  BY DEF PushSample
<1>2. /\ cursor \in 0 .. Capacity - 1 /\ filled \in BOOLEAN
      /\ filled => Held = Capacity
      /\ ~filled => Held = cursor
  BY RingShape
<1>3. cursor' = IF cursor + 1 < Capacity THEN cursor + 1 ELSE 0
  <2>1. cursor + 1 \in 0 .. 2 * Capacity - 1
    BY <1>2, CapacityIsPositive
  <2>2. (cursor + 1) % Capacity = IF cursor + 1 < Capacity THEN cursor + 1
                                                           ELSE cursor + 1 - Capacity
    BY <1>2, <2>1, CapacityIsPositive, Wraps
  <2> QED BY <1>1, <1>2, <2>2, CapacityIsPositive
<1>4. filled' \in BOOLEAN /\ (filled' <=> Held + 1 >= Capacity)
  <2>1. filled' \in BOOLEAN
    BY <1>1, Zenon
  <2>2. filled' <=> filled \/ cursor' = 0
    BY <1>1, Zenon
  <2>3. cursor' = 0 <=> cursor + 1 >= Capacity
    BY <1>2, <1>3, CapacityIsPositive
  <2>4. CASE filled
    BY <1>2, <2>1, <2>2, <2>4, CapacityIsPositive
  <2>5. CASE ~filled
    BY <1>2, <2>1, <2>2, <2>3, <2>5, CapacityIsPositive
  <2> QED BY <2>4, <2>5
<1>5. Held' = IF Held < Capacity THEN Held + 1 ELSE Capacity
  <2>1. Held' = IF filled' THEN Capacity ELSE cursor'
    BY DEF Held
  <2>2. CASE filled
    <3>1. Held = Capacity /\ filled'
      BY <1>2, <1>4, <2>2, CapacityIsPositive
    <3> QED BY <2>1, <3>1, CapacityIsPositive
  <2>3. CASE ~filled
    BY <1>2, <1>3, <1>4, <2>1, <2>3, CapacityIsPositive
  <2> QED BY <2>2, <2>3
<1> QED BY <1>1, <1>3, <1>4, <1>5

\* The slots filled after a push are those before it and the one it wrote.
LEMMA PushFills ==
  ASSUME TypeOK, NEW lamports, PushSample(lamports)
  PROVE  /\ Filled' = Filled \cup {cursor}
         /\ cursor \notin Filled <=> Held < Capacity
         /\ \A i \in Filled' : samples'[i] = IF i = cursor THEN lamports ELSE samples[i]
<1>1. /\ Held' = IF Held < Capacity THEN Held + 1 ELSE Capacity
      /\ samples' = [samples EXCEPT ![cursor] = lamports]
  BY PushEffects
<1>2. Filled' = 0 .. Held' - 1
  BY DEF Filled
<1>3. Filled' = Filled \cup {cursor} /\ (cursor \notin Filled <=> Held < Capacity)
  BY <1>1, <1>2, RingShape
<1> QED BY <1>1, <1>3, RingShape DEF Slots

-----------------------------------------------------------------------------
(***************************************************************************)
(* The invariant.                                                          *)
(***************************************************************************)

\* It holds at first: there is nothing in the buffer and nobody is through.
LEMMA OracleInit == Init => OracleInv
<1> SUFFICES ASSUME Init PROVE OracleInv
  OBVIOUS
<1>1. Held = 0 /\ Filled = {}
  BY DEF Init, Held, Filled
<1>2. warm \in [Readers -> ReaderType]
  <2>1. \A n \in Wanted :
          [pc |-> "check", n |-> n, expired |-> FALSE, samples |-> 0] \in ReaderType
    BY CapacityIsPositive DEF ReaderType
  <2> QED BY <2>1 DEF Init
<1>3. TypeOK
  <2>1. 0 \in Slots
    BY CapacityIsPositive DEF Slots
  <2> QED BY <1>2, <2>1 DEF Init, TypeOK, ReaderType
<1>4. WarmStaysWarm
  BY DEF Init, WarmStaysWarm, At
<1> QED BY <1>1, <1>3, <1>4 DEF OracleInv, Written

\* A push keeps to the buffer and never empties it.
LEMMA PushInv ==
  ASSUME OracleInv, NEW lamports \in Samples, PushSample(lamports)
  PROVE  OracleInv'
<1>1. TypeOK /\ Written /\ WarmStaysWarm
  BY DEF OracleInv
<1>2. /\ samples' = [samples EXCEPT ![cursor] = lamports]
      /\ cursor' = IF cursor + 1 < Capacity THEN cursor + 1 ELSE 0
      /\ filled' \in BOOLEAN /\ (filled' <=> Held + 1 >= Capacity)
      /\ Held' = IF Held < Capacity THEN Held + 1 ELSE Capacity
      /\ warm' = warm
  BY <1>1, PushEffects
<1>3. TypeOK'
  <2>1. samples' \in [Slots -> Samples \cup {0}]
    BY <1>1, <1>2 DEF TypeOK
  <2>2. cursor' \in Slots
    BY <1>1, <1>2, RingShape, CapacityIsPositive DEF Slots
  <2> QED BY <1>1, <1>2, <2>1, <2>2 DEF TypeOK, Slots
<1>4. Written'
  BY <1>1, PushFills DEF Written
<1>5. WarmStaysWarm'
  <2> SUFFICES ASSUME NEW r \in Readers, warm[r].pc = "ready"
               PROVE  Held' >= warm[r].n /\ (warm[r].n > 0 => Held' # 0)
    BY <1>2 DEF WarmStaysWarm, At, Cold
  <2>1. Held >= warm[r].n /\ warm[r].n \in Nat
    BY <1>1, OracleAssumption DEF WarmStaysWarm, At, TypeOK
  <2>2. Held \in 0 .. Capacity
    BY <1>1, RingShape
  <2> QED BY <1>2, <2>1, <2>2, CapacityIsPositive
<1> QED BY <1>3, <1>4, <1>5 DEF OracleInv

\* What a step of warmup() makes of its reader.
LEMMA WarmupStep ==
  ASSUME TypeOK, NEW r \in Readers, Warmup(r) \/ TimePasses(r)
  PROVE  /\ UNCHANGED ring
         /\ \E w \in ReaderType : /\ warm' = [warm EXCEPT ![r] = w]
                                  /\ w.n = warm[r].n
                                  /\ w.pc = "ready" => warm[r].pc = "check" /\ Held >= w.n
<1>w. warm \in [Readers -> ReaderType] /\ Held \in 0 .. Capacity
  BY RingShape DEF TypeOK, ReaderType
<1>r. UNCHANGED ring
  BY DEF Warmup, CheckLen, CheckDeadline, ReportCold, SleepOver, TimePasses, Become
<1>1. CASE CheckLen(r)
  <2> DEFINE w == [warm[r] EXCEPT !.pc = IF Held >= warm[r].n THEN "ready" ELSE "deadline"]
  <2>1. w \in ReaderType
    BY <1>w DEF ReaderType
  <2>2. /\ w.n = warm[r].n /\ warm' = [warm EXCEPT ![r] = w]
        /\ w.pc = "ready" => warm[r].pc = "check" /\ Held >= w.n
    BY <1>w, <1>1 DEF CheckLen, Become, At, ReaderType
  <2> QED BY <1>r, <2>1, <2>2
<1>2. CASE CheckDeadline(r)
  <2> DEFINE w == [warm[r] EXCEPT !.pc = IF warm[r].expired THEN "report" ELSE "sleep"]
  <2>1. w \in ReaderType
    BY <1>w DEF ReaderType
  <2>2. /\ w.n = warm[r].n /\ warm' = [warm EXCEPT ![r] = w]
        /\ w.pc = "ready" => warm[r].pc = "check" /\ Held >= w.n
    BY <1>w, <1>2 DEF CheckDeadline, Become, At, ReaderType
  <2> QED BY <1>r, <2>1, <2>2
<1>3. CASE ReportCold(r)
  <2> DEFINE w == [warm[r] EXCEPT !.pc = "cold", !.samples = Held]
  <2>1. w \in ReaderType
    BY <1>w DEF ReaderType
  <2>2. /\ w.n = warm[r].n /\ warm' = [warm EXCEPT ![r] = w]
        /\ w.pc = "ready" => warm[r].pc = "check" /\ Held >= w.n
    BY <1>w, <1>3 DEF ReportCold, Become, At, ReaderType
  <2> QED BY <1>r, <2>1, <2>2
<1>4. CASE SleepOver(r)
  <2> DEFINE w == [warm[r] EXCEPT !.pc = "check"]
  <2>1. w \in ReaderType
    BY <1>w DEF ReaderType
  <2>2. /\ w.n = warm[r].n /\ warm' = [warm EXCEPT ![r] = w]
        /\ w.pc = "ready" => warm[r].pc = "check" /\ Held >= w.n
    BY <1>w, <1>4 DEF SleepOver, Become, At, ReaderType
  <2> QED BY <1>r, <2>1, <2>2
<1>5. CASE TimePasses(r)
  <2> DEFINE w == [warm[r] EXCEPT !.expired = TRUE]
  <2>1. w \in ReaderType
    BY <1>w DEF ReaderType
  <2>2. /\ w.n = warm[r].n /\ warm' = [warm EXCEPT ![r] = w]
        /\ w.pc = "ready" => warm[r].pc = "check" /\ Held >= w.n
    BY <1>w, <1>5 DEF TimePasses, Become, At, ReaderType
  <2> QED BY <1>r, <2>1, <2>2
<1> QED BY <1>r, <1>1, <1>2, <1>3, <1>4, <1>5 DEF Warmup

\* So does a step of warmup(), which is through only with enough samples.
LEMMA WarmupInv ==
  ASSUME OracleInv, NEW r \in Readers, Warmup(r) \/ TimePasses(r)
  PROVE  OracleInv'
<1>1. TypeOK /\ Written /\ WarmStaysWarm /\ UNCHANGED ring
  BY WarmupStep DEF OracleInv
<1>2. samples' = samples /\ cursor' = cursor /\ filled' = filled /\ Held' = Held
  BY <1>1 DEF ring, Held
<1>3. Held \in 0 .. Capacity /\ warm \in [Readers -> ReaderType]
  BY <1>1, RingShape DEF TypeOK, ReaderType
<1>4. PICK w \in ReaderType : /\ warm' = [warm EXCEPT ![r] = w]
                              /\ w.n = warm[r].n
                              /\ w.pc = "ready" => warm[r].pc = "check" /\ Held >= w.n
  BY <1>1, WarmupStep
<1>5. TypeOK' /\ Written'
  <2>1. warm' \in [Readers -> ReaderType]
    BY <1>3, <1>4
  <2> QED BY <1>1, <1>2, <2>1 DEF TypeOK, Written, Filled, ReaderType
<1>6. WarmStaysWarm'
  <2> SUFFICES ASSUME NEW q \in Readers, warm'[q].pc = "ready"
               PROVE  Held >= warm'[q].n /\ (warm'[q].n > 0 => Held # 0)
    BY <1>2 DEF WarmStaysWarm, At, Cold
  <2>1. CASE q = r
    <3>1. warm'[q] = w /\ w.n \in Nat
      BY <1>3, <1>4, <2>1, OracleAssumption DEF ReaderType
    <3> QED BY <1>3, <1>4, <3>1
  <2>2. CASE q # r
    BY <1>1, <1>3, <1>4, <2>2 DEF WarmStaysWarm, At, Cold
  <2> QED BY <2>1, <2>2
<1> QED BY <1>5, <1>6 DEF OracleInv

\* Every step of the oracle and its readers preserves the invariant.
LEMMA OracleStep == OracleInv /\ [Next]_vars => OracleInv'
<1> SUFFICES ASSUME OracleInv, [Next]_vars PROVE OracleInv'
  OBVIOUS
<1>1. CASE UNCHANGED vars
  BY <1>1 DEF vars, OracleInv, TypeOK, Written, Filled, Held, WarmStaysWarm, At, Cold
<1> QED BY <1>1, PushInv, WarmupInv DEF Next

-----------------------------------------------------------------------------
(***************************************************************************)
(* The sliding window.                                                     *)
(***************************************************************************)

\* The window lists the filled slots, the oldest first.
WindowIs ==
  /\ Window \in Seq(Samples)
  /\ Len(Window) = Held
  /\ DOMAIN Window = 1 .. Held
  /\ \A i \in 1 .. Held : SlotOf(i) \in Filled /\ Window[i] = samples[SlotOf(i)]

\* It does.
LEMMA WindowShape == TypeOK /\ Written => WindowIs
<1> SUFFICES ASSUME TypeOK, Written PROVE WindowIs
  OBVIOUS
<1>1. /\ Held \in 0 .. Capacity /\ cursor \in 0 .. Capacity - 1
      /\ Filled = 0 .. Held - 1
      /\ filled => Held = Capacity
      /\ ~filled => Held = cursor
  BY RingShape
<1>2. \A i \in 1 .. Held : SlotOf(i) \in Filled
  BY <1>1, CapacityIsPositive DEF SlotOf
<1>3. Window = [i \in 1 .. Held |-> samples[SlotOf(i)]]
  <2>1. CASE filled
    <3>1. ASSUME NEW i \in 1 .. Capacity PROVE (cursor + i - 1) % Capacity = SlotOf(i)
      <4>1. cursor + i - 1 \in 0 .. 2 * Capacity - 1
        BY <1>1, CapacityIsPositive
      <4> QED BY <1>1, <2>1, <4>1, CapacityIsPositive, Wraps DEF SlotOf
    <3> QED BY <1>1, <2>1, <3>1 DEF Window
  <2>2. CASE ~filled
    BY <1>1, <2>2 DEF Window, SlotOf
  <2> QED BY <2>1, <2>2
<1>4. Window \in [1 .. Held -> Samples]
  BY <1>2, <1>3 DEF Written
<1>5. Window \in Seq(Samples) /\ Len(Window) = Held
  BY <1>1, <1>4, SeqDef
<1> QED BY <1>2, <1>3, <1>5 DEF WindowIs

\* A push into the ring is a push into the window: it appends, and drops the
\* oldest sample once there are as many as the buffer holds, whether or not
\* the cursor wraps.
LEMMA PushSlides ==
  ASSUME OracleInv, NEW lamports \in Samples, PushSample(lamports)
  PROVE  Sliding!Push(lamports)
<1> DEFINE kept   == IF Len(Window) < Capacity THEN Window ELSE Tail(Window)
           pushed == Append(kept, lamports)
<1>1. TypeOK /\ Written /\ TypeOK' /\ Written'
  BY PushInv DEF OracleInv
<1>2. /\ samples' = [samples EXCEPT ![cursor] = lamports]
      /\ cursor' = IF cursor + 1 < Capacity THEN cursor + 1 ELSE 0
      /\ filled' \in BOOLEAN /\ (filled' <=> Held + 1 >= Capacity)
      /\ Held' = IF Held < Capacity THEN Held + 1 ELSE Capacity
  BY <1>1, PushEffects
<1>3. /\ Held \in 0 .. Capacity /\ cursor \in 0 .. Capacity - 1 /\ filled \in BOOLEAN
      /\ filled => Held = Capacity
      /\ ~filled => Held = cursor
      /\ samples \in [Slots -> Samples \cup {0}]
  BY <1>1, RingShape
<1>4. /\ Window \in Seq(Samples) /\ Len(Window) = Held
      /\ \A i \in 1 .. Held : SlotOf(i) \in Filled /\ Window[i] = samples[SlotOf(i)]
  BY <1>1, WindowShape DEF WindowIs
<1>5. /\ Window' \in Seq(Samples) /\ Len(Window') = Held'
      /\ \A i \in 1 .. Held' : SlotOf(i)' \in Filled' /\ Window'[i] = samples'[SlotOf(i)']
  <2>1. WindowIs'
    BY <1>1, WindowShape, PTL
  <2> QED BY <2>1 DEF WindowIs
<1>6. ASSUME NEW i \in 1 .. Held'
      PROVE  Window'[i] = IF SlotOf(i)' = cursor THEN lamports ELSE samples[SlotOf(i)']
  BY <1>1, <1>5, <1>6, PushFills
<1>7. ASSUME NEW i \in Nat, i = Held' PROVE SlotOf(i)' = cursor
  BY <1>2, <1>3, <1>7, CapacityIsPositive DEF SlotOf
<1>8. CASE Held < Capacity
  <2>1. pushed = Append(Window, lamports) /\ Held' = Held + 1
    BY <1>2, <1>4, <1>8
  <2> HIDE DEF pushed
  <2>2. /\ pushed \in Seq(Samples) /\ Len(pushed) = Held + 1
        /\ \A i \in 1 .. Held : pushed[i] = Window[i]
        /\ pushed[Held + 1] = lamports
    BY <1>4, <2>1, AppendProperties
  <2>3. ASSUME NEW i \in 1 .. Held PROVE SlotOf(i)' = SlotOf(i) /\ SlotOf(i) # cursor
    BY <1>2, <1>3, <1>8, CapacityIsPositive DEF SlotOf
  <2>4. ASSUME NEW i \in 1 .. Held' PROVE Window'[i] = pushed[i]
    <3>1. CASE i = Held'
      BY <1>3, <1>6, <1>7, <2>1, <2>2, <3>1
    <3>2. CASE i # Held'
      BY <1>3, <1>4, <1>6, <2>1, <2>2, <2>3, <3>2
    <3> QED BY <3>1, <3>2
  <2>5. Window' = pushed
    BY <1>5, <2>1, <2>2, <2>4, SeqEqual
  <2> QED BY <1>4, <1>8, <2>5 DEF Sliding!Push, pushed
<1>9. CASE Held = Capacity
  <2>1. pushed = Append(Tail(Window), lamports) /\ Held' = Held /\ filled'
    BY <1>2, <1>4, <1>9, CapacityIsPositive
  <2> HIDE DEF pushed
  <2>2. filled
    BY <1>3, <1>9
  <2>3. Window # << >>
    BY <1>4, <1>9, CapacityIsPositive
  <2>4. /\ Tail(Window) \in Seq(Samples) /\ Len(Tail(Window)) = Held - 1
        /\ \A i \in 1 .. Held - 1 : Tail(Window)[i] = Window[i + 1]
    BY <1>4, <2>3, HeadTailProperties
  <2>5. /\ pushed \in Seq(Samples) /\ Len(pushed) = Held
        /\ \A i \in 1 .. Held - 1 : pushed[i] = Window[i + 1]
        /\ pushed[Held] = lamports
    BY <1>3, <2>1, <2>4, AppendProperties
  <2>6. ASSUME NEW i \in 1 .. Held - 1
        PROVE  SlotOf(i)' = SlotOf(i + 1) /\ SlotOf(i + 1) # cursor
    BY <1>2, <1>3, <1>9, <2>1, <2>2, CapacityIsPositive DEF SlotOf
  <2>7. ASSUME NEW i \in 1 .. Held' PROVE Window'[i] = pushed[i]
    <3>1. CASE i = Held'
      BY <1>3, <1>6, <1>7, <2>1, <2>5, <3>1
    <3>2. CASE i # Held'
      <4>1. i \in 1 .. Held - 1 /\ i + 1 \in 1 .. Held
        BY <1>3, <2>1, <3>2
      <4> QED BY <1>4, <1>6, <2>5, <2>6, <4>1
    <3> QED BY <3>1, <3>2
  <2>8. Window' = pushed
    BY <1>5, <2>1, <2>5, <2>7, SeqEqual
  <2> QED BY <1>4, <1>9, <2>8 DEF Sliding!Push, pushed
<1> QED BY <1>3, <1>8, <1>9, CapacityIsPositive

\* An empty buffer is an empty window.
LEMMA StartsEmpty == Init => Sliding!Init
<1> SUFFICES ASSUME Init PROVE Window = << >>
  BY DEF Sliding!Init
<1>1. Held = 0 /\ TypeOK /\ Written
  BY OracleInit DEF Init, Held, OracleInv
<1> QED BY <1>1, WindowShape, EmptySeq DEF WindowIs

\* Every step of the oracle and its readers is one of the window.
LEMMA StepSlides == OracleInv /\ [Next]_vars => [Sliding!Next]_Window
<1> SUFFICES ASSUME OracleInv, [Next]_vars PROVE [Sliding!Next]_Window
  OBVIOUS
<1>1. ASSUME NEW lamports \in Samples, PushSample(lamports) PROVE Sliding!Next
  BY <1>1, PushSlides DEF Sliding!Next
<1>2. ASSUME UNCHANGED ring PROVE Window' = Window
  BY <1>2 DEF ring, Window
<1>3. ASSUME NEW r \in Readers, Warmup(r) \/ TimePasses(r) PROVE UNCHANGED ring
  BY <1>3, WarmupStep DEF OracleInv
<1>4. ASSUME UNCHANGED vars PROVE UNCHANGED ring
  BY <1>4 DEF vars, ring
<1> QED BY <1>1, <1>2, <1>3, <1>4 DEF Next

-----------------------------------------------------------------------------
(***************************************************************************)
(* The sorted snapshot.                                                    *)
(***************************************************************************)

\* The filled slots are finitely many numbers, and so are any of them.
LEMMA FilledCounts ==
  ASSUME TypeOK
  PROVE  /\ IsFiniteSet(Filled) /\ Cardinality(Filled) = Held
         /\ \A T \in SUBSET Filled :
              IsFiniteSet(T) /\ Cardinality(T) \in 0 .. Held
<1>1. Held \in Nat /\ Filled = 0 .. Held - 1
  BY RingShape
<1>2. IsFiniteSet(Filled) /\ Cardinality(Filled) = Held
  BY <1>1, FS_Interval
<1>3. ASSUME NEW T \in SUBSET Filled PROVE IsFiniteSet(T) /\ Cardinality(T) \in 0 .. Held
  <2>1. IsFiniteSet(T) /\ Cardinality(T) <= Held
    BY <1>2, FS_Subset
  <2>2. Cardinality(T) \in Nat
    BY <2>1, FS_CardinalityType
  <2> QED BY <1>1, <2>1, <2>2
<1> QED BY <1>2, <1>3

\* What is compared are numbers.
LEMMA NumbersHeld ==
  ASSUME TypeOK, Written
  PROVE  \A i \in Filled : i \in Nat /\ samples[i] \in Nat
<1>1. \A i \in Filled : i \in Nat
  BY RingShape
<1>2. \A i \in Filled : samples[i] \in Nat
  BY OracleAssumption DEF Written
<1> QED BY <1>1, <1>2

\* Of two slots that hold samples, one comes before the other.
LEMMA SlotsAreOrdered ==
  ASSUME TypeOK, Written, NEW i \in Filled, NEW j \in Filled
  PROVE  /\ i # j => Before(i, j) \/ Before(j, i)
         /\ ~Before(i, i)
         /\ \A k \in Filled : Before(k, i) /\ Before(i, j) => Before(k, j)
BY NumbersHeld DEF Before

\* So no two slots have the same place.
LEMMA PlacesDiffer ==
  ASSUME TypeOK, Written, NEW i \in Filled, NEW j \in Filled, Before(i, j)
  PROVE  Place(Filled, i) < Place(Filled, j)
<1> DEFINE I == {k \in Filled : Before(k, i)}
           J == {k \in Filled : Before(k, j)}
<1>1. I \subseteq J \ {i} /\ i \in J /\ J \subseteq Filled
  BY SlotsAreOrdered
<1>2. IsFiniteSet(J) /\ Cardinality(J) \in Nat
  BY <1>1, FilledCounts
<1> HIDE DEF I, J
<1>3. IsFiniteSet(J \ {i}) /\ Cardinality(J \ {i}) = Cardinality(J) - 1
  BY <1>1, <1>2, FS_RemoveElement
<1>4. Cardinality(I) <= Cardinality(J) - 1 /\ Cardinality(I) \in Nat
  BY <1>1, <1>3, FS_Subset, FS_CardinalityType
<1>5. Cardinality(I) < Cardinality(J)
  BY <1>2, <1>4
<1> QED BY <1>5 DEF Place, I, J

\* Every place is somebody's: a sorted snapshot has a sample at every index,
\* and it is that of a slot with so many before it.
LEMMA SnapshotShape ==
  ASSUME TypeOK, Written, NEW k \in Filled
  PROVE  \E i \in Filled : Place(Filled, i) = k /\ Snapshot[k] = samples[i]
<1>1. Held \in Nat /\ Filled = 0 .. Held - 1
  BY RingShape
<1>2. ASSUME NEW i \in Filled PROVE Place(Filled, i) \in Filled
  <2> DEFINE I == {j \in Filled : Before(j, i)}
  <2>1. I \subseteq Filled \ {i}
    BY SlotsAreOrdered
  <2> HIDE DEF I
  <2>2. IsFiniteSet(Filled \ {i}) /\ Cardinality(Filled \ {i}) = Held - 1
    BY FilledCounts, FS_RemoveElement
  <2>3. Cardinality(I) <= Held - 1 /\ Cardinality(I) \in Nat
    BY <2>1, <2>2, FS_Subset, FS_CardinalityType
  <2> QED BY <1>1, <2>3 DEF I, Place
<1>3. \E i \in Filled : Place(Filled, i) = k
  <2> SUFFICES ASSUME \A i \in Filled : Place(Filled, i) # k PROVE FALSE
    OBVIOUS
  <2> DEFINE f == [i \in Filled |-> Place(Filled, i)]
  <2>1. f \in [Filled -> Filled \ {k}]
    BY <1>2
  <2>2. \A i \in Filled : f[i] = Place(Filled, i)
    OBVIOUS
  <2> HIDE DEF f
  <2>3. /\ IsFiniteSet(Filled) /\ IsFiniteSet(Filled \ {k})
        /\ Cardinality(Filled \ {k}) < Cardinality(Filled)
    <3>1. IsFiniteSet(Filled) /\ Cardinality(Filled) = Held
      BY FilledCounts
    <3>2. IsFiniteSet(Filled \ {k}) /\ Cardinality(Filled \ {k}) = Held - 1
      BY <3>1, FS_RemoveElement
    <3> QED BY <1>1, <3>1, <3>2
  <2>4. PICK i \in Filled, j \in Filled : i # j /\ f[i] = f[j]
    BY <2>1, <2>3, FS_PigeonHole
  <2>5. Place(Filled, i) = Place(Filled, j) /\ Place(Filled, i) \in Int
    BY <1>1, <1>2, <2>2, <2>4
  <2>6. Before(i, j) \/ Before(j, i)
    BY <2>4, SlotsAreOrdered
  <2>7. Place(Filled, i) < Place(Filled, j) \/ Place(Filled, j) < Place(Filled, i)
    BY <2>6, PlacesDiffer
  <2> QED BY <2>5, <2>7
<1>4. Snapshot = [n \in 0 .. Held - 1 |-> samples[CHOOSE i \in Filled : Place(Filled, i) = n]]
  BY FilledCounts DEF Snapshot, Sorted
<1> QED BY <1>1, <1>3, <1>4

\* The samples below an amount, by the slots they are in.
Under(amount) == {i \in Filled : samples[i] < amount}

\* The sample at an index of the snapshot is one of those in the buffer; no
\* more samples are below it than its index says, and with it there are more.
LEMMA SnapshotRank ==
  ASSUME TypeOK, Written, NEW k \in Filled
  PROVE  \E i \in Filled :
           /\ Snapshot[k] = samples[i]
           /\ Cardinality(Under(samples[i])) <= k
           /\ k < Cardinality(Under(samples[i] + 1))
<1>1. PICK i \in Filled : Place(Filled, i) = k /\ Snapshot[k] = samples[i]
  BY SnapshotShape
<1> DEFINE I == {j \in Filled : Before(j, i)}
<1>2. \A j \in Filled : samples[j] \in Int
  BY NumbersHeld
<1>3. Under(samples[i]) \subseteq I /\ I \cup {i} \subseteq Under(samples[i] + 1) /\ i \notin I
  BY <1>2, SlotsAreOrdered DEF Under, Before
<1>4. /\ I \subseteq Filled /\ Cardinality(I) = k
      /\ Under(samples[i] + 1) \subseteq Filled
  BY <1>1 DEF Place, Under
<1> HIDE DEF I
<1>5. IsFiniteSet(I) /\ k \in Nat
  BY <1>4, FilledCounts, RingShape
<1>6. Cardinality(Under(samples[i])) <= k
  BY <1>3, <1>4, <1>5, FS_Subset
<1>7. Cardinality(I \cup {i}) = k + 1
  BY <1>3, <1>4, <1>5, FS_AddElement
<1>8. k + 1 <= Cardinality(Under(samples[i] + 1))
  <2>1. IsFiniteSet(Under(samples[i] + 1))
    BY <1>4, FilledCounts
  <2> QED BY <1>3, <1>7, <2>1, FS_Subset
<1>9. Cardinality(Under(samples[i] + 1)) \in Nat
  BY <1>4, FilledCounts, RingShape
<1>10. k < Cardinality(Under(samples[i] + 1))
  BY <1>5, <1>8, <1>9
<1> QED BY <1>1, <1>6, <1>10

-----------------------------------------------------------------------------
(***************************************************************************)
(* Percentiles.                                                            *)
(***************************************************************************)

\* An amount of the buffer has at most as many samples below it as a larger
\* one.
LEMMA UnderGrows ==
  ASSUME TypeOK, Written
  PROVE  /\ \A a : Under(a) \subseteq Filled /\ Cardinality(Under(a)) \in 0 .. Held
         /\ \A a, b \in Int : a <= b => Cardinality(Under(a)) <= Cardinality(Under(b))
<1>1. \A a : Under(a) \subseteq Filled
  BY DEF Under
<1>2. \A a : IsFiniteSet(Under(a)) /\ Cardinality(Under(a)) \in 0 .. Held
  BY <1>1, FilledCounts
<1>3. ASSUME NEW a \in Int, NEW b \in Int, a <= b
      PROVE  Cardinality(Under(a)) <= Cardinality(Under(b))
  <2>1. Under(a) \subseteq Under(b)
    BY <1>3, NumbersHeld DEF Under
  <2> QED BY <1>2, <2>1, FS_Subset
<1> QED BY <1>1, <1>2, <1>3

\* The rounded index, of m + 1 samples.
Index(m, c) == (2 * m * c + 100) \div 200

\* It lies within the snapshot, is off by half a sample, and grows with the
\* percentile.
LEMMA IndexBounds ==
  ASSUME NEW m \in Nat, NEW c \in 0 .. 100
  PROVE  /\ Index(m, c) \in 0 .. m
         /\ 200 * Index(m, c) <= 2 * m * c + 100
         /\ 2 * m * c + 100 < 200 * Index(m, c) + 200
         /\ \A d \in 0 .. 100 : c <= d => Index(m, c) <= Index(m, d)
<1> DEFINE x(d) == 2 * m * d + 100
<1>1. ASSUME NEW d \in 0 .. 100 PROVE x(d) \in Nat /\ x(d) <= 200 * m + 100
  <2>1. m * d \in Nat /\ m * d <= 100 * m
    OBVIOUS
  <2> QED BY <2>1
<1>2. ASSUME NEW d \in 0 .. 100, c <= d PROVE x(c) <= x(d)
  <2>1. m * c \in Nat /\ m * d \in Nat /\ m * c <= m * d
    BY <1>2
  <2> QED BY <2>1
<1> HIDE DEF x
<1>3. ASSUME NEW y \in Nat
      PROVE  y \div 200 \in Nat /\ 200 * (y \div 200) <= y /\ y < 200 * (y \div 200) + 200
  OBVIOUS
<1>4. \A d \in 0 .. 100 : Index(m, d) = x(d) \div 200
  BY DEF Index, x
<1>5. /\ Index(m, c) \in Nat /\ 200 * Index(m, c) <= x(c) /\ x(c) < 200 * Index(m, c) + 200
  BY <1>1, <1>3, <1>4
<1>6. Index(m, c) <= m
  BY <1>1, <1>5
<1>7. ASSUME NEW d \in 0 .. 100, c <= d PROVE Index(m, c) <= Index(m, d)
  <2>1. Index(m, d) \in Nat /\ x(d) < 200 * Index(m, d) + 200
    BY <1>1, <1>3, <1>4
  <2> QED BY <1>1, <1>2, <1>5, <1>7, <2>1
<1> QED BY <1>5, <1>6, <1>7 DEF x

\* A percentile is a sample of that index.
LEMMA PercentileIs ==
  ASSUME TypeOK, Written, ~Cold, NEW p \in Int
  PROVE  /\ Clamp(p) \in 0 .. 100
         /\ PercentileIndex(p) = Index(Held - 1, Clamp(p))
         /\ PercentileIndex(p) \in 0 .. Held - 1
         /\ \E i \in Filled : Percentile(p) = samples[i]
         /\ Cardinality(Under(Percentile(p))) <= PercentileIndex(p)
         /\ PercentileIndex(p) < Cardinality(Under(Percentile(p) + 1))
<1>1. Held - 1 \in Nat /\ Filled = 0 .. Held - 1
  BY RingShape DEF Cold
<1>2. Clamp(p) \in 0 .. 100
  BY DEF Clamp
<1>3. PercentileIndex(p) = Index(Held - 1, Clamp(p))
  BY DEF PercentileIndex, Index
<1>4. PercentileIndex(p) \in Filled
  BY <1>1, <1>2, <1>3, IndexBounds
<1>5. Percentile(p) = Snapshot[PercentileIndex(p)]
  BY <1>1, <1>4 DEF Percentile
<1> QED BY <1>1, <1>2, <1>3, <1>4, <1>5, SnapshotRank

\* The window is a rotation of the buffer: it has as many samples of any kind.
LEMMA RotationCounts ==
  ASSUME TypeOK, Written, NEW T \in SUBSET Filled
  PROVE  /\ IsFiniteSet({i \in 1 .. Held : SlotOf(i) \in T})
         /\ Cardinality({i \in 1 .. Held : SlotOf(i) \in T}) = Cardinality(T)
<1> DEFINE S == {i \in 1 .. Held : SlotOf(i) \in T}
           f == [i \in S |-> SlotOf(i)]
<1>1. /\ Held \in 0 .. Capacity /\ cursor \in 0 .. Capacity - 1
      /\ filled \in BOOLEAN
      /\ Filled = 0 .. Held - 1
      /\ filled => Held = Capacity
      /\ ~filled => Held = cursor
  BY RingShape
<1>2. ASSUME NEW i \in 1 .. Held, NEW j \in 1 .. Held, SlotOf(i) = SlotOf(j)
      PROVE  i = j
  BY <1>1, <1>2, CapacityIsPositive DEF SlotOf
<1>3. ASSUME NEW t \in T PROVE \E i \in S : SlotOf(i) = t
  <2>1. t \in 0 .. Held - 1
    BY <1>1
  <2>2. CASE ~filled
    <3>1. t + 1 \in 1 .. Held /\ SlotOf(t + 1) = t
      BY <1>1, <2>1, <2>2 DEF SlotOf
    <3> QED BY <3>1
  <2>3. CASE filled /\ t >= cursor
    <3>1. t - cursor + 1 \in 1 .. Held /\ SlotOf(t - cursor + 1) = t
      BY <1>1, <2>1, <2>3 DEF SlotOf
    <3> QED BY <3>1
  <2>4. CASE filled /\ t < cursor
    <3>1. t - cursor + 1 + Capacity \in 1 .. Held /\ SlotOf(t - cursor + 1 + Capacity) = t
      BY <1>1, <2>1, <2>4, CapacityIsPositive DEF SlotOf
    <3> QED BY <3>1
  <2> QED BY <1>1, <2>1, <2>2, <2>3, <2>4
<1>4. f \in [S -> T] /\ \A i \in S : f[i] = SlotOf(i)
  OBVIOUS
<1>5. S \subseteq 1 .. Held /\ IsFiniteSet(1 .. Held)
  BY <1>1, FS_Interval
<1> HIDE DEF S, f
<1>6. IsFiniteSet(S)
  BY <1>5, FS_Subset
<1>7. f \in Injection(S, T)
  BY <1>2, <1>4, <1>5 DEF Injection, IsInjective
<1>8. f \in Surjection(S, T)
  BY <1>3, <1>4 DEF Surjection
<1>9. Cardinality(T) = Cardinality(S)
  BY <1>6, <1>7, <1>8, FS_Surjection
<1> QED BY <1>6, <1>9 DEF S

\* So the counts of the window are those of the buffer.
LEMMA WindowCounts ==
  ASSUME TypeOK, Written
  PROVE  /\ \A a \in Int : Sliding!Below(a) = Cardinality(Under(a))
         /\ \A a \in Int : Cardinality({i \in DOMAIN Window : Window[i] > a}) =
                             Held - Cardinality(Under(a + 1))
<1>1. /\ DOMAIN Window = 1 .. Held
      /\ \A i \in 1 .. Held : SlotOf(i) \in Filled /\ Window[i] = samples[SlotOf(i)]
  BY WindowShape DEF WindowIs
<1>2. ASSUME NEW a \in Int
      PROVE  {i \in DOMAIN Window : Window[i] < a} = {i \in 1 .. Held : SlotOf(i) \in Under(a)}
  BY <1>1 DEF Under
<1>3. ASSUME NEW a \in Int PROVE Sliding!Below(a) = Cardinality(Under(a))
  <2>1. Sliding!Below(a) = Cardinality({i \in DOMAIN Window : Window[i] < a})
    BY DEF Sliding!Below, Sliding!Cardinality, Cardinality
  <2> QED BY <1>2, <2>1, RotationCounts, UnderGrows
<1>4. ASSUME NEW a \in Int
      PROVE  Cardinality({i \in DOMAIN Window : Window[i] > a}) =
               Held - Cardinality(Under(a + 1))
  <2> DEFINE T == Filled \ Under(a + 1)
  <2>1. T \subseteq Filled /\ Filled \cap Under(a + 1) = Under(a + 1)
    BY UnderGrows
  <2>2. \A j \in Filled : j \in T <=> samples[j] > a
    BY NumbersHeld DEF Under
  <2> HIDE DEF T
  <2>3. {i \in DOMAIN Window : Window[i] > a} = {i \in 1 .. Held : SlotOf(i) \in T}
    BY <1>1, <2>2
  <2>4. Cardinality({i \in DOMAIN Window : Window[i] > a}) = Cardinality(T)
    BY <2>1, <2>3, RotationCounts
  <2>5. Cardinality(T) = Cardinality(Filled) - Cardinality(Filled \cap Under(a + 1))
    BY FilledCounts, FS_Difference DEF T
  <2> QED BY <2>1, <2>4, <2>5, FilledCounts
<1> QED BY <1>3, <1>4

\* There is one amount only of a given rank.
LEMMA RankIsOne ==
  ASSUME TypeOK, Written, NEW k \in Int, NEW a \in Int, NEW b \in Int,
         Cardinality(Under(a)) <= k, k < Cardinality(Under(b + 1))
  PROVE  a <= b
<1> SUFFICES ASSUME b + 1 <= a PROVE FALSE
  OBVIOUS
<1>1. Cardinality(Under(b + 1)) <= Cardinality(Under(a))
  BY UnderGrows
<1>2. Held \in Nat /\ Cardinality(Under(a)) \in 0 .. Held /\ Cardinality(Under(b + 1)) \in 0 .. Held
  BY RingShape, UnderGrows
<1> QED BY <1>1, <1>2

\* What a query answers is what it means.
LEMMA PercentileMeans ==
  ASSUME TypeOK, Written, ~Cold, NEW p \in Int
  PROVE  /\ Percentile(p) \in {Window[i] : i \in DOMAIN Window}
         /\ Percentile(p) = Sliding!Percentile(Clamp(p))
<1> DEFINE v == Percentile(p)
           k == PercentileIndex(p)
<1>1. /\ k \in 0 .. Held - 1 /\ k = Index(Held - 1, Clamp(p))
      /\ Cardinality(Under(v)) <= k /\ k < Cardinality(Under(v + 1))
  BY PercentileIs
<1>2. /\ Len(Window) = Held /\ DOMAIN Window = 1 .. Held
      /\ \A i \in 1 .. Held : SlotOf(i) \in Filled /\ Window[i] = samples[SlotOf(i)]
  BY WindowShape DEF WindowIs
<1>3. PICK j \in Filled : v = samples[j]
  BY PercentileIs
<1>4. v \in {Window[i] : i \in DOMAIN Window}
  <2>1. IsFiniteSet({j}) /\ Cardinality({j}) = 1
    BY FS_Singleton
  <2>2. Cardinality({i \in 1 .. Held : SlotOf(i) \in {j}}) = 1
    BY <2>1, RotationCounts
  <2>3. {i \in 1 .. Held : SlotOf(i) \in {j}} # {}
    BY <2>2, FS_EmptySet
  <2> QED BY <1>2, <1>3, <2>3
<1>5. \A u \in {Window[i] : i \in DOMAIN Window} : u \in Int
  BY <1>2, NumbersHeld
<1>6. Sliding!Rank(Clamp(p)) = k
  BY <1>1, <1>2 DEF Sliding!Rank, Index
<1> HIDE DEF v, k
<1>7. ASSUME NEW u \in {Window[i] : i \in DOMAIN Window}
      PROVE  (Sliding!Below(u) <= Sliding!Rank(Clamp(p))
                /\ Sliding!Rank(Clamp(p)) < Sliding!Below(u + 1)) <=> u = v
  <2>1. u \in Int /\ v \in Int /\ k \in Int
    BY <1>1, <1>4, <1>5
  <2>2. Sliding!Below(u) = Cardinality(Under(u)) /\ Sliding!Below(u + 1) = Cardinality(Under(u + 1))
    BY <2>1, WindowCounts
  <2>3. ASSUME Cardinality(Under(u)) <= k, k < Cardinality(Under(u + 1)) PROVE u = v
    <3>1. u <= v
      BY <1>1, <2>1, <2>3, RankIsOne
    <3>2. v <= u
      BY <1>1, <2>1, <2>3, RankIsOne
    <3> QED BY <2>1, <3>1, <3>2
  <2> QED BY <1>1, <1>6, <2>2, <2>3
<1>8. v = Sliding!Percentile(Clamp(p))
  BY <1>4, <1>7 DEF Sliding!Percentile
<1> QED BY <1>4, <1>8 DEF v

\* What the percentiles of a snapshot guarantee: the sample of the rounded
\* rank, with so many samples below and above it, and more for a higher
\* percentile.
LEMMA RankHolds == TypeOK /\ Written => PercentileHasItsRank
<1> SUFFICES ASSUME TypeOK, Written, ~Cold, NEW p \in Percentiles
             PROVE  LET v     == Percentile(p)
                        below == Cardinality({i \in DOMAIN Window : Window[i] < v})
                        above == Cardinality({i \in DOMAIN Window : Window[i] > v})
                        n     == Len(Window)
                    IN  /\ v = Sliding!Percentile(Clamp(p))
                        /\ \E i \in DOMAIN Window : Window[i] = v
                        /\ 200 * below <= 2 * (n - 1) * Clamp(p) + 100
                        /\ 200 * above <= 2 * (n - 1) * (100 - Clamp(p)) + 100
                        /\ \A q \in Percentiles : p <= q => v <= Percentile(q)
  BY DEF PercentileHasItsRank
<1> DEFINE v     == Percentile(p)
           k     == PercentileIndex(p)
           c     == Clamp(p)
           m     == Held - 1
           below == Cardinality({i \in DOMAIN Window : Window[i] < v})
           above == Cardinality({i \in DOMAIN Window : Window[i] > v})
<1>1. p \in Int /\ \A q \in Percentiles : q \in Int
  BY OracleAssumption
<1>2. /\ c \in 0 .. 100 /\ k = Index(m, c) /\ k \in 0 .. m
      /\ Cardinality(Under(v)) <= k /\ k < Cardinality(Under(v + 1))
      /\ \E i \in Filled : v = samples[i]
  BY <1>1, PercentileIs
<1>3. v = Sliding!Percentile(c) /\ v \in {Window[i] : i \in DOMAIN Window}
  BY <1>1, PercentileMeans
<1>4. v \in Int /\ m \in Nat /\ Len(Window) = m + 1
  BY <1>2, NumbersHeld, RingShape, WindowShape DEF WindowIs, Cold
<1>5. below = Cardinality(Under(v)) /\ above = Held - Cardinality(Under(v + 1))
  <2>1. Sliding!Below(v) = below
    BY DEF Sliding!Below, Sliding!Cardinality, Cardinality
  <2> QED BY <1>4, <2>1, WindowCounts
<1>6. /\ Cardinality(Under(v)) \in Nat /\ Cardinality(Under(v + 1)) \in Nat
      /\ Held = m + 1
  BY <1>4, UnderGrows, RingShape
<1>7. ASSUME NEW q \in Percentiles, p <= q PROVE v <= Percentile(q)
  <2>1. /\ Clamp(q) \in 0 .. 100 /\ PercentileIndex(q) = Index(m, Clamp(q))
        /\ PercentileIndex(q) \in 0 .. m
        /\ PercentileIndex(q) < Cardinality(Under(Percentile(q) + 1))
        /\ \E i \in Filled : Percentile(q) = samples[i]
    BY <1>1, PercentileIs
  <2>2. c <= Clamp(q)
    BY <1>1, <1>7 DEF Clamp
  <2>3. k <= PercentileIndex(q)
    BY <1>2, <1>4, <2>1, <2>2, IndexBounds
  <2>4. Percentile(q) \in Int
    BY <2>1, NumbersHeld
  <2>5. k < Cardinality(Under(Percentile(q) + 1))
    <3>1. Cardinality(Under(Percentile(q) + 1)) \in Nat
      BY <2>4, UnderGrows, RingShape
    <3> QED BY <1>2, <2>1, <2>3, <3>1
  <2> QED BY <1>2, <1>4, <2>4, <2>5, RankIsOne
<1> HIDE DEF v, k, c, m, below, above
<1>8. 200 * below <= 2 * m * c + 100
  <2>1. 200 * k <= 2 * m * c + 100
    BY <1>2, <1>4, IndexBounds
  <2>2. below \in Nat /\ k \in Nat /\ below <= k
    BY <1>2, <1>5, <1>6
  <2>3. 2 * m * c \in Int
    BY <1>2, <1>4
  <2> QED BY <2>1, <2>2, <2>3
<1>9. 200 * above <= 2 * m * (100 - c) + 100
  <2>1. 2 * m * c + 100 < 200 * k + 200
    BY <1>2, <1>4, IndexBounds
  <2>2. above \in Int /\ above <= m - k
    BY <1>2, <1>4, <1>5, <1>6
  <2>3. 2 * m * (100 - c) = 200 * m - 2 * m * c /\ 2 * m * c \in Int /\ k \in Int
    BY <1>2, <1>4
  <2> QED BY <1>4, <2>1, <2>2, <2>3
<1>10. \E i \in DOMAIN Window : Window[i] = v
  BY <1>3
<1>11. Len(Window) - 1 = m
  BY <1>4
<1> QED BY <1>3, <1>7, <1>8, <1>9, <1>10, <1>11 DEF v, c, below, above

-----------------------------------------------------------------------------
(***************************************************************************)
(* Quotes that grow old.                                                   *)
(***************************************************************************)

QuoteType == [lamports : Samples, age : 0 .. Capacity]

AskedType == [pc : {"asking", "failed", "done"}, quotes : Seq(QuoteType)]

\* The percentile of the i-th query.
Asks(i) == Quantile[Queries[i]]

\* A quote of percentile c is off by no more ranks than it is old.
Near(c, quote) ==
  /\ Cardinality(Under(quote.lamports)) <= Index(Held - 1, c) + quote.age
  /\ Index(Held - 1, c) < Cardinality(Under(quote.lamports + 1)) + quote.age

QuotesOK(r, a) ==
  /\ a.pc = "failed" => warm[r].n = 0
  /\ Len(a.quotes) <= Len(Queries)
  /\ \A i \in DOMAIN a.quotes : ~Cold /\ Near(Asks(i), a.quotes[i])

QuotesInv ==
  /\ OracleInv
  /\ asked \in [Readers -> AskedType]
  /\ \A r \in Readers : QuotesOK(r, asked[r])

\* The queries are four, and ask for percentiles.
LEMMA QueriesAre ==
  /\ Len(Queries) = 4
  /\ Asks(1) = 50 /\ Asks(2) = 75 /\ Asks(3) = 95 /\ Asks(4) = 75
  /\ \A i \in 1 .. 4 : Asks(i) \in 0 .. 100 /\ Named(i) = Asks(i)
<1>1. Len(Queries) = 4
  BY DEF Queries
<1>2. Asks(1) = 50 /\ Asks(2) = 75 /\ Asks(3) = 95 /\ Asks(4) = 75
  BY DEF Asks, Queries, Quantile
<1>3. Named(1) = 50 /\ Named(2) = 75 /\ Named(3) = 95 /\ Named(4) = 75
  BY DEF Named, Queries
<1> QED BY <1>1, <1>2, <1>3

\* A push changes the number of samples below an amount by one at most, and
\* takes none away while the buffer fills.
LEMMA PushShifts ==
  ASSUME OracleInv, NEW lamports \in Samples, PushSample(lamports), NEW a \in Int
  PROVE  /\ Cardinality(Under(a)) \in 0 .. Held /\ Cardinality(Under(a))' \in 0 .. Held'
         /\ Cardinality(Under(a))' <= Cardinality(Under(a)) + 1
         /\ Cardinality(Under(a)) <= Cardinality(Under(a))' + 1
         /\ Held < Capacity => Cardinality(Under(a)) <= Cardinality(Under(a))'
<1>1. TypeOK /\ Written /\ lamports \in Int
  BY OracleAssumption DEF OracleInv
<1>2. /\ Filled' = Filled \cup {cursor}
      /\ cursor \notin Filled <=> Held < Capacity
      /\ \A i \in Filled' : samples'[i] = IF i = cursor THEN lamports ELSE samples[i]
  BY <1>1, PushFills
<1>3. Under(a) \subseteq Filled /\ IsFiniteSet(Under(a)) /\ Cardinality(Under(a)) \in 0 .. Held
  BY <1>1, UnderGrows, FilledCounts
<1>4. /\ Held \in 0 .. Capacity /\ Capacity \in Nat
      /\ Held' = IF Held < Capacity THEN Held + 1 ELSE Capacity
  BY <1>1, RingShape, CapacityIsPositive, PushEffects
<1>5. CASE lamports < a
  <2>1. Under(a)' = Under(a) \cup {cursor}
    BY <1>2, <1>5 DEF Under
  <2>2. Cardinality(Under(a))' = IF cursor \in Under(a) THEN Cardinality(Under(a))
                                                        ELSE Cardinality(Under(a)) + 1
    BY <1>3, <2>1, FS_AddElement
  <2>3. CASE cursor \in Under(a)
    BY <1>2, <1>3, <1>4, <2>2, <2>3
  <2>4. CASE cursor \notin Under(a)
    <3>1. Cardinality(Under(a))' \in 0 .. Held'
      <4>1. ASSUME Held = Capacity PROVE Cardinality(Under(a)) # Held
        <5>1. cursor \in Filled
          BY <1>2, <4>1, <1>4
        <5>2. Under(a) # Filled /\ IsFiniteSet(Filled) /\ Cardinality(Filled) = Held
          BY <1>1, <2>4, <5>1, FilledCounts
        <5> QED BY <1>3, <5>2, FS_Subset
      <4> QED BY <1>3, <1>4, <2>2, <2>4, <4>1
    <3> QED BY <1>3, <1>4, <2>2, <2>4, <3>1
  <2> QED BY <2>3, <2>4
<1>6. CASE ~(lamports < a)
  <2>1. Under(a)' = Under(a) \ {cursor}
    BY <1>2, <1>6 DEF Under
  <2>2. Cardinality(Under(a))' = IF cursor \in Under(a) THEN Cardinality(Under(a)) - 1
                                                        ELSE Cardinality(Under(a))
    BY <1>3, <2>1, FS_RemoveElement
  <2>3. cursor \in Under(a) => Cardinality(Under(a)) # 0
    BY <1>3, FS_EmptySet
  <2> QED BY <1>2, <1>3, <1>4, <2>2, <2>3
<1> QED BY <1>5, <1>6

\* With one sample more the index of a percentile moves on by one at most.
LEMMA IndexSteps ==
  ASSUME NEW m \in Nat, NEW c \in 0 .. 100
  PROVE  Index(m, c) <= Index(m + 1, c) /\ Index(m + 1, c) <= Index(m, c) + 1
<1>1. 2 * (m + 1) * c + 100 = 2 * m * c + 100 + 2 * c /\ 2 * m * c \in Int
  OBVIOUS
<1>2. /\ Index(m, c) \in Int /\ Index(m + 1, c) \in Int
      /\ 200 * Index(m, c) <= 2 * m * c + 100
      /\ 2 * m * c + 100 < 200 * Index(m, c) + 200
      /\ 200 * Index(m + 1, c) <= 2 * (m + 1) * c + 100
      /\ 2 * (m + 1) * c + 100 < 200 * Index(m + 1, c) + 200
  <2> DEFINE n == m + 1
  <2>1. n \in Nat
    OBVIOUS
  <2> HIDE DEF n
  <2>2. /\ Index(n, c) \in Int
        /\ 200 * Index(n, c) <= 2 * n * c + 100
        /\ 2 * n * c + 100 < 200 * Index(n, c) + 200
    <3>1. Index(n, c) \in 0 .. n
      BY <2>1, IndexBounds
    <3>2. /\ 200 * Index(n, c) <= 2 * n * c + 100
          /\ 2 * n * c + 100 < 200 * Index(n, c) + 200
      BY <2>1, IndexBounds, Zenon
    <3> QED BY <2>1, <3>1, <3>2
  <2>3. /\ Index(m, c) \in Int
        /\ 200 * Index(m, c) <= 2 * m * c + 100
        /\ 2 * m * c + 100 < 200 * Index(m, c) + 200
    <3>1. Index(m, c) \in 0 .. m
      BY IndexBounds
    <3>2. /\ 200 * Index(m, c) <= 2 * m * c + 100
          /\ 2 * m * c + 100 < 200 * Index(m, c) + 200
      BY IndexBounds, Zenon
    <3> QED BY <3>1, <3>2
  <2> QED BY <2>2, <2>3 DEF n
<1> QED BY <1>1, <1>2

\* A quote that gets older by a push stays as near as it is old.
LEMMA QuoteAges ==
  ASSUME OracleInv, ~Cold, NEW lamports \in Samples, PushSample(lamports),
         NEW c \in 0 .. 100, NEW quote \in QuoteType, Near(c, quote)
  PROVE  ~Cold' /\ Older(quote) \in QuoteType /\ Near(c, Older(quote))'
<1> DEFINE older == Older(quote)
           a     == quote.lamports
<1>1. /\ Held \in 0 .. Capacity /\ Held # 0 /\ Capacity \in Nat
      /\ Held' = IF Held < Capacity THEN Held + 1 ELSE Capacity
  BY RingShape, CapacityIsPositive, PushEffects DEF OracleInv, Cold
<1>2. /\ a \in Int /\ quote.age \in 0 .. Capacity
      /\ older.lamports = a
      /\ older.age = IF quote.age < Capacity THEN quote.age + 1 ELSE quote.age
      /\ older \in QuoteType
  <2>1. quote.lamports \in Samples /\ quote.age \in 0 .. Capacity
    BY DEF QuoteType
  <2>2. a \in Int
    <3>1. \A l \in Samples : l \in Int
      BY OracleAssumption
    <3> QED BY <2>1, <3>1
  <2> QED BY <1>1, <2>1, <2>2 DEF QuoteType, Older
<1> HIDE DEF older
<1>3. /\ Cardinality(Under(a)) \in Nat /\ Cardinality(Under(a))' \in 0 .. Held'
      /\ Cardinality(Under(a))' <= Cardinality(Under(a)) + 1
      /\ Cardinality(Under(a + 1)) \in Nat /\ Cardinality(Under(a + 1))' \in 0 .. Held'
      /\ Cardinality(Under(a + 1)) <= Cardinality(Under(a + 1))' + 1
      /\ Held < Capacity => Cardinality(Under(a + 1)) <= Cardinality(Under(a + 1))'
  BY <1>1, <1>2, PushShifts
<1>4. /\ Index(Held - 1, c) \in 0 .. Held - 1
      /\ Index(Held' - 1, c) \in 0 .. Held' - 1
      /\ Index(Held - 1, c) <= Index(Held' - 1, c)
      /\ Index(Held' - 1, c) <= Index(Held - 1, c) + 1
      /\ Held = Capacity => Index(Held' - 1, c) = Index(Held - 1, c)
  <2>1. Held - 1 \in Nat /\ Held' - 1 \in Nat
    BY <1>1
  <2>2. Index(Held - 1, c) \in 0 .. Held - 1 /\ Index(Held' - 1, c) \in 0 .. Held' - 1
    BY <2>1, IndexBounds
  <2>3. CASE Held < Capacity
    <3>1. Held' - 1 = (Held - 1) + 1
      BY <1>1, <2>3
    <3> QED BY <1>1, <2>1, <2>2, <2>3, <3>1, IndexSteps
  <2>4. CASE Held = Capacity
    BY <1>1, <2>2, <2>4
  <2> QED BY <1>1, <2>3, <2>4
<1>5. /\ Cardinality(Under(a)) <= Index(Held - 1, c) + quote.age
      /\ Index(Held - 1, c) < Cardinality(Under(a + 1)) + quote.age
  BY DEF Near
<1>6. /\ Cardinality(Under(a))' <= Index(Held' - 1, c) + older.age
      /\ Index(Held' - 1, c) < Cardinality(Under(a + 1))' + older.age
  <2>1. CASE quote.age < Capacity
    BY <1>1, <1>2, <1>3, <1>4, <1>5, <2>1
  <2>2. CASE quote.age = Capacity
    BY <1>1, <1>2, <1>3, <1>4, <2>2
  <2> QED BY <1>1, <1>2, <2>1, <2>2
<1>7. Near(c, older)'
  BY <1>2, <1>6 DEF Near, older, Older
<1> QED BY <1>1, <1>2, <1>7 DEF Cold, older

-----------------------------------------------------------------------------
(***************************************************************************)
(* The programs that ask.                                                  *)
(***************************************************************************)

\* The programs are steps of the oracle, or leave it alone.
LEMMA QuotesAreSteps ==
  /\ QuotesInit => Init
  /\ [QuotesNext]_quoteVars => [Next]_vars
<1>1. QuotesInit => Init
  BY DEF QuotesInit
<1>2. ASSUME [QuotesNext]_quoteVars PROVE [Next]_vars
  <2>1. ASSUME Fed PROVE Next
    BY <2>1 DEF Fed, Next
  <2>2. ASSUME NEW r \in Readers,
               \/ Waiting(CheckLen(r)) \/ Waiting(CheckDeadline(r)) \/ Waiting(ReportCold(r))
               \/ Waiting(SleepOver(r)) \/ Waiting(TimePasses(r))
        PROVE  Next
    BY <2>2 DEF Waiting, Warmup, Next
  <2>3. ASSUME NEW r \in Readers, Program(r) PROVE UNCHANGED vars
    BY <2>3 DEF Program, Ask, AskCold, TipResolved, Turn
  <2>4. ASSUME UNCHANGED quoteVars PROVE UNCHANGED vars
    BY <2>4 DEF quoteVars
  <2> QED BY <1>2, <2>1, <2>2, <2>3, <2>4 DEF QuotesNext
<1> QED BY <1>1, <1>2

\* Nobody has asked yet.
LEMMA QuotesInitial == QuotesInit => QuotesInv
<1> SUFFICES ASSUME QuotesInit PROVE QuotesInv
  OBVIOUS
<1>1. OracleInv
  BY QuotesAreSteps, OracleInit
<1> DEFINE a == [pc |-> "asking", quotes |-> << >>]
<1>2. a \in AskedType /\ a.pc = "asking" /\ Len(a.quotes) = 0 /\ DOMAIN a.quotes = {}
  <2>1. << >> \in Seq(QuoteType) /\ Len(<< >>) = 0 /\ DOMAIN << >> = {}
    BY EmptySeq
  <2> QED BY <2>1 DEF AskedType
<1>3. asked = [r \in Readers |-> a]
  BY DEF QuotesInit
<1> HIDE DEF a
<1>4. asked \in [Readers -> AskedType] /\ \A r \in Readers : asked[r] = a
  BY <1>2, <1>3
<1>5. ASSUME NEW r \in Readers PROVE QuotesOK(r, asked[r])
  BY <1>2, <1>4, QueriesAre DEF QuotesOK
<1> QED BY <1>1, <1>4, <1>5 DEF QuotesInv

\* A sample that arrives makes every quote one push older.
LEMMA FedQuotes ==
  ASSUME QuotesInv, Fed
  PROVE  QuotesInv'
<1>1. PICK lamports \in Samples : PushSample(lamports)
  BY DEF Fed
<1>2. OracleInv /\ OracleInv' /\ warm' = warm
  BY <1>1, PushInv DEF QuotesInv, PushSample
<1>3. ASSUME NEW r \in Readers
      PROVE  asked'[r] \in AskedType /\ QuotesOK(r, asked[r])'
  <2>0. PICK old \in AskedType : old = asked[r]
    BY DEF QuotesInv
  <2> DEFINE q == old.quotes
             o == [i \in DOMAIN q |-> Older(q[i])]
             a == [old EXCEPT !.quotes = o]
  <2>1. QuotesOK(r, old) /\ asked'[r] = a
    BY <2>0 DEF QuotesInv, Fed
  <2>2. /\ q \in Seq(QuoteType) /\ Len(q) \in Nat /\ DOMAIN q = 1 .. Len(q)
        /\ \A i \in DOMAIN q : q[i] \in QuoteType
    <3>1. q \in Seq(QuoteType)
      BY DEF AskedType
    <3> HIDE DEF q
    <3> QED BY <3>1, LenProperties
  <2>3. /\ Len(q) <= 4
        /\ \A i \in DOMAIN q : ~Cold /\ Near(Asks(i), q[i])
        /\ old.pc = "failed" => warm[r].n = 0
    BY <2>1, QueriesAre DEF QuotesOK
  <2> HIDE DEF q
  <2>4. ASSUME NEW i \in DOMAIN q
        PROVE  ~Cold' /\ Older(q[i]) \in QuoteType /\ Near(Asks(i), Older(q[i]))'
    <3>1. Asks(i) \in 0 .. 100
      <4>1. i \in 1 .. 4
        BY <2>2, <2>3
      <4> QED BY <4>1, QueriesAre
    <3>2. PICK quote \in QuoteType : quote = q[i]
      BY <2>2
    <3> QED BY <1>1, <1>2, <2>3, <3>1, <3>2, QuoteAges
  <2>5. /\ o \in [1 .. Len(q) -> QuoteType] /\ DOMAIN o = DOMAIN q
        /\ \A i \in DOMAIN q : o[i] = Older(q[i])
    BY <2>2, <2>4
  <2> HIDE DEF o
  <2>6. o \in Seq(QuoteType) /\ Len(o) = Len(q)
    BY <2>2, <2>5, SeqDef
  <2>7. a \in AskedType /\ a.pc = old.pc /\ a.quotes = o
    BY <2>6 DEF AskedType
  <2> HIDE DEF a
  <2>8. ASSUME NEW i \in DOMAIN o PROVE ~Cold' /\ Near(Asks(i), o[i])'
    BY <2>4, <2>5
  <2>9. Len(o) <= Len(Queries)
    BY <2>3, <2>6, QueriesAre
  <2>10. QuotesOK(r, a)'
    BY <1>2, <2>3, <2>7, <2>8, <2>9 DEF QuotesOK
  <2> QED BY <2>1, <2>7, <2>10
<1>4. asked' \in [Readers -> AskedType]
  <2>1. DOMAIN asked' = Readers /\ asked' = [r \in Readers |-> asked'[r]]
    BY DEF Fed
  <2> QED BY <1>3, <2>1
<1> QED BY <1>2, <1>3, <1>4 DEF QuotesInv

\* A step of warmup() takes nothing from the quotes.
LEMMA WaitingQuotes ==
  ASSUME QuotesInv, NEW r \in Readers, Warmup(r) \/ TimePasses(r), UNCHANGED asked
  PROVE  QuotesInv'
<1>1. OracleInv /\ OracleInv'
  BY WarmupInv DEF QuotesInv
<1>2. samples' = samples /\ Held' = Held /\ Filled' = Filled
  <2>1. UNCHANGED ring
    BY <1>1, WarmupStep DEF OracleInv
  <2> QED BY <2>1 DEF ring, Held, Filled
<1>3. ASSUME NEW q \in Readers PROVE warm'[q].n = warm[q].n
  <2>1. warm \in [Readers -> ReaderType]
    BY <1>1 DEF OracleInv, TypeOK, ReaderType
  <2>2. PICK w : warm' = [warm EXCEPT ![r] = w] /\ w.n = warm[r].n
    BY <1>1, WarmupStep DEF OracleInv
  <2> QED BY <2>1, <2>2
<1>4. ASSUME NEW q \in Readers PROVE QuotesOK(q, asked[q])'
  BY <1>2, <1>3 DEF QuotesInv, QuotesOK, Near, Under, Cold
<1> QED BY <1>1, <1>4 DEF QuotesInv

\* A turn of one program leaves the quotes of the others as they are.
LEMMA TurnQuotes ==
  ASSUME QuotesInv, NEW r \in Readers, NEW a \in AskedType, Turn(r, a), QuotesOK(r, a)
  PROVE  QuotesInv'
<1>1. /\ UNCHANGED vars /\ asked' = [asked EXCEPT ![r] = a]
      /\ asked \in [Readers -> AskedType]
      /\ \A q \in Readers : QuotesOK(q, asked[q])
  BY DEF Turn, QuotesInv
<1>2. OracleInv'
  BY <1>1, OracleStep DEF QuotesInv
<1>3. samples' = samples /\ Held' = Held /\ Filled' = Filled /\ warm' = warm
  BY <1>1 DEF vars, Held, Filled
<1>4. ASSUME NEW q \in Readers PROVE QuotesOK(q, asked[q])'
  <2>1. PICK b : b = asked'[q]
    OBVIOUS
  <2>2. QuotesOK(q, b)
    BY <1>1, <2>1
  <2> QED BY <1>3, <2>1, <2>2 DEF QuotesOK, Near, Under, Cold
<1> QED BY <1>1, <1>2, <1>4 DEF QuotesInv

\* A query answers with a sample of its rank; it fails only in a program that
\* waited for none.
LEMMA ProgramQuotes ==
  ASSUME QuotesInv, NEW r \in Readers, Program(r)
  PROVE  QuotesInv'
<1>1. OracleInv /\ TypeOK /\ Written /\ QuotesOK(r, asked[r]) /\ asked[r] \in AskedType
  BY DEF QuotesInv, OracleInv
<1>2. CASE Ask(r)
  <2> DEFINE old   == asked[r].quotes
             n     == Len(old) + 1
             p     == Asks(n)
             quote == [lamports |-> Percentile(p), age |-> 0]
             new   == Append(old, quote)
             a     == [asked[r] EXCEPT !.quotes = new]
  <2>1. ~Cold /\ Turn(r, a) /\ Len(old) # Len(Queries) /\ asked[r].pc = "asking"
    BY <1>2 DEF Ask, Asking, AllAsked, Asks
  <2>2. /\ old \in Seq(QuoteType) /\ Len(old) \in Nat /\ Len(old) <= 4
        /\ DOMAIN old = 1 .. Len(old)
        /\ \A i \in DOMAIN old : Near(Asks(i), old[i])
    <3>1. old \in Seq(QuoteType)
      BY <1>1 DEF AskedType
    <3>2. Len(old) <= 4 /\ \A i \in DOMAIN old : Near(Asks(i), old[i])
      BY <1>1, QueriesAre DEF QuotesOK
    <3> HIDE DEF old
    <3> QED BY <3>1, <3>2, LenProperties
  <2> HIDE DEF old
  <2>3. n \in 1 .. 4
    BY <2>1, <2>2, QueriesAre
  <2>4. p \in 0 .. 100
    BY <2>3, QueriesAre
  <2> HIDE DEF p
  <2>5. p \in Int /\ Clamp(p) = p
    BY <2>4 DEF Clamp
  <2>6. /\ quote \in QuoteType /\ quote.lamports = Percentile(p) /\ quote.age = 0
        /\ Near(p, quote)
    <3>1. \E i \in Filled : Percentile(p) = samples[i]
      BY <1>1, <2>1, <2>5, PercentileIs
    <3>2. Percentile(p) \in Samples
      BY <1>1, <3>1 DEF Written
    <3>3. /\ PercentileIndex(p) = Index(Held - 1, p)
          /\ PercentileIndex(p) \in 0 .. Held - 1
          /\ Cardinality(Under(Percentile(p))) <= PercentileIndex(p)
          /\ PercentileIndex(p) < Cardinality(Under(Percentile(p) + 1))
      BY <1>1, <2>1, <2>5, PercentileIs
    <3>4. quote \in QuoteType
      BY <3>2, CapacityIsPositive DEF QuoteType
    <3>5. /\ Index(Held - 1, p) + 0 = PercentileIndex(p)
          /\ Cardinality(Under(Percentile(p) + 1)) + 0 = Cardinality(Under(Percentile(p) + 1))
      BY <1>1, <3>3, UnderGrows
    <3> QED BY <3>3, <3>4, <3>5 DEF Near
  <2> HIDE DEF quote
  <2>7. /\ new \in Seq(QuoteType) /\ Len(new) = n /\ DOMAIN new = 1 .. n
        /\ \A i \in 1 .. Len(old) : new[i] = old[i]
        /\ new[n] = quote
    <3>1. /\ new \in Seq(QuoteType) /\ Len(new) = Len(old) + 1
          /\ \A i \in 1 .. Len(old) : new[i] = old[i]
          /\ new[Len(old) + 1] = quote
      BY <2>2, <2>6, AppendProperties
    <3> HIDE DEF new
    <3> QED BY <3>1, LenProperties
  <2> HIDE DEF new
  <2>8. a \in AskedType /\ a.pc = "asking" /\ a.quotes = new
    BY <1>1, <2>1, <2>7 DEF AskedType
  <2> HIDE DEF a
  <2>9. ASSUME NEW i \in DOMAIN new PROVE Near(Asks(i), new[i])
    <3>1. CASE i = n
      BY <2>6, <2>7, <3>1 DEF p
    <3>2. CASE i # n
      BY <2>2, <2>7, <3>2
    <3> QED BY <3>1, <3>2
  <2>10. Len(new) <= Len(Queries)
    BY <2>3, <2>7, QueriesAre
  <2>11. QuotesOK(r, a)
    BY <2>1, <2>8, <2>9, <2>10 DEF QuotesOK
  <2> QED BY <2>1, <2>8, <2>11, TurnQuotes
<1>3. CASE AskCold(r)
  <2> DEFINE a == [asked[r] EXCEPT !.pc = "failed"]
  <2>1. Turn(r, a) /\ Cold /\ warm[r].pc = "ready"
    BY <1>3 DEF AskCold, Asking, At
  <2>2. warm[r].n = 0
    <3>1. Held = 0 /\ warm[r].n <= Held /\ warm[r].n \in Nat
      BY <1>1, <2>1, OracleAssumption DEF OracleInv, WarmStaysWarm, At, Cold, TypeOK
    <3> QED BY <3>1
  <2>3. a \in AskedType /\ a.quotes = asked[r].quotes
    BY <1>1 DEF AskedType
  <2> HIDE DEF a
  <2>4. QuotesOK(r, a)
    BY <1>1, <2>2, <2>3 DEF QuotesOK
  <2> QED BY <2>1, <2>3, <2>4, TurnQuotes
<1>4. CASE TipResolved(r)
  <2> DEFINE a == [pc |-> "done", quotes |-> << >>]
  <2>1. Turn(r, a)
    BY <1>4 DEF TipResolved
  <2>2. << >> \in Seq(QuoteType) /\ Len(<< >>) = 0 /\ DOMAIN << >> = {}
    BY EmptySeq
  <2>3. a \in AskedType /\ a.pc = "done" /\ Len(a.quotes) = 0 /\ DOMAIN a.quotes = {}
    BY <2>2 DEF AskedType
  <2> HIDE DEF a
  <2>4. QuotesOK(r, a)
    BY <2>3, QueriesAre DEF QuotesOK
  <2> QED BY <2>1, <2>3, <2>4, TurnQuotes
<1> QED BY <1>2, <1>3, <1>4 DEF Program

\* Every step of the oracle, its feeders, readers and programs preserves the
\* invariant.
LEMMA QuotesStep == QuotesInv /\ [QuotesNext]_quoteVars => QuotesInv'
<1> SUFFICES ASSUME QuotesInv, [QuotesNext]_quoteVars PROVE QuotesInv'
  OBVIOUS
<1>1. ASSUME NEW r \in Readers,
             \/ Waiting(CheckLen(r)) \/ Waiting(CheckDeadline(r)) \/ Waiting(ReportCold(r))
             \/ Waiting(SleepOver(r)) \/ Waiting(TimePasses(r))
      PROVE  QuotesInv'
  BY <1>1, WaitingQuotes DEF Waiting, Warmup
<1>2. CASE UNCHANGED quoteVars
  <2>1. OracleInv'
    BY <1>2, OracleStep DEF QuotesInv, quoteVars
  <2>2. samples' = samples /\ Held' = Held /\ Filled' = Filled /\ warm' = warm /\ asked' = asked
    BY <1>2 DEF quoteVars, vars, Held, Filled
  <2>3. ASSUME NEW q \in Readers PROVE QuotesOK(q, asked[q])'
    BY <2>2 DEF QuotesInv, QuotesOK, Near, Under, Cold
  <2> QED BY <2>1, <2>2, <2>3 DEF QuotesInv
<1> QED BY <1>1, <1>2, FedQuotes, ProgramQuotes DEF QuotesNext

\* Two quotes of the window as it is are ordered as their percentiles are.
LEMMA FreshQuotesOrdered ==
  ASSUME TypeOK, Written, ~Cold, NEW c \in 0 .. 100, NEW d \in 0 .. 100, c <= d,
         NEW one \in QuoteType, NEW two \in QuoteType, one.age = 0, two.age = 0,
         Near(c, one), Near(d, two)
  PROVE  one.lamports <= two.lamports
<1>1. one.lamports \in Int /\ two.lamports \in Int
  <2>1. \A l \in Samples : l \in Int
    BY OracleAssumption
  <2> QED BY <2>1 DEF QuoteType
<1>2. SUFFICES ASSUME two.lamports + 1 <= one.lamports PROVE FALSE
  BY <1>1
<1>3. Cardinality(Under(two.lamports + 1)) <= Cardinality(Under(one.lamports))
  BY <1>1, <1>2, UnderGrows
<1>4. /\ Cardinality(Under(two.lamports + 1)) \in 0 .. Held
      /\ Cardinality(Under(one.lamports)) \in 0 .. Held
  BY UnderGrows
<1>5. Held - 1 \in Nat
  BY RingShape DEF Cold
<1>6. /\ Index(Held - 1, c) <= Index(Held - 1, d)
      /\ Index(Held - 1, c) \in 0 .. Held - 1 /\ Index(Held - 1, d) \in 0 .. Held - 1
  BY <1>5, IndexBounds
<1>7. /\ Cardinality(Under(one.lamports)) <= Index(Held - 1, c) + 0
      /\ Index(Held - 1, d) < Cardinality(Under(two.lamports + 1)) + 0
  BY DEF Near
<1> QED BY <1>3, <1>4, <1>5, <1>6, <1>7

\* The order of the quotes of one program.
Ordered(q) ==
  \A i, j \in DOMAIN q :
    Named(i) <= Named(j) /\ q[i].age = q[j].age /\ q[i].age < Capacity =>
      q[i].lamports <= q[j].lamports

\* What a program has asked is near the percentile it named.
QuotesNear ==
  \A r \in Readers : \A i \in DOMAIN asked[r].quotes :
    /\ asked[r].quotes[i] \in QuoteType
    /\ Named(i) \in 0 .. 100
    /\ ~Cold /\ Near(Named(i), asked[r].quotes[i])

\* It is.
LEMMA QuotesShape == QuotesInv => QuotesNear
<1> SUFFICES ASSUME QuotesInv, NEW r \in Readers, NEW i \in DOMAIN asked[r].quotes
             PROVE  /\ asked[r].quotes[i] \in QuoteType
                    /\ Named(i) \in 0 .. 100
                    /\ ~Cold /\ Near(Named(i), asked[r].quotes[i])
  BY DEF QuotesNear
<1> DEFINE q == asked[r].quotes
<1>1. q \in Seq(QuoteType) /\ QuotesOK(r, asked[r])
  BY DEF QuotesInv, AskedType
<1>2. Len(q) <= 4 /\ ~Cold /\ Near(Asks(i), q[i])
  BY <1>1, QueriesAre DEF QuotesOK
<1>3. i \in DOMAIN q
  OBVIOUS
<1> HIDE DEF q
<1>4. Len(q) \in Nat /\ i \in 1 .. Len(q) /\ q[i] \in QuoteType
  BY <1>1, <1>3, LenProperties
<1>5. i \in 1 .. 4
  BY <1>2, <1>4
<1>6. Named(i) \in 0 .. 100 /\ Named(i) = Asks(i)
  BY <1>5, QueriesAre
<1>7. Near(Named(i), q[i])
  BY <1>2, <1>6
<1> QED BY <1>2, <1>4, <1>6, <1>7 DEF q

\* A sample that arrives makes all quotes of a program older alike; a query
\* adds one that no push separates from those of age zero.
LEMMA OrderedStep ==
  QuotesInv /\ QuotesInv' /\ QuotesOrdered /\ [QuotesNext]_quoteVars => QuotesOrdered'
<1> SUFFICES ASSUME QuotesInv, QuotesInv', QuotesOrdered, [QuotesNext]_quoteVars,
                    NEW r \in Readers
             PROVE  Ordered(asked'[r].quotes)
  BY DEF QuotesOrdered, Ordered
<1>1. Ordered(asked[r].quotes)
  BY DEF QuotesOrdered, Ordered
<1>2. ASSUME asked'[r].quotes = asked[r].quotes PROVE Ordered(asked'[r].quotes)
  BY <1>1, <1>2
<1>3. asked \in [Readers -> AskedType] /\ asked[r] \in AskedType
  BY DEF QuotesInv
<1>4. CASE Fed
  <2> DEFINE q == asked[r].quotes
             o == [i \in DOMAIN q |-> Older(q[i])]
  <2>1. asked'[r].quotes = o
    <3>1. asked'[r] = [asked[r] EXCEPT !.quotes = o]
      BY <1>4 DEF Fed
    <3> QED BY <1>3, <3>1 DEF AskedType
  <2>2. ASSUME NEW i \in DOMAIN q
        PROVE  /\ q[i].age \in 0 .. Capacity
               /\ o[i].lamports = q[i].lamports
               /\ o[i].age = IF q[i].age < Capacity THEN q[i].age + 1 ELSE q[i].age
    <3>1. q[i] \in QuoteType
      BY QuotesShape DEF QuotesNear
    <3> HIDE DEF q
    <3> QED BY <3>1 DEF QuoteType, Older
  <2>3. DOMAIN o = DOMAIN q /\ Ordered(q)
    BY <1>1
  <2> HIDE DEF q, o
  <2>4. ASSUME NEW i \in DOMAIN q, NEW j \in DOMAIN q,
               Named(i) <= Named(j), o[i].age = o[j].age, o[i].age < Capacity
        PROVE  o[i].lamports <= o[j].lamports
    <3>1. q[i].age = q[j].age /\ q[i].age < Capacity
      BY <2>2, <2>4, CapacityIsPositive
    <3> QED BY <2>2, <2>3, <2>4, <3>1 DEF Ordered
  <2> QED BY <2>1, <2>3, <2>4 DEF Ordered
<1>5. ASSUME Ask(r) PROVE Ordered(asked'[r].quotes)
  <2> DEFINE old == asked[r].quotes
             n   == Len(old) + 1
             new == asked'[r].quotes
  <2>1. PICK quote \in QuoteType : /\ quote.age = 0
                                  /\ new = Append(old, quote)
                                  /\ UNCHANGED vars
    <3> DEFINE quote == [lamports |-> Percentile(Asks(n)), age |-> 0]
    <3>1. /\ asked'[r] = [asked[r] EXCEPT !.quotes = Append(old, quote)]
          /\ UNCHANGED vars /\ ~Cold /\ Len(old) # Len(Queries)
      BY <1>3, <1>5 DEF Ask, Turn, Asks, AllAsked
    <3>2. new = Append(old, quote) /\ quote.age = 0
      BY <1>3, <3>1 DEF AskedType
    <3>3. Asks(n) \in Int
      <4>1. old \in Seq(QuoteType) /\ Len(old) <= 4 /\ Len(old) # 4
        BY <1>3, <3>1, QueriesAre DEF AskedType, QuotesInv, QuotesOK
      <4> HIDE DEF old
      <4>2. PICK k \in Nat : k = Len(old)
        BY <4>1, LenProperties
      <4>3. n \in 1 .. 4
        <5>1. n = k + 1
          BY <4>2
        <5>2. k <= 4 /\ k # 4
          BY <4>1, <4>2
        <5> HIDE DEF n
        <5> QED BY <5>1, <5>2
      <4> QED BY <4>3, QueriesAre
    <3>4. Percentile(Asks(n)) \in Samples
      <4>1. \E i \in Filled : Percentile(Asks(n)) = samples[i]
        BY <3>1, <3>3, PercentileIs DEF QuotesInv, OracleInv
      <4> QED BY <4>1 DEF QuotesInv, OracleInv, Written
    <3>5. quote \in QuoteType
      BY <3>4, CapacityIsPositive DEF QuoteType
    <3> HIDE DEF quote
    <3> QED BY <3>1, <3>2, <3>5
  <2>2. old \in Seq(QuoteType)
    BY <1>3 DEF AskedType
  <2>3. ASSUME NEW i \in DOMAIN new
        PROVE  /\ new[i] \in QuoteType /\ Named(i) \in 0 .. 100
               /\ ~Cold /\ Near(Named(i), new[i])
    <3>1. QuotesNear'
      BY QuotesShape, PTL
    <3>2. Held' = Held /\ samples' = samples /\ Filled' = Filled
      BY <2>1 DEF vars, Held, Filled
    <3>3. new[i] \in QuoteType /\ Named(i) \in 0 .. 100 /\ ~Cold
      BY <3>1, <3>2 DEF QuotesNear, Cold
    <3>4. Near(Named(i), new[i])
      BY <3>1, <3>2 DEF QuotesNear, Near, Under
    <3> QED BY <3>3, <3>4
  <2>4. TypeOK /\ Written
    BY DEF QuotesInv, OracleInv
  <2> HIDE DEF old, new
  <2>5. /\ Len(old) \in Nat /\ DOMAIN old = 1 .. Len(old) /\ DOMAIN new = 1 .. Len(old) + 1
        /\ \A i \in 1 .. Len(old) : new[i] = old[i]
        /\ new[Len(old) + 1].age = 0
    <3>1. /\ new \in Seq(QuoteType) /\ Len(new) = Len(old) + 1
          /\ \A i \in 1 .. Len(old) : new[i] = old[i]
          /\ new[Len(old) + 1] = quote
      BY <2>1, <2>2, AppendProperties
    <3> QED BY <2>1, <2>2, <3>1, LenProperties
  <2>6. ASSUME NEW i \in DOMAIN new, NEW j \in DOMAIN new, Named(i) <= Named(j),
               new[i].age = new[j].age, new[i].age < Capacity
        PROVE  new[i].lamports <= new[j].lamports
    <3>1. CASE i \in 1 .. Len(old) /\ j \in 1 .. Len(old)
      BY <1>1, <2>5, <2>6, <3>1 DEF Ordered, old
    <3>2. CASE ~(i \in 1 .. Len(old) /\ j \in 1 .. Len(old))
      <4>1. new[i].age = 0 /\ new[j].age = 0
        BY <2>5, <2>6, <3>2
      <4> QED BY <2>3, <2>4, <2>6, <4>1, FreshQuotesOrdered
    <3> QED BY <3>1, <3>2
  <2> QED BY <2>6 DEF Ordered, new
<1>6. ASSUME NEW s \in Readers, Program(s) PROVE Ordered(asked'[r].quotes)
  <2>1. CASE s # r
    <3>1. asked'[r] = asked[r]
      BY <1>3, <1>6, <2>1 DEF Program, Ask, AskCold, TipResolved, Turn
    <3> QED BY <1>2, <3>1
  <2>2. CASE s = r /\ AskCold(s)
    <3>1. asked'[r].quotes = asked[r].quotes
      BY <1>3, <2>2 DEF AskCold, Turn, AskedType
    <3> QED BY <1>2, <3>1
  <2>3. CASE s = r /\ TipResolved(s)
    <3>1. asked'[r].quotes = << >>
      BY <1>3, <2>3 DEF TipResolved, Turn
    <3> QED BY <3>1 DEF Ordered
  <2> QED BY <1>5, <1>6, <2>1, <2>2, <2>3 DEF Program
<1>7. ASSUME NEW s \in Readers,
             \/ Waiting(CheckLen(s)) \/ Waiting(CheckDeadline(s)) \/ Waiting(ReportCold(s))
             \/ Waiting(SleepOver(s)) \/ Waiting(TimePasses(s))
      PROVE  Ordered(asked'[r].quotes)
  BY <1>2, <1>7 DEF Waiting
<1>8. CASE UNCHANGED quoteVars
  BY <1>2, <1>8 DEF quoteVars
<1> QED BY <1>4, <1>6, <1>7, <1>8 DEF QuotesNext

\* The invariants hold in every behaviour of the oracle, and with the programs
\* of the example in every behaviour of both.
LEMMA Invariants == (Spec \/ QuotesSpec => []OracleInv) /\ (QuotesSpec => []QuotesInv)
<1>1. Spec => []OracleInv
  BY OracleInit, OracleStep, PTL DEF Spec
<1>2. QuotesSpec => []QuotesInv
  BY QuotesInitial, QuotesStep, PTL DEF QuotesSpec
<1>3. QuotesInv => OracleInv
  BY DEF QuotesInv
<1> QED BY <1>1, <1>2, <1>3, PTL

-----------------------------------------------------------------------------
(***************************************************************************)
(* The theorems.                                                           *)
(***************************************************************************)

\* The cursor stays inside the buffer and nothing but samples is written, for
\* any capacity, whoever pushes, waits and asks.
THEOREM OracleTypes == Spec \/ QuotesSpec => []TypeOK
<1>1. OracleInv => TypeOK
  BY DEF OracleInv
<1> QED BY <1>1, Invariants, PTL

\* Once warmup() has returned Ok, no query finds the oracle cold.
THEOREM WarmHolds == Spec \/ QuotesSpec => []WarmStaysWarm
<1>1. OracleInv => WarmStaysWarm
  BY DEF OracleInv
<1> QED BY <1>1, Invariants, PTL

\* Every percentile is the sample of its rank among the last Capacity pushed.
THEOREM RanksHold == Spec \/ QuotesSpec => []PercentileHasItsRank
<1>1. OracleInv => PercentileHasItsRank
  BY RankHolds DEF OracleInv
<1> QED BY <1>1, Invariants, PTL

\* The ring buffer implements the sliding window.
THEOREM RingIsWindow == Spec \/ QuotesSpec => ImplementsWindow
<1>1. Spec \/ QuotesSpec => Init /\ [][Next]_vars
  BY QuotesAreSteps, PTL DEF Spec, QuotesSpec
<1> QED BY <1>1, Invariants, StartsEmpty, StepSlides, PTL DEF ImplementsWindow, Sliding!Spec

\* Quotes are samples, and a program whose warmup waited for a sample is never
\* told that the oracle is cold.
THEOREM QuotesAreSamples == QuotesSpec => []QuotesTypeOK
<1>1. QuotesInv => QuotesTypeOK
  <2> SUFFICES ASSUME QuotesInv, NEW r \in Readers
               PROVE  /\ asked[r].pc \in {"asking", "failed", "done"}
                      /\ asked[r].pc = "failed" => warm[r].n = 0
                      /\ asked[r].quotes \in Seq(QuoteType)
    BY DEF QuotesTypeOK, QuoteType
  <2> QED BY DEF QuotesInv, QuotesOK, AskedType
<1> QED BY <1>1, Invariants, PTL

\* A quote is off by no more ranks than samples were pushed since.
THEOREM QuotesStayNear == QuotesSpec => []QuotesAgeByPushes
<1>1. QuotesInv => QuotesAgeByPushes
  <2> SUFFICES ASSUME QuotesInv, NEW r \in Readers, NEW i \in DOMAIN asked[r].quotes
               PROVE  LET quote == asked[r].quotes[i]
                          rank  == Sliding!Rank(Named(i))
                      IN  /\ Sliding!Below(quote.lamports) <= rank + quote.age
                          /\ rank < Sliding!Below(quote.lamports + 1) + quote.age
    BY DEF QuotesAgeByPushes
  <2> DEFINE quotes == asked[r].quotes
             quote  == asked[r].quotes[i]
             asks   == Named(i)
  <2>1. TypeOK /\ Written /\ QuotesOK(r, asked[r]) /\ asked[r] \in AskedType
    BY DEF QuotesInv, OracleInv
  <2>2. /\ quotes \in Seq(QuoteType) /\ Len(quotes) <= 4 /\ Near(Asks(i), quote)
    BY <2>1, QueriesAre DEF AskedType, QuotesOK
  <2>3. i \in 1 .. 4 /\ quote \in QuoteType
    <3>1. i \in DOMAIN quotes /\ quote = quotes[i]
      OBVIOUS
    <3> HIDE DEF quotes, quote
    <3>2. /\ Len(quotes) \in Nat /\ DOMAIN quotes = 1 .. Len(quotes)
          /\ quotes \in [1 .. Len(quotes) -> QuoteType]
      BY <2>2, LenProperties
    <3> QED BY <2>2, <3>1, <3>2
  <2>4. Asks(i) = asks
    BY <2>3, QueriesAre
  <2> HIDE DEF quotes, quote, asks
  <2>5. quote.lamports \in Int
    <3>1. \A l \in Samples : l \in Int
      BY OracleAssumption
    <3> QED BY <2>3, <3>1 DEF QuoteType
  <2>6. /\ Sliding!Below(quote.lamports) = Cardinality(Under(quote.lamports))
        /\ Sliding!Below(quote.lamports + 1) = Cardinality(Under(quote.lamports + 1))
    BY <2>1, <2>5, WindowCounts
  <2>7. Sliding!Rank(asks) = Index(Held - 1, asks)
    BY <2>1, WindowShape DEF WindowIs, Sliding!Rank, Index
  <2> QED BY <2>2, <2>4, <2>6, <2>7 DEF Near, quote, asks
<1> QED BY <1>1, Invariants, PTL

\* Quotes that no push separates are ordered as their percentiles are: p50 at
\* most p75 at most p95, and the tip submitted is the p75 printed.
THEOREM QuotesKeepOrder == QuotesSpec => []QuotesOrdered
<1>1. QuotesInit => QuotesOrdered
  BY DEF QuotesInit, QuotesOrdered
<1> QED BY <1>1, OrderedStep, Invariants, PTL DEF QuotesSpec

=============================================================================
