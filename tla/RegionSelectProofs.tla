------------------------- MODULE RegionSelectProofs -------------------------
(***************************************************************************)
(* Proofs about auto_select_with_timeout, for any catalog, any budget and  *)
(* any delay with which the runtime starts a probe.                        *)
(***************************************************************************)
EXTENDS RegionSelect, TLAPS

ProbeType == [ st      : {"none", "spawned", "running"} \cup Finished,
               started : 0 .. MaxStart,
               elapsed : 0 .. Timeout ]

CallerType == [ pc     : {"build", "await", "done"},
                next   : 1 .. Len(Catalog) + 1,
                best   : {NoRegion} \cup Probes,
                cur    : 0 .. Timeout,
                result : {NoRegion} \cup {Catalog[i] : i \in Probes} ]

\* A probe starts in time and is cut off by its budget.
ProbeOK(i) ==
  /\ probe[i].st = "spawned" => now <= MaxStart
  /\ probe[i].st = "running" => probe[i].started <= now /\ now <= probe[i].started + Timeout

\* What the caller has collected: the best so far is the fastest of them.
Collected ==
  /\ \A i \in Probes : probe[i].st # "none"
  /\ \A i \in Probes : i < caller.next => probe[i].st \in Finished
  /\ caller.best = NoRegion =>
       \A i \in Probes : i < caller.next => probe[i].st # "ok"
  /\ caller.best # NoRegion =>
       /\ caller.best < caller.next
       /\ probe[caller.best].st = "ok"
       /\ caller.cur = probe[caller.best].elapsed
       /\ \A i \in Probes :
            i < caller.next /\ probe[i].st = "ok" => caller.cur <= probe[i].elapsed

\* When it returns, no probe is left that could change its mind.
CallerOK ==
  /\ caller.pc = "build" =>
       now = 0 /\ caller = NewCaller /\ \A i \in Probes : probe[i].st = "none"
  /\ caller.pc = "await" => Collected
  /\ caller.pc = "done" =>
       /\ \/ \A i \in Probes : probe[i].st = "none"
          \/ \A i \in Probes : probe[i].st \in Finished
       /\ FastestResponderWins

SelectInv == TypeOK /\ (\A i \in Probes : ProbeOK(i)) /\ CallerOK

-----------------------------------------------------------------------------
\* The catalog has finitely many regions, and none at index zero.
LEMMA ProbesType == /\ Len(Catalog) \in Nat /\ Probes = 1 .. Len(Catalog)
                    /\ NoRegion \notin Probes /\ Timeout \in Nat /\ MaxStart \in Nat
  BY RegionAssumption DEF Probes, NoRegion

\* No probe runs at first.
LEMMA InitSelect == Init => SelectInv
  BY ProbesType DEF Init, SelectInv, TypeOK, ProbeOK, CallerOK, NoProbes, NewCaller, NoRegion

\* A step of the caller changes neither the clock nor a probe.
LEMMA BecomeSelect ==
  ASSUME SelectInv, NEW c, Become(c), TypeOK', CallerOK'
  PROVE  SelectInv'
  BY DEF SelectInv, Become, ProbeOK

\* Without a client there is no probe, and nothing to choose from.
LEMMA BuildFailedSelect == SelectInv /\ BuildFailed => SelectInv'
<1> SUFFICES ASSUME SelectInv, BuildFailed PROVE SelectInv'
  OBVIOUS
<1>1. Become([caller EXCEPT !.pc = "done"])
  BY DEF BuildFailed
<1>2. TypeOK'
  BY <1>1 DEF SelectInv, TypeOK, Become
<1>3. CallerOK'
  BY <1>1 DEF SelectInv, TypeOK, Become, BuildFailed, CallerOK, FastestResponderWins, NewCaller
<1> QED BY <1>1, <1>2, <1>3, BecomeSelect

\* All probes are spawned before the caller awaits the first.
LEMMA SpawnSelect == SelectInv /\ SpawnProbes => SelectInv'
<1> SUFFICES ASSUME SelectInv, SpawnProbes PROVE SelectInv'
  OBVIOUS
<1>1. \A i \in Probes : probe'[i] = [probe[i] EXCEPT !.st = "spawned"]
  BY DEF SpawnProbes
<1>2. TypeOK'
  BY ProbesType DEF SelectInv, TypeOK, SpawnProbes
<1>3. now' = 0 /\ \A i \in Probes : probe'[i].st = "spawned"
  BY <1>1 DEF SelectInv, TypeOK, SpawnProbes, CallerOK
<1>4. \A i \in Probes : ProbeOK(i)'
  BY <1>3, ProbesType DEF ProbeOK
<1>5. CallerOK'
  <2>1. caller'.pc = "await" /\ caller'.next = 1 /\ caller'.best = NoRegion
    BY DEF SelectInv, CallerOK, SpawnProbes, NewCaller
  <2>2. Collected'
    BY <1>3, <2>1, ProbesType DEF Collected
  <2> QED BY <2>1, <2>2 DEF CallerOK
<1> QED BY <1>2, <1>4, <1>5 DEF SelectInv

\* A probe that runs on disturbs nothing the caller has collected.
LEMMA ProbeStep ==
  ASSUME SelectInv, NEW i \in Probes, NEW p, probe' = [probe EXCEPT ![i] = p],
         UNCHANGED <<now, caller>>,
         probe[i].st \in {"spawned", "running"}, p.st # "none"
  PROVE  CallerOK'
<1>1. \A j \in Probes : j # i => probe'[j] = probe[j]
  BY DEF SelectInv, TypeOK
<1>2. probe'[i] = p
  BY DEF SelectInv, TypeOK
<1>3. caller.pc = "await"
  BY DEF SelectInv, TypeOK, CallerOK, Finished
<1>4. ~(i < caller.next) /\ (caller.best # NoRegion => i # caller.best)
  BY <1>3 DEF SelectInv, CallerOK, Collected, Finished
<1>5. Collected'
  BY <1>1, <1>2, <1>3, <1>4 DEF SelectInv, TypeOK, CallerOK, Collected
<1> QED BY <1>3, <1>5 DEF CallerOK

\* The runtime gives a spawned probe its first step.
LEMMA BeginSelect == ASSUME SelectInv, NEW i \in Probes, Begin(i) PROVE SelectInv'
<1> DEFINE p == [probe[i] EXCEPT !.st = "running", !.started = now]
<1>1. probe' = [probe EXCEPT ![i] = p] /\ p.st = "running" /\ p.started = now
  BY DEF Begin, SelectInv, TypeOK
<1>2. now <= MaxStart /\ now \in Nat
  BY ProbesType DEF Begin, SelectInv, ProbeOK, TypeOK
<1>3. TypeOK'
  <2>1. probe[i] \in ProbeType /\ now \in 0 .. MaxStart
    BY <1>2, ProbesType DEF SelectInv, TypeOK, ProbeType
  <2>2. p \in ProbeType
    BY <2>1 DEF ProbeType
  <2> QED BY <1>1, <2>2 DEF Begin, SelectInv, TypeOK, ProbeType
<1>4. ASSUME NEW j \in Probes PROVE ProbeOK(j)'
  <2>1. CASE j = i
    BY <1>1, <1>2, <2>1, ProbesType DEF Begin, SelectInv, TypeOK, ProbeOK
  <2>2. CASE j # i
    BY <1>1, <2>2 DEF Begin, SelectInv, TypeOK, ProbeOK
  <2> QED BY <2>1, <2>2
<1>5. CallerOK'
  BY <1>1, ProbeStep DEF Begin
<1> QED BY <1>3, <1>4, <1>5 DEF SelectInv

\* A probe ends, in whatever way, within its budget.
LEMMA FinishSelect ==
  ASSUME SelectInv, NEW i \in Probes, NEW st \in Finished, Finish(i, st)
  PROVE  SelectInv'
<1> DEFINE p == [probe[i] EXCEPT !.st = st, !.elapsed = now - probe[i].started]
<1>1. probe' = [probe EXCEPT ![i] = p] /\ p.st = st
  BY DEF Finish, SelectInv, TypeOK
<1>2. now - probe[i].started \in 0 .. Timeout
  BY ProbesType DEF Finish, SelectInv, ProbeOK, TypeOK
<1>3. TypeOK'
  BY <1>2 DEF Finish, SelectInv, TypeOK
<1>4. ASSUME NEW j \in Probes PROVE ProbeOK(j)'
  <2>1. CASE j = i
    BY <1>1, <2>1 DEF Finish, SelectInv, TypeOK, ProbeOK, Finished
  <2>2. CASE j # i
    BY <1>1, <2>2 DEF Finish, SelectInv, TypeOK, ProbeOK
  <2> QED BY <2>1, <2>2
<1>5. CallerOK'
  BY <1>1, ProbeStep DEF Finish, Finished
<1> QED BY <1>3, <1>4, <1>5 DEF SelectInv

\* Time passes only while a probe is left that has not used up its own.
LEMMA TickSelect == SelectInv /\ Tick => SelectInv'
<1> SUFFICES ASSUME SelectInv, Tick PROVE SelectInv'
  OBVIOUS
<1>1. now' = now + 1 /\ UNCHANGED <<probe, caller>> /\ now \in Nat
  BY ProbesType DEF Tick, SelectInv, TypeOK
<1>2. \A i \in Probes : probe[i].started \in 0 .. MaxStart
  BY DEF SelectInv, TypeOK
<1>3. \A i \in Probes : ProbeOK(i)'
  BY <1>1, <1>2, ProbesType DEF Tick, SelectInv, ProbeOK
<1>4. PICK i \in Probes : probe[i].st \in {"spawned", "running"}
  BY DEF Tick
<1>5. now' \in 0 .. MaxStart + Timeout
  BY <1>1, <1>2, <1>4, ProbesType DEF Tick
<1>6. TypeOK'
  BY <1>1, <1>5 DEF SelectInv, TypeOK
<1>7. CallerOK'
  <2>1. caller.pc # "build"
    BY <1>4 DEF SelectInv, CallerOK
  <2> QED BY <1>1, <2>1 DEF SelectInv, CallerOK, Collected, FastestResponderWins
<1> QED BY <1>3, <1>6, <1>7 DEF SelectInv

\* One more handle is awaited: the best so far stays the fastest.
LEMMA CollectSelect == SelectInv /\ Collect => SelectInv'
<1> SUFFICES ASSUME SelectInv, Collect PROVE SelectInv'
  OBVIOUS
<1> DEFINE n == caller.next
           p == probe[n]
<1>1. /\ caller.pc = "await" /\ n \in Probes /\ p.st \in Finished /\ n \in Nat
      /\ p.elapsed \in 0 .. Timeout /\ Collected
  BY ProbesType DEF Collect, SelectInv, TypeOK, CallerOK
<1>2. CASE Better(p)
  <2> DEFINE c == [caller EXCEPT !.next = @ + 1, !.best = caller.next, !.cur = p.elapsed]
  <2>1. Become(c)
    BY <1>2 DEF Collect
  <2>2. caller \in CallerType /\ n + 1 \in 1 .. Len(Catalog) + 1
    BY <1>1, ProbesType DEF SelectInv, TypeOK, CallerType
  <2>3. c \in CallerType
    BY <1>1, <2>2 DEF CallerType
  <2>4. TypeOK'
    BY <2>1, <2>3 DEF SelectInv, TypeOK, Become, CallerType
  <2>5. c.pc = caller.pc /\ c.next = n + 1 /\ c.best = n /\ c.cur = p.elapsed
    BY <2>2 DEF CallerType
  <2>6. /\ caller'.pc = "await" /\ caller'.next = n + 1 /\ caller'.best = n
        /\ caller'.cur = p.elapsed /\ probe' = probe
    BY <1>1, <2>1, <2>5 DEF Become
  <2>7. \A i \in Probes : i < n /\ probe[i].st = "ok" => p.elapsed <= probe[i].elapsed
    BY <1>1, <1>2 DEF Better, Collected, SelectInv, TypeOK
  <2>8. Collected'
    BY <1>1, <1>2, <2>6, <2>7, ProbesType DEF Better, Collected
  <2> QED BY <2>1, <2>4, <2>6, <2>8, BecomeSelect DEF CallerOK
<1>3. CASE ~Better(p)
  <2> DEFINE c == [caller EXCEPT !.next = @ + 1]
  <2>1. Become(c)
    BY <1>3 DEF Collect
  <2>2. TypeOK'
    BY <1>1, <2>1, ProbesType DEF SelectInv, TypeOK, Become
  <2>3. /\ caller'.pc = "await" /\ caller'.next = n + 1 /\ caller'.best = caller.best
        /\ caller'.cur = caller.cur /\ probe' = probe
    BY <1>1, <2>1 DEF Become, SelectInv, TypeOK
  <2>4. p.st = "ok" => caller.best # NoRegion /\ caller.cur <= p.elapsed
    BY <1>1, <1>3 DEF Better, SelectInv, TypeOK
  <2>5. caller.best # NoRegion => caller.best < n + 1
    BY <1>1, ProbesType DEF Collected, SelectInv, TypeOK
  <2>6. \A i \in Probes : i < n + 1 <=> i < n \/ i = n
    BY <1>1, ProbesType
  <2>7. \A i \in Probes : i < n + 1 => probe[i].st \in Finished
    BY <1>1, <2>6 DEF Collected
  <2>8. caller.best = NoRegion => \A i \in Probes : i < n + 1 => probe[i].st # "ok"
    BY <1>1, <2>4, <2>6 DEF Collected
  <2>9. Collected'
    BY <1>1, <2>3, <2>4, <2>5, <2>6, <2>7, <2>8 DEF Collected
  <2> QED BY <2>1, <2>2, <2>3, <2>9, BecomeSelect DEF CallerOK
<1> QED BY <1>2, <1>3

\* With all handles awaited, the best so far is the fastest of all.
LEMMA ReturnSelect == SelectInv /\ Return => SelectInv'
<1> SUFFICES ASSUME SelectInv, Return PROVE SelectInv'
  OBVIOUS
<1> DEFINE result == IF caller.best = NoRegion THEN NoRegion ELSE Catalog[caller.best]
<1>1. /\ caller.pc = "await" /\ Collected
      /\ caller.best \in {NoRegion} \cup Probes
      /\ \A i \in Probes : i < caller.next
  BY ProbesType DEF Return, SelectInv, CallerOK, TypeOK
<1>2. Become([caller EXCEPT !.pc = "done", !.result = result])
  BY DEF Return
<1>3. TypeOK'
  BY <1>1, <1>2 DEF SelectInv, TypeOK, Become
<1>4. caller'.pc = "done" /\ caller'.result = result /\ probe' = probe
  BY <1>2 DEF Become, SelectInv, TypeOK
<1>5. FastestResponderWins'
  <2>1. CASE caller.best = NoRegion
    BY <1>1, <1>4, <2>1 DEF Collected, FastestResponderWins
  <2>2. CASE caller.best # NoRegion
    <3>1. caller.best \in Probes /\ caller'.result = Catalog[caller.best]
      BY <1>1, <1>4, <2>2
    <3>2. /\ probe[caller.best].st = "ok"
          /\ \A j \in Probes : probe[j].st = "ok" => probe[caller.best].elapsed <= probe[j].elapsed
      BY <1>1, <2>2 DEF Collected
    <3> QED BY <1>4, <3>1, <3>2 DEF FastestResponderWins
  <2> QED BY <2>1, <2>2
<1>6. CallerOK'
  BY <1>1, <1>4, <1>5 DEF CallerOK, Collected
<1> QED BY <1>2, <1>3, <1>6, BecomeSelect

-----------------------------------------------------------------------------
\* Every step preserves the invariant.
LEMMA SelectStep == SelectInv /\ [Next]_vars => SelectInv'
<1> SUFFICES ASSUME SelectInv, [Next]_vars PROVE SelectInv'
  OBVIOUS
<1>1. CASE BuildFailed
  BY <1>1, BuildFailedSelect
<1>2. CASE SpawnProbes
  BY <1>2, SpawnSelect
<1>3. CASE Collect
  BY <1>3, CollectSelect
<1>4. CASE Return
  BY <1>4, ReturnSelect
<1>5. CASE Tick
  BY <1>5, TickSelect
<1>6. ASSUME NEW i \in Probes, Begin(i) PROVE SelectInv'
  BY <1>6, BeginSelect
<1>7. ASSUME NEW i \in Probes, TimesOut(i) \/ Answers(i) \/ Unreachable(i) \/ Panics(i)
      PROVE  SelectInv'
  <2>1. \E st \in Finished : Finish(i, st)
    BY <1>7 DEF TimesOut, Answers, Unreachable, Panics, Finished
  <2> QED BY <2>1, FinishSelect
<1>8. CASE UNCHANGED vars
  BY <1>8 DEF vars, SelectInv, TypeOK, ProbeOK, CallerOK, Collected, FastestResponderWins
<1> QED BY <1>1, <1>2, <1>3, <1>4, <1>5, <1>6, <1>7, <1>8 DEF Next

\* The invariant holds in every behaviour.
LEMMA SelectInvariant == Spec => []SelectInv
  BY InitSelect, SelectStep, PTL DEF Spec

\* No probe outlives its budget, and the clock of a selection stops with the
\* last of them: so does every variable keep its type.
THEOREM SelectionType == Spec => []TypeOK
<1>1. SelectInv => TypeOK
  BY DEF SelectInv
<1> QED BY <1>1, SelectInvariant, PTL

\* auto_select_with_timeout returns the fastest region that answered, whatever
\* the order in which the probes start, answer, fail, time out or panic.
THEOREM FastestWins == Spec => []FastestResponderWins
<1>1. SelectInv => FastestResponderWins
  BY DEF SelectInv, CallerOK, FastestResponderWins
<1> QED BY <1>1, SelectInvariant, PTL

=============================================================================
