---------------------------- MODULE RegionSelect ----------------------------
(***************************************************************************)
(* Region::auto_select_with_timeout of src/region.rs: one probe task       *)
(* per public region, all running at once, and the caller that awaits      *)
(* their handles in the order of the catalog and keeps the fastest.        *)
(***************************************************************************)
EXTENDS Naturals, Sequences

CONSTANTS
  Catalog, \* Region::all(), a sequence
  Timeout, \* the probe budget, in ticks
  MaxStart \* the latest tick at which a spawned probe gets to run

ASSUME RegionAssumption == Catalog \in Seq(Nat) /\ Timeout \in Nat /\ MaxStart \in Nat

VARIABLES
  now,    \* the clock
  probe,  \* probe[i]: the task that probes Catalog[i]
  caller  \* the control state of auto_select_with_timeout

vars == <<now, probe, caller>>

Probes == 1 .. Len(Catalog)

NoRegion == 0

NoProbes == [i \in Probes |-> [st |-> "none", started |-> 0, elapsed |-> 0]]

NewCaller == [pc |-> "build", next |-> 1, best |-> NoRegion, cur |-> 0, result |-> NoRegion]

Init == now = 0 /\ probe = NoProbes /\ caller = NewCaller

Become(c) == caller' = c /\ UNCHANGED <<now, probe>>

BuildFailed ==
  /\ caller.pc = "build"
  /\ Become([caller EXCEPT !.pc = "done"])

SpawnProbes ==
  /\ caller.pc = "build"
  /\ caller' = [caller EXCEPT !.pc = "await"]
  /\ probe' = [i \in Probes |-> [probe[i] EXCEPT !.st = "spawned"]]
  /\ UNCHANGED now

\* The probe measures from its own first step, not from the spawn.
Begin(i) ==
  /\ probe[i].st = "spawned"
  /\ probe' = [probe EXCEPT ![i].st = "running", ![i].started = now]
  /\ UNCHANGED <<now, caller>>

\* A probe that counts the time before its first step too.
FinishFromSpawn(i, st) ==
  /\ probe[i].st = "running"
  /\ probe' = [probe EXCEPT ![i].st = st, ![i].elapsed = now]
  /\ UNCHANGED <<now, caller>>

Finish(i, st) ==
  /\ probe[i].st = "running"
  /\ probe' = [probe EXCEPT ![i].st = st, ![i].elapsed = now - probe[i].started]
  /\ UNCHANGED <<now, caller>>

\* A request with no timeout of its own.
TimesOutNever(i) == FALSE /\ Finish(i, "failed")

\* The budget of the HTTP client is used up.
TimesOut(i) == now - probe[i].started >= Timeout /\ Finish(i, "failed")

\* The network: an answer, whatever its HTTP status, or a connection error,
\* within the budget.
Answers(i) == now - probe[i].started < Timeout /\ Finish(i, "ok")

Unreachable(i) == now - probe[i].started < Timeout /\ Finish(i, "failed")

\* The task panics: its handle yields a JoinError.
Panics(i) == Finish(i, "panicked")

\* The clock does not pass the latest start or the budget of a probe.
Tick ==
  /\ \E i \in Probes : probe[i].st \in {"spawned", "running"}
  /\ \A i \in Probes :
       /\ probe[i].st = "spawned" => now < MaxStart
       /\ probe[i].st = "running" => now - probe[i].started < Timeout
  /\ now' = now + 1
  /\ UNCHANGED <<probe, caller>>

-----------------------------------------------------------------------------
Finished == {"ok", "failed", "panicked"}

\* A comparison that lets a probe that failed win.
BetterFailedToo(p) == p.st # "panicked" /\ (caller.best = NoRegion \/ p.elapsed < caller.cur)

Better(p) == p.st = "ok" /\ (caller.best = NoRegion \/ p.elapsed < caller.cur)

\* One turn of the loop over the handles: the next one is awaited.
Collect ==
  /\ caller.pc = "await" /\ caller.next \in Probes
  /\ LET p == probe[caller.next]
     IN  /\ p.st \in Finished
         /\ \/ /\ Better(p)
               /\ Become([caller EXCEPT !.next = @ + 1, !.best = caller.next, !.cur = p.elapsed])
            \/ /\ ~Better(p)
               /\ Become([caller EXCEPT !.next = @ + 1])

\* The best region, or Error::Transport when there is none.
Return ==
  /\ caller.pc = "await" /\ caller.next \notin Probes
  /\ Become([caller EXCEPT !.pc = "done",
                           !.result = IF caller.best = NoRegion THEN NoRegion
                                                                ELSE Catalog[caller.best]])

Next ==
  \/ BuildFailed \/ SpawnProbes \/ Collect \/ Return \/ Tick
  \/ \E i \in Probes : Begin(i) \/ TimesOut(i) \/ Answers(i) \/ Unreachable(i) \/ Panics(i)

\* The runtime runs every task, time passes and the client keeps its budget;
\* the regions owe no answer.
Spec ==
  /\ Init /\ [][Next]_vars
  /\ WF_vars(BuildFailed \/ SpawnProbes) /\ WF_vars(Collect) /\ WF_vars(Return) /\ WF_vars(Tick)
  /\ \A i \in Probes : WF_vars(Begin(i)) /\ WF_vars(TimesOut(i))

-----------------------------------------------------------------------------
\* The clock stays within its bound and no probe outlives its budget.
TypeOK ==
  /\ now \in 0 .. MaxStart + Timeout
  /\ probe \in [Probes -> [ st      : {"none", "spawned", "running"} \cup Finished,
                            started : 0 .. MaxStart,
                            elapsed : 0 .. Timeout ]]
  /\ caller \in [ pc     : {"build", "await", "done"},
                  next   : 1 .. Len(Catalog) + 1,
                  best   : {NoRegion} \cup Probes,
                  cur    : 0 .. Timeout,
                  result : {NoRegion} \cup {Catalog[i] : i \in Probes} ]

\* The region returned answered its probe, and no region that answered was
\* faster, in whatever order the probes ran and ended; an error means that
\* the client was not built or no region answered.
FastestResponderWins ==
  caller.pc = "done" =>
    \/ /\ caller.result = NoRegion
       /\ \A i \in Probes : probe[i].st # "ok"
    \/ \E i \in Probes : /\ caller.result = Catalog[i]
                         /\ probe[i].st = "ok"
                         /\ \A j \in Probes : probe[j].st = "ok" => probe[i].elapsed <= probe[j].elapsed

=============================================================================
