---------------------------- MODULE EngineProofs ----------------------------
(***************************************************************************)
(* Proofs about the program of Engine, for any number of builds, handles,  *)
(* payers and regions.                                                     *)
(***************************************************************************)
EXTENDS Engine, RegionSelectProofs, WellFoundedInduction

Regions == {NoRegion} \cup {Catalog[i] : i \in Probes} \cup CustomRegions

ClientType == [ transport : {"JsonRpc", "Grpc"},
                url       : [region : Regions, of : {"public", "json_rpc", "grpc"}] ]

AppType == [ pc      : {"idle", "select", "connect"},
             begun   : 0 .. Len(Plans),
             builder : BuilderType,
             region  : Regions,
             error   : {"none", "Transport", "InvalidConfig"} ]

InnerType == [ build    : Nat,
               region   : Regions,
               client   : ClientType,
               oracle   : Nat,
               payer    : Payers,
               retry    : RetryType,
               strategy : Origins ]

DraftType == [ client   : ClientType,
               oracle   : Nat,
               payer    : Payers,
               account  : 0 .. 255,
               retry    : RetryType,
               strategy : Origins ]

TaskType == [build : Nat, oracle : Nat, url : {"own", "bundles.jito.wtf"}]

EngineTypes ==
  /\ features \in FeatureSets
  /\ app \in AppType
  /\ inner \in Seq(InnerType) /\ Len(inner) <= InnerBound
  /\ handle \in [Handles -> 0 .. Len(inner)]
  /\ draft \in {NoDraft} \cup DraftType
  /\ streams \subseteq TaskType

\* No task or engine is of a build that has not begun, nor, while a build
\* runs, of that build.
BuildsInOrder ==
  /\ \A i \in DOMAIN inner : inner[i].build \in 1 .. app.begun
  /\ \A task \in streams : task.build <= app.begun
  /\ app.pc # "idle" => \A task \in streams : task.build < app.begun

FedBy(oracle) == \E task \in streams : task.oracle = oracle

\* Every engine ever made is fed, those no handle points to included.
AllFed ==
  features.tip_stream =>
    /\ \A i \in DOMAIN inner : FedBy(inner[i].oracle)
    /\ draft # NoDraft => FedBy(draft.oracle)

\* A running build has begun.
Begun == app.pc # "idle" => app.begun >= 1

\* A build keeps room for its engine.
RoomToBuild == app.pc # "idle" => Free # {} /\ Len(inner) < InnerBound

EngineInv ==
  /\ SelectInv /\ EngineTypes /\ BuildsInOrder /\ Begun /\ RoomToBuild /\ AllFed
  /\ NoOrphanStreams /\ EndpointOfRegion

-----------------------------------------------------------------------------
\* What the constants are.
LEMMA EngineConstants ==
  /\ Plans \in Seq(SUBSET BuilderType) /\ Len(Plans) \in Nat
  /\ \A f \in FeatureSets : f.grpc \in BOOLEAN /\ f.tip_stream \in BOOLEAN
  /\ Ephemeral \subseteq Payers /\ NoPayer \notin Payers
  /\ FirstByte \in [Payers -> 0 .. 255]
  /\ Handles \subseteq Nat /\ InnerBound \in Nat
  /\ NoRegion \notin CustomRegions
  BY EngineAssumption

\* auto_region() is the build of a builder like any other.
LEMMA DefaultBuilderType == DefaultBuilder \in BuilderType
<1>1. DefaultBuilder.retry \in RetryType
  BY DEF DefaultBuilder, RetryType, Origins
<1> QED BY <1>1 DEF DefaultBuilder, BuilderType, Origins

\* A record that lacks a field of a draft is none.
LEMMA DraftIsSomething == \A d \in DraftType : d # NoDraft
<1> SUFFICES ASSUME NEW d \in DraftType, d = NoDraft PROVE FALSE
  OBVIOUS
<1>1. "payer" \in DOMAIN d
  BY DEF DraftType
<1>2. DOMAIN NoDraft = {"kind"}
  BY DEF NoDraft
<1> QED BY <1>1, <1>2

\* Nor is a record that lacks a field of an engine.
LEMMA InnerIsSomething == \A e \in InnerType : e # NoDraft
<1> SUFFICES ASSUME NEW e \in InnerType, e = NoDraft PROVE FALSE
  OBVIOUS
<1>1. "payer" \in DOMAIN e
  BY DEF InnerType
<1>2. DOMAIN NoDraft = {"kind"}
  BY DEF NoDraft
<1> QED BY <1>1, <1>2

\* At first there is no engine, no draft and no task.
LEMMA InitEngine == EngineInit => EngineInv
<1> SUFFICES ASSUME EngineInit PROVE EngineInv
  OBVIOUS
<1>1. SelectInv
  BY InitSelect DEF EngineInit
<1>2. EngineTypes
  BY EngineConstants, DefaultBuilderType DEF EngineInit, EngineTypes, AppType, Regions
<1>3. BuildsInOrder /\ Begun /\ RoomToBuild /\ AllFed /\ NoOrphanStreams /\ EndpointOfRegion
  BY DEF EngineInit, BuildsInOrder, Begun, RoomToBuild, AllFed, NoOrphanStreams, EndpointOfRegion
<1> QED BY <1>1, <1>2, <1>3 DEF EngineInv

-----------------------------------------------------------------------------
\* What a new EngineInner changes, and what it leaves alone.
LEMMA Appended ==
  ASSUME inner \in Seq(InnerType), NEW e \in InnerType, inner' = Append(inner, e)
  PROVE  /\ inner' \in Seq(InnerType)
         /\ Len(inner') = Len(inner) + 1 /\ Len(inner) \in Nat
         /\ DOMAIN inner' = DOMAIN inner \cup {Len(inner) + 1}
         /\ \A i \in DOMAIN inner : inner'[i] = inner[i]
         /\ inner'[Len(inner) + 1] = e
  OBVIOUS

\* A step that only moves the program on, within a build or between two.
LEMMA ProgramStep ==
  ASSUME EngineInv, SelectInv', app' \in AppType, app'.begun >= app.begun,
         app'.pc # "idle" => /\ app'.begun >= 1
                             /\ \A task \in streams : task.build < app'.begun
                             /\ Free # {} /\ Len(inner) < InnerBound,
         UNCHANGED <<features, inner, handle, draft, streams>>
  PROVE  EngineInv'
<1>1. app.begun \in Nat /\ app'.begun \in Nat
  BY EngineConstants DEF EngineInv, EngineTypes, AppType
<1>2. EngineTypes'
  BY DEF EngineInv, EngineTypes
<1>3. BuildsInOrder'
  <2>1. \A i \in DOMAIN inner : inner[i].build \in 1 .. app'.begun
    BY <1>1 DEF EngineInv, BuildsInOrder
  <2>2. \A task \in streams : task.build <= app'.begun
    BY <1>1 DEF EngineInv, BuildsInOrder, EngineTypes, TaskType
  <2> QED BY <2>1, <2>2 DEF BuildsInOrder
<1>4. Begun' /\ RoomToBuild'
  BY DEF Begun, RoomToBuild, Free
<1>5. AllFed'
  BY DEF EngineInv, AllFed, FedBy
<1>6. NoOrphanStreams'
  BY DEF EngineInv, NoOrphanStreams
<1>7. EndpointOfRegion'
  BY DEF EngineInv, EndpointOfRegion
<1> QED BY <1>2, <1>3, <1>4, <1>5, <1>6, <1>7 DEF EngineInv

\* Where no selection is awaited, its variables stay.
LEMMA SelectSame == SelectInv /\ UNCHANGED vars => SelectInv'
  BY SelectStep

\* build() takes its builder.
LEMMA BeginBuildEngine == EngineInv /\ BeginBuild => EngineInv'
<1> SUFFICES ASSUME EngineInv, BeginBuild PROVE EngineInv'
  OBVIOUS
<1>1. PICK b \in Plans[app.begun + 1] :
        app' = [ pc      |-> IF b.region = NoRegion THEN "select" ELSE "connect",
                 begun   |-> app.begun + 1,
                 builder |-> b,
                 region  |-> b.region,
                 error   |-> "none" ]
  BY DEF BeginBuild
<1>2. app.begun \in 0 .. Len(Plans) /\ app.begun + 1 \in 1 .. Len(Plans)
  BY EngineConstants DEF BeginBuild, EngineInv, EngineTypes, AppType
<1>3. b \in BuilderType
  BY <1>1, <1>2, EngineConstants
<1>4. app' \in AppType
  BY <1>1, <1>2, <1>3 DEF AppType, BuilderType, Regions
<1>5. app'.begun >= app.begun /\ app'.begun >= 1 /\ \A task \in streams : task.build < app'.begun
  BY <1>1, <1>2 DEF EngineInv, BuildsInOrder, EngineTypes, TaskType
<1>6. SelectInv'
  BY SelectSame DEF BeginBuild, EngineInv
<1>7. Free # {} /\ Len(inner) < InnerBound
  BY DEF BeginBuild
<1> QED BY <1>4, <1>5, <1>6, <1>7, ProgramStep DEF BeginBuild

\* The selection is that of RegionSelect.
LEMMA SelectingEngine ==
  ASSUME EngineInv, Next, UNCHANGED engine
  PROVE  EngineInv'
<1>1. SelectInv'
  BY SelectStep DEF EngineInv
<1>2. app' = app /\ UNCHANGED <<features, inner, handle, draft, streams>>
  BY DEF engine
<1>3. app \in AppType /\ app.begun \in Nat
  BY EngineConstants DEF EngineInv, EngineTypes, AppType
<1> QED BY <1>1, <1>2, <1>3, ProgramStep DEF EngineInv, BuildsInOrder, Begun, RoomToBuild

\* A build that fails is over, and all is as it was.
LEMMA FailEngine ==
  ASSUME EngineInv, SelectInv', NEW error \in {"Transport", "InvalidConfig"}, Fail(error)
  PROVE  EngineInv'
<1>1. app \in AppType /\ app.begun \in Nat
  BY EngineConstants DEF EngineInv, EngineTypes, AppType
<1>2. app' \in AppType /\ app'.begun = app.begun /\ app'.pc = "idle"
  BY <1>1 DEF Fail, AppType
<1> QED BY <1>1, <1>2, ProgramStep DEF Fail

\* The selection has a region, or none.
LEMMA SelectedEngine == EngineInv /\ Selected => EngineInv'
<1> SUFFICES ASSUME EngineInv, Selected PROVE EngineInv'
  OBVIOUS
<1>1. SelectInv'
  BY ProbesType DEF Selected, SelectInv, TypeOK, ProbeOK, CallerOK, NoProbes, NewCaller, NoRegion
<1>2. CASE Fail("Transport")
  BY <1>1, <1>2, FailEngine
<1>3. CASE /\ app' = [app EXCEPT !.pc = "connect", !.region = caller.result]
           /\ UNCHANGED <<features, inner, handle, draft, streams>>
  <2>1. app \in AppType /\ app.begun \in Nat /\ caller.result \in Regions
    BY EngineConstants DEF EngineInv, EngineTypes, AppType, SelectInv, TypeOK, Regions
  <2>2. app' \in AppType /\ app'.begun = app.begun
    BY <1>3, <2>1 DEF AppType
  <2>3. \A task \in streams : task.build < app'.begun
    BY <2>2 DEF Selected, EngineInv, BuildsInOrder
  <2>4. app.begun >= 1 /\ Free # {} /\ Len(inner) < InnerBound
    BY DEF Selected, EngineInv, Begun, RoomToBuild
  <2> QED BY <1>1, <1>3, <2>1, <2>2, <2>3, <2>4, ProgramStep
<1> QED BY <1>2, <1>3 DEF Selected

\* The client cannot be had.
LEMMA ConnectFailedEngine == EngineInv /\ ConnectFailed => EngineInv'
<1> SUFFICES ASSUME EngineInv, ConnectFailed PROVE EngineInv'
  OBVIOUS
<1>1. SelectInv'
  BY SelectSame DEF ConnectFailed, EngineInv
<1>2. PICK error \in {"Transport", "InvalidConfig"} : Fail(error)
  BY DEF ConnectFailed, ConnectErrors, JsonRpcNewErrors, GrpcConnectErrors
<1> QED BY <1>1, <1>2, FailEngine

\* A step between two builds that makes no engine and no task.
LEMMA IdleStep ==
  ASSUME EngineInv, Idle, inner' \in Seq(InnerType), Len(inner') = Len(inner),
         \A i \in DOMAIN inner : /\ inner'[i].build = inner[i].build
                                 /\ inner'[i].region = inner[i].region
                                 /\ inner'[i].client = inner[i].client
                                 /\ inner'[i].oracle = inner[i].oracle,
         handle' \in [Handles -> 0 .. Len(inner)],
         draft' \in {NoDraft} \cup DraftType,
         features.tip_stream /\ draft' # NoDraft => FedBy(draft'.oracle)
  PROVE  EngineInv'
<1>1. SelectInv'
  BY SelectSame DEF Idle, EngineInv
<1>2. EngineTypes'
  BY DEF EngineInv, EngineTypes, Idle
<1>3. DOMAIN inner' = DOMAIN inner
  BY DEF EngineInv, EngineTypes
<1>4. BuildsInOrder'
  BY <1>3 DEF EngineInv, BuildsInOrder, Idle
<1>5. Begun' /\ RoomToBuild'
  BY DEF Begun, RoomToBuild, Idle
<1>6. AllFed'
  BY <1>3 DEF EngineInv, AllFed, FedBy, Idle
<1>7. NoOrphanStreams'
  BY <1>3 DEF EngineInv, NoOrphanStreams, Idle
<1>8. EndpointOfRegion'
  BY <1>3 DEF EngineInv, EndpointOfRegion, Idle
<1> QED BY <1>1, <1>2, <1>4, <1>5, <1>6, <1>7, <1>8 DEF EngineInv

\* An engine that sends its bundles where its region says.
EndpointOf(e, grpc) ==
  /\ e.client.url.region = e.region
  /\ e.client.transport = "Grpc" => grpc
  /\ e.client.url.of = IF e.region \notin CustomRegions THEN "public"
                       ELSE IF e.client.transport = "JsonRpc" THEN "json_rpc" ELSE "grpc"

\* A step that makes an engine, and the task that feeds it unless there is one.
LEMMA NewEngineStep ==
  ASSUME EngineInv, UNCHANGED <<vars, features, draft>>,
         app' \in AppType, app'.pc = "idle", app'.begun = app.begun,
         NEW e \in InnerType, inner' = Append(inner, e), Len(inner) < InnerBound,
         e.build \in 1 .. app.begun, EndpointOf(e, features.grpc),
         handle' \in [Handles -> 0 .. Len(inner) + 1],
         streams \subseteq streams', streams' \subseteq TaskType,
         \A task \in streams' \ streams : task.build = e.build /\ task.oracle = e.oracle,
         \A s, t \in streams' : s.build = t.build => s = t,
         features.tip_stream => \E task \in streams' : task.oracle = e.oracle
  PROVE  EngineInv'
<1>1. SelectInv'
  BY SelectSame DEF EngineInv
<1>2. inner \in Seq(InnerType)
  BY DEF EngineInv, EngineTypes
<1>3. /\ inner' \in Seq(InnerType)
      /\ Len(inner') = Len(inner) + 1 /\ Len(inner) \in Nat
      /\ DOMAIN inner' = DOMAIN inner \cup {Len(inner) + 1}
      /\ \A i \in DOMAIN inner : inner'[i] = inner[i]
      /\ inner'[Len(inner) + 1] = e
  BY <1>2, Appended
<1>4. EngineTypes'
  BY <1>3, EngineConstants DEF EngineInv, EngineTypes
<1>5. BuildsInOrder'
  <2>1. \A i \in DOMAIN inner' : inner'[i].build \in 1 .. app.begun
    BY <1>3 DEF EngineInv, BuildsInOrder
  <2>2. e.build <= app.begun
    BY EngineConstants DEF EngineInv, EngineTypes, AppType
  <2>3. \A task \in streams' : task.build <= app.begun
    BY <2>2 DEF EngineInv, BuildsInOrder
  <2> QED BY <2>1, <2>3 DEF BuildsInOrder
<1>6. Begun' /\ RoomToBuild'
  BY DEF Begun, RoomToBuild
<1>7. AllFed'
  <2>1. SUFFICES ASSUME features.tip_stream
                 PROVE  /\ \A i \in DOMAIN inner' : \E task \in streams' : task.oracle = inner'[i].oracle
                        /\ draft # NoDraft => \E task \in streams' : task.oracle = draft.oracle
    BY DEF AllFed, FedBy
  <2>2. /\ \A i \in DOMAIN inner : \E task \in streams' : task.oracle = inner[i].oracle
        /\ draft # NoDraft => \E task \in streams' : task.oracle = draft.oracle
    BY <2>1 DEF EngineInv, AllFed, FedBy
  <2>3. \E task \in streams' : task.oracle = e.oracle
    BY <2>1
  <2>4. \A i \in DOMAIN inner' : inner'[i] = e \/ (i \in DOMAIN inner /\ inner'[i] = inner[i])
    BY <1>3
  <2> QED BY ONLY <2>2, <2>3, <2>4
<1>8. NoOrphanStreams'
  <2> SUFFICES ASSUME NEW task \in streams'
               PROVE  \E i \in DOMAIN inner' : inner'[i].build = task.build /\ inner'[i].oracle = task.oracle
    BY DEF NoOrphanStreams
  <2>1. CASE task \in streams
    <3>1. PICK i \in DOMAIN inner : inner[i].build = task.build /\ inner[i].oracle = task.oracle
      BY <2>1 DEF EngineInv, NoOrphanStreams
    <3> QED BY ONLY <1>3, <3>1
  <2>2. CASE task \notin streams
    <3>1. task.build = e.build /\ task.oracle = e.oracle
      BY <2>2
    <3> QED BY ONLY <1>3, <3>1
  <2> QED BY <2>1, <2>2
<1>9. EndpointOfRegion'
  <2>1. \A i \in DOMAIN inner : EndpointOf(inner[i], features.grpc)
    BY DEF EngineInv, EndpointOfRegion, EndpointOf
  <2>2. \A i \in DOMAIN inner' : EndpointOf(inner'[i], features.grpc)
    BY <1>3, <2>1
  <2> QED BY <2>2 DEF EndpointOfRegion, EndpointOf
<1> QED BY <1>1, <1>4, <1>5, <1>6, <1>7, <1>8, <1>9 DEF EngineInv

\* build() has its client and runs to its end.
LEMMA BuiltEngine == EngineInv /\ Built => EngineInv'
<1> SUFFICES ASSUME EngineInv, Built PROVE EngineInv'
  OBVIOUS
<1> DEFINE b == app.builder
<1>1. /\ app \in AppType /\ b \in BuilderType /\ app.region \in Regions
      /\ app.begun \in Nat /\ app.pc = "connect"
  BY EngineConstants DEF EngineInv, EngineTypes, AppType, Built
<1>2. PICK payer \in Payers : inner' = Append(inner, NewEngine(payer))
  BY <1>1, EngineConstants DEF Built, BuilderType
<1> DEFINE e == NewEngine(payer)
<1>3. StreamTask.oracle \in Nat /\ StreamTask.build = app.begun
  BY <1>1 DEF StreamTask
<1>4. StreamTask \in TaskType
  BY <1>1 DEF StreamTask, TaskType, TipStreamUrl
<1>5. Client \in ClientType
  BY <1>1 DEF Client, ClientType, BuilderType, JsonRpcUrl, GrpcEndpoint
<1>6. e \in InnerType
  BY <1>1, <1>3, <1>5 DEF NewEngine, InnerType, BuilderType
<1>7. e.build = app.begun /\ e.oracle = StreamTask.oracle /\ e.region = app.region /\ e.client = Client
  BY DEF NewEngine
<1>8. EndpointOf(e, features.grpc)
  <2>1. Client.transport = "Grpc" => features.grpc
    BY DEF Client, Built, NoGrpc
  <2>2. Client.transport \in {"JsonRpc", "Grpc"}
    BY <1>1 DEF Client, BuilderType
  <2>3. /\ Client.url.region = app.region
        /\ app.region \notin CustomRegions => Client.url.of = "public"
        /\ app.region \in CustomRegions /\ Client.transport = "JsonRpc" => Client.url.of = "json_rpc"
        /\ app.region \in CustomRegions /\ Client.transport = "Grpc" => Client.url.of = "grpc"
    BY DEF Client, JsonRpcUrl, GrpcEndpoint
  <2> HIDE DEF e
  <2> QED BY <1>7, <2>1, <2>2, <2>3 DEF EndpointOf
<1>9. e.build \in 1 .. app.begun
  <2>1. app.begun >= 1
    BY <1>1 DEF EngineInv, Begun
  <2> QED BY <1>1, <1>7, <2>1
<1>10. app' \in AppType /\ app'.pc = "idle" /\ app'.begun = app.begun
  BY <1>1 DEF Built, AppType
<1>11. Len(inner) < InnerBound /\ Len(inner) \in Nat
  BY <1>1 DEF EngineInv, EngineTypes, RoomToBuild
<1>12. handle' \in [Handles -> 0 .. Len(inner) + 1]
  <2>1. handle \in [Handles -> 0 .. Len(inner)]
    BY DEF EngineInv, EngineTypes
  <2>2. handle' = [handle EXCEPT ![Least(Free)] = Len(inner) + 1]
    BY DEF Built
  <2>3. \A h \in Handles : handle'[h] = handle[h] \/ handle'[h] = Len(inner) + 1
    BY <2>1, <2>2
  <2>4. DOMAIN handle' = Handles /\ handle' = [h \in Handles |-> handle'[h]]
    BY <2>1, <2>2
  <2> QED BY <1>11, <2>1, <2>3, <2>4
<1>13. \A task \in streams : task.build # app.begun
  BY <1>1 DEF EngineInv, BuildsInOrder, EngineTypes, TaskType
<1>14. /\ streams \subseteq streams' /\ streams' \subseteq TaskType
       /\ \A task \in streams' \ streams : task.build = e.build /\ task.oracle = e.oracle
       /\ \A s, t \in streams' : s.build = t.build => s = t
       /\ features.tip_stream => \E task \in streams' : task.oracle = e.oracle
  BY <1>3, <1>4, <1>7, <1>13 DEF Built, EngineInv, EngineTypes, NoOrphanStreams
<1> HIDE DEF e
<1> QED BY <1>2, <1>6, <1>8, <1>9, <1>10, <1>11, <1>12, <1>14, NewEngineStep DEF Built, e

\* A clone shares the engine; a drop ends no task.
LEMMA HandlesEngine ==
  ASSUME EngineInv, NEW h \in Handles, Clone(h) \/ DropHandle(h)
  PROVE  EngineInv'
<1>1. inner \in Seq(InnerType) /\ handle \in [Handles -> 0 .. Len(inner)] /\ draft \in {NoDraft} \cup DraftType
  BY DEF EngineInv, EngineTypes
<1>2. handle' \in [Handles -> 0 .. Len(inner)]
  BY <1>1 DEF Clone, DropHandle
<1>3. features.tip_stream /\ draft # NoDraft => FedBy(draft.oracle)
  BY DEF EngineInv, AllFed
<1>4. Idle /\ UNCHANGED <<inner, draft>>
  BY DEF Clone, DropHandle
<1> QED BY <1>1, <1>2, <1>3, <1>4, IdleStep

\* The new EngineInner is the old one but for the payer, and as well fed.
LEMMA WithTipPayerEngine ==
  ASSUME EngineInv, NEW h \in Handles, WithTipPayer(h)
  PROVE  EngineInv'
<1> DEFINE old == inner[handle[h]]
<1>1. /\ inner \in Seq(InnerType) /\ handle \in [Handles -> 0 .. Len(inner)]
      /\ handle[h] \in DOMAIN inner /\ old \in InnerType
  BY DEF EngineInv, EngineTypes, WithTipPayer
<1>2. PICK payer \in Payers : inner' = Append(inner, [CloneShallow(old) EXCEPT !.payer = payer])
  BY DEF WithTipPayer
<1> DEFINE e == [CloneShallow(old) EXCEPT !.payer = payer]
<1>3. /\ e \in InnerType
      /\ e.build = old.build /\ e.oracle = old.oracle /\ e.region = old.region /\ e.client = old.client
  BY <1>1 DEF CloneShallow, InnerType
<1>4. e.build \in 1 .. app.begun
  BY <1>1, <1>3 DEF EngineInv, BuildsInOrder
<1>5. EndpointOf(e, features.grpc)
  BY <1>1, <1>3 DEF EngineInv, EndpointOfRegion, EndpointOf
<1>6. features.tip_stream => \E task \in streams : task.oracle = e.oracle
  BY <1>1, <1>3 DEF EngineInv, AllFed, FedBy
<1>7. handle' \in [Handles -> 0 .. Len(inner) + 1]
  BY <1>1 DEF WithTipPayer
<1>8. streams \subseteq TaskType /\ \A s, t \in streams : s.build = t.build => s = t
  BY DEF EngineInv, EngineTypes, NoOrphanStreams
<1>9. /\ UNCHANGED <<vars, features, draft, app, streams>> /\ Len(inner) < InnerBound
      /\ app \in AppType /\ app.pc = "idle"
  BY DEF WithTipPayer, Idle, EngineInv, EngineTypes
<1> HIDE DEF e
<1> QED BY <1>2, <1>3, <1>4, <1>5, <1>6, <1>7, <1>8, <1>9, NewEngineStep DEF e

\* A draft asks its engine's oracle.
LEMMA BundleEngine ==
  ASSUME EngineInv, NEW h \in Handles, Bundle(h)
  PROVE  EngineInv'
<1> DEFINE e == inner[handle[h]]
<1>1. /\ inner \in Seq(InnerType) /\ handle \in [Handles -> 0 .. Len(inner)]
      /\ handle[h] \in DOMAIN inner /\ e \in InnerType
  BY DEF EngineInv, EngineTypes, Bundle
<1>2. draft' \in DraftType /\ draft'.oracle = e.oracle
  BY <1>1, EngineConstants DEF Bundle, DraftType, InnerType, AccountIndexOf
<1>3. features.tip_stream => FedBy(e.oracle)
  BY <1>1 DEF EngineInv, AllFed
<1>4. Idle /\ UNCHANGED <<inner, handle>>
  BY DEF Bundle
<1> QED BY <1>1, <1>2, <1>3, <1>4, IdleStep

\* The setters keep a draft and where it goes; submit() ends it.
LEMMA DraftSet ==
  ASSUME EngineInv, SetTip \/ SetTipAccountIndex \/ SetRetryPolicy \/ SetMaxAttempts \/ Submit
  PROVE  /\ Idle /\ UNCHANGED <<inner, handle>> /\ draft \in DraftType /\ draft # NoDraft
         /\ \/ Submit /\ draft' = NoDraft
            \/ /\ draft' \in DraftType
               /\ draft'.client = draft.client
               /\ draft'.oracle = draft.oracle
               /\ draft'.payer = draft.payer
<1>1. Idle /\ draft # NoDraft /\ UNCHANGED <<inner, handle>>
  BY DEF SetTip, SetTipAccountIndex, SetRetryPolicy, SetMaxAttempts, Submit, Set
<1>2. draft \in DraftType /\ draft.retry \in RetryType
  BY <1>1 DEF EngineInv, EngineTypes, DraftType
<1> DEFINE Kept == /\ draft' \in DraftType
                   /\ draft'.client = draft.client
                   /\ draft'.oracle = draft.oracle
                   /\ draft'.payer = draft.payer
<1>3. CASE SetTip
  <2>1. Kept
    BY <1>2, <1>3 DEF SetTip, Set, DraftType, Origins
  <2> QED BY <1>1, <1>2, <2>1
<1>4. CASE SetTipAccountIndex
  <2>1. Kept
    BY <1>2, <1>4 DEF SetTipAccountIndex, Set, DraftType
  <2> QED BY <1>1, <1>2, <2>1
<1>5. ASSUME NEW policy \in RetryType, draft' = [draft EXCEPT !.retry = policy] PROVE Kept
  BY <1>2, <1>5 DEF DraftType
<1>6. CASE SetRetryPolicy
  <2>1. [max_attempts |-> 5, rest |-> "bundle"] \in RetryType
    BY DEF RetryType, Origins
  <2>2. Kept
    BY <1>5, <1>6, <2>1 DEF SetRetryPolicy, Set
  <2> QED BY <1>1, <1>2, <2>2
<1>7. CASE SetMaxAttempts
  <2>1. PICK n \in {0, 4} : draft' = [draft EXCEPT !.retry.max_attempts = IF n = 0 THEN 1 ELSE n]
    BY <1>7 DEF SetMaxAttempts, Set
  <2> DEFINE policy == [draft.retry EXCEPT !.max_attempts = IF n = 0 THEN 1 ELSE n]
  <2>2. policy \in RetryType
    BY <1>2 DEF RetryType
  <2>3. draft' = [draft EXCEPT !.retry = policy]
    BY <1>2, <2>1 DEF DraftType
  <2> HIDE DEF policy
  <2>4. Kept
    BY <1>5, <2>2, <2>3
  <2> QED BY <1>1, <1>2, <2>4
<1>8. CASE Submit
  BY <1>1, <1>2, <1>8 DEF Submit
<1> QED BY <1>3, <1>4, <1>6, <1>7, <1>8

\* A draft keeps its oracle until it is gone.
LEMMA DraftEngine ==
  ASSUME EngineInv, SetTip \/ SetTipAccountIndex \/ SetRetryPolicy \/ SetMaxAttempts \/ Submit
  PROVE  EngineInv'
<1>1. inner \in Seq(InnerType) /\ handle \in [Handles -> 0 .. Len(inner)]
  BY DEF EngineInv, EngineTypes
<1>2. draft # NoDraft /\ features.tip_stream => FedBy(draft.oracle)
  BY DEF EngineInv, AllFed
<1> QED BY <1>1, <1>2, DraftSet, IdleStep

\* Every step keeps the invariant.
LEMMA EngineStep == EngineInv /\ [EngineNext]_engineVars => EngineInv'
<1> SUFFICES ASSUME EngineInv, [EngineNext]_engineVars PROVE EngineInv'
  OBVIOUS
<1>1. CASE BeginBuild
  BY <1>1, BeginBuildEngine
<1>2. CASE Selected
  BY <1>2, SelectedEngine
<1>3. CASE ConnectFailed
  BY <1>3, ConnectFailedEngine
<1>4. CASE Built
  BY <1>4, BuiltEngine
<1>5. ASSUME \/ Selecting(BuildFailed) \/ Selecting(SpawnProbes) \/ Selecting(Collect)
             \/ Selecting(Return) \/ Selecting(Tick)
             \/ \E i \in Probes : \/ Selecting(Begin(i)) \/ Selecting(TimesOut(i)) \/ Selecting(Answers(i))
                                  \/ Selecting(Unreachable(i)) \/ Selecting(Panics(i))
      PROVE  EngineInv'
  <2>1. Next /\ UNCHANGED engine
    BY <1>5 DEF Selecting, Next
  <2> QED BY <2>1, SelectingEngine
<1>6. ASSUME NEW h \in Handles, Clone(h) \/ DropHandle(h) \/ WithTipPayer(h) \/ Bundle(h)
      PROVE  EngineInv'
  BY <1>6, HandlesEngine, WithTipPayerEngine, BundleEngine
<1>7. CASE SetTip \/ SetTipAccountIndex \/ SetRetryPolicy \/ SetMaxAttempts \/ Submit
  BY <1>7, DraftEngine
<1>8. CASE UNCHANGED engineVars
  <2>1. UNCHANGED vars /\ UNCHANGED <<app, features, inner, handle, draft, streams>>
    BY <1>8 DEF engineVars, engine
  <2>2. SelectInv' /\ app \in AppType /\ app.begun \in Nat
    BY <2>1, SelectSame, EngineConstants DEF EngineInv, EngineTypes, AppType
  <2> QED BY <2>1, <2>2, ProgramStep DEF EngineInv, BuildsInOrder, Begun, RoomToBuild
<1> QED BY <1>1, <1>2, <1>3, <1>4, <1>5, <1>6, <1>7, <1>8 DEF EngineNext

\* The invariant holds in every state of the program.
LEMMA EngineInvariant == EngineSpec => []EngineInv
BY InitEngine, EngineStep, PTL DEF EngineSpec

\* The variables of the program and of build() keep their types, for any
\* number of builds, handles, payers and regions.
THEOREM EngineTypesHold == EngineSpec => []EngineTypeOK
<1>1. EngineInv => EngineTypeOK
  <2> SUFFICES ASSUME EngineInv PROVE EngineTypeOK
    OBVIOUS
  <2>1. \A i \in DOMAIN inner : /\ inner[i].payer \in Payers
                                /\ inner[i].retry \in RetryType
                                /\ inner[i].build \in 1 .. app.begun
    <3> SUFFICES ASSUME NEW i \in DOMAIN inner
                 PROVE  /\ inner[i].payer \in Payers
                        /\ inner[i].retry \in RetryType
                        /\ inner[i].build \in 1 .. app.begun
      OBVIOUS
    <3>1. inner[i] \in InnerType
      BY DEF EngineInv, EngineTypes
    <3>2. inner[i].build \in 1 .. app.begun
      BY DEF EngineInv, BuildsInOrder
    <3> QED BY <3>1, <3>2 DEF InnerType
  <2>2. draft # NoDraft => draft.payer \in Payers /\ draft.retry \in RetryType
    BY DEF EngineInv, EngineTypes, DraftType
  <2> QED BY <2>1, <2>2 DEF EngineInv, EngineTypes, AppType, EngineTypeOK
<1> QED BY <1>1, EngineInvariant, PTL

\* Every engine that is held and every draft asks an oracle that a running
\* task feeds, in a binary with the tip stream: a swap of the payer and a drop
\* of the other handles leave the task alone.
THEOREM OraclesAreFed == EngineSpec => []OracleIsFed
<1>1. EngineInv => OracleIsFed
  BY DEF EngineInv, EngineTypes, AllFed, FedBy, OracleIsFed
<1> QED BY <1>1, EngineInvariant, PTL

\* A build that fails, in the selection or at the connection, leaves no task
\* behind, and no build starts a second one.
THEOREM FailedBuildsLeaveNothing == EngineSpec => []NoOrphanStreams
<1>1. EngineInv => NoOrphanStreams
  BY DEF EngineInv
<1> QED BY <1>1, EngineInvariant, PTL

\* An engine sends its bundles where its region says, whatever the transport.
THEOREM EndpointsAreOfRegions == EngineSpec => []EndpointOfRegion
<1>1. EngineInv => EndpointOfRegion
  BY DEF EngineInv
<1> QED BY <1>1, EngineInvariant, PTL

\* The selection within build() is that of RegionSelect, time and again: each
\* one ends with the fastest region that answered it.
THEOREM EverySelectionIsFastest == EngineSpec => [](TypeOK /\ FastestResponderWins)
<1>1. EngineInv => TypeOK /\ FastestResponderWins
  BY DEF EngineInv, SelectInv, CallerOK, FastestResponderWins
<1> QED BY <1>1, EngineInvariant, PTL

-----------------------------------------------------------------------------
(***************************************************************************)
(* A handle is a value: every step of the program is one of EngineValue,   *)
(* or leaves what is held alone.                                           *)
(***************************************************************************)

\* The variable that takes a new engine is one that holds none.
LEMMA LeastFree == Free # {} => Least(Free) \in Free
<1> SUFFICES ASSUME Free # {} PROVE Least(Free) \in Free
  OBVIOUS
<1>1. Free \subseteq Nat
  BY EngineConstants DEF Free
<1>2. PICK h \in Free : \A g \in Free : <<g, h>> \notin OpToRel(<, Nat)
  BY <1>1, NatLessThanWellFounded, WFMin
<1>3. ASSUME NEW g \in Free PROVE h <= g
  <2>1. g \in Nat /\ h \in Nat
    BY <1>1
  <2>2. g < h => <<g, h>> \in OpToRel(<, Nat)
    <3> DEFINE ss == <<g, h>>
    <3>1. ss \in Nat \X Nat /\ ss[1] = g /\ ss[2] = h
      BY <2>1
    <3> HIDE DEF ss
    <3>2. g < h => ss \in OpToRel(<, Nat)
      BY <3>1 DEF OpToRel
    <3> QED BY <3>2 DEF ss
  <2>3. ~(g < h)
    BY <1>2, <2>2, Zenon
  <2> QED BY <2>1, <2>3
<1> QED BY <1>3 DEF Least

\* Where a step moves the pointer of one handle and keeps the engines there
\* are, the other handles hold what they held.
LEMMA OnlyMoved ==
  ASSUME EngineInv, NEW h \in Handles, NEW n \in Nat,
         handle' = [handle EXCEPT ![h] = n],
         \A i \in DOMAIN inner : inner'[i] = inner[i]
  PROVE  /\ Held' = [Held EXCEPT ![h] = Held'[h]]
         /\ Held'[h] = IF n = 0 THEN NoDraft ELSE inner'[n]
<1>1. handle \in [Handles -> 0 .. Len(inner)] /\ DOMAIN inner = 1 .. Len(inner) /\ Len(inner) \in Nat
  BY DEF EngineInv, EngineTypes
<1>2. \A g \in Handles : handle[g] # 0 => handle[g] \in DOMAIN inner
  BY <1>1
<1>3. handle'[h] = n /\ \A g \in Handles \ {h} : handle'[g] = handle[g]
  BY <1>1
<1>4. Held' = [g \in Handles |-> IF handle'[g] = 0 THEN NoDraft ELSE inner'[handle'[g]]]
  BY DEF Held
<1>5. \A g \in Handles \ {h} : Held'[g] = Held[g]
  BY <1>2, <1>3, <1>4 DEF Held
<1>6. DOMAIN Held = Handles /\ DOMAIN Held' = Handles
  BY <1>4 DEF Held
<1>7. Held' = [g \in Handles |-> Held'[g]]
  BY <1>4
<1>8. [Held EXCEPT ![h] = Held'[h]] = [g \in Handles |-> IF g = h THEN Held'[h] ELSE Held[g]]
  BY <1>6
<1>9. Held' = [Held EXCEPT ![h] = Held'[h]]
  BY ONLY <1>5, <1>7, <1>8
<1> QED BY <1>3, <1>4, <1>9

\* What a handle that holds an engine holds.
LEMMA HeldIs ==
  ASSUME EngineInv, NEW h \in Handles
  PROVE  /\ handle[h] = 0 => Held[h] = NoDraft
         /\ handle[h] # 0 => /\ handle[h] \in DOMAIN inner
                            /\ Held[h] = inner[handle[h]]
                            /\ Held[h] \in InnerType /\ Held[h] # NoDraft
<1>1. handle[h] \in 0 .. Len(inner) /\ inner \in Seq(InnerType)
  BY DEF EngineInv, EngineTypes
<1>2. handle[h] # 0 => handle[h] \in DOMAIN inner /\ inner[handle[h]] \in InnerType
  BY <1>1
<1> QED BY <1>2, InnerIsSomething DEF Held

\* The engine that is built goes to a free handle.
LEMMA BuiltObtains == EngineInv /\ EngineInv' /\ Built => \E h \in Handles : Value!Obtain(h)
<1> SUFFICES ASSUME EngineInv, EngineInv', Built PROVE \E h \in Handles : Value!Obtain(h)
  OBVIOUS
<1> DEFINE h == Least(Free)
<1>1. h \in Handles /\ handle[h] = 0
  BY LeastFree DEF Built, EngineInv, RoomToBuild, Free
<1>2. PICK e : inner' = Append(inner, e)
  BY DEF Built
<1>3. /\ Len(inner) \in Nat
      /\ \A i \in DOMAIN inner : inner'[i] = inner[i]
      /\ inner'[Len(inner) + 1] \in InnerType
  BY <1>2 DEF EngineInv, EngineTypes
<1> DEFINE n == Len(inner) + 1
<1> HIDE DEF h
<1>4. n \in Nat /\ n # 0
  BY <1>3
<1>5. handle' = [handle EXCEPT ![h] = n]
  BY DEF Built, h
<1> HIDE DEF n
<1>6. /\ Held' = [Held EXCEPT ![h] = Held'[h]]
      /\ Held'[h] = inner'[n]
  BY <1>1, <1>3, <1>4, <1>5, OnlyMoved
<1>7. Held[h] = NoDraft /\ Held'[h] # NoDraft
  BY <1>1, <1>3, <1>6, HeldIs, InnerIsSomething DEF n
<1>8. Value!Obtain(h)
  BY <1>6, <1>7 DEF Built, Value!Obtain, Value!Only, Value!Nothing, NoDraft
<1> QED BY <1>1, <1>8

\* A clone is a copy.
LEMMA CloneCopies ==
  ASSUME EngineInv, NEW g \in Handles, Clone(g)
  PROVE  \E h \in Handles : Value!Copy(g, h)
<1> DEFINE h == Least(Free)
<1>1. h \in Handles /\ handle[h] = 0
  BY LeastFree DEF Clone, Free
<1>2. handle[g] # 0 /\ handle[g] \in Nat
  BY DEF Clone, EngineInv, EngineTypes
<1> HIDE DEF h
<1>3. handle' = [handle EXCEPT ![h] = handle[g]] /\ UNCHANGED <<inner, draft>>
  BY DEF Clone, h
<1>4. /\ Held' = [Held EXCEPT ![h] = Held'[h]]
      /\ Held'[h] = inner[handle[g]]
  BY <1>1, <1>2, <1>3, OnlyMoved
<1>5. Held[h] = NoDraft /\ Held[g] # NoDraft /\ Held[g] = inner[handle[g]]
  BY <1>1, <1>2, HeldIs
<1>6. Value!Copy(g, h)
  BY <1>3, <1>4, <1>5 DEF Value!Copy, Value!Only, Value!Nothing, NoDraft
<1> QED BY <1>1, <1>6

\* A drop is seen by no other handle.
LEMMA DropReleases ==
  ASSUME EngineInv, NEW h \in Handles, DropHandle(h)
  PROVE  Value!Release(h)
<1>1. handle' = [handle EXCEPT ![h] = 0] /\ UNCHANGED <<inner, draft>> /\ handle[h] # 0
  BY DEF DropHandle
<1>2. Held' = [Held EXCEPT ![h] = Held'[h]] /\ Held'[h] = NoDraft
  BY <1>1, OnlyMoved
<1>3. Held[h] # NoDraft
  BY <1>1, HeldIs
<1> QED BY <1>1, <1>2, <1>3 DEF Value!Release, Value!Only, Value!Nothing, NoDraft

\* The swap of the payer is of this handle's engine only.
LEMMA WithTipPayerRepays ==
  ASSUME EngineInv, NEW h \in Handles, WithTipPayer(h)
  PROVE  Value!Repay(h)
<1>1. handle[h] # 0 /\ Held[h] = inner[handle[h]] /\ Held[h] \in InnerType /\ Held[h] # NoDraft
  BY HeldIs DEF WithTipPayer
<1>2. CloneShallow(Held[h]) = Held[h]
  BY <1>1 DEF CloneShallow, InnerType
<1>3. PICK payer \in Payers : inner' = Append(inner, [CloneShallow(Held[h]) EXCEPT !.payer = payer])
  BY <1>1 DEF WithTipPayer
<1>4. /\ Len(inner) \in Nat
      /\ \A i \in DOMAIN inner : inner'[i] = inner[i]
      /\ inner'[Len(inner) + 1] = [Held[h] EXCEPT !.payer = payer]
  BY <1>2, <1>3 DEF EngineInv, EngineTypes
<1> DEFINE n == Len(inner) + 1
<1>5. n \in Nat /\ n # 0 /\ inner'[n] = [Held[h] EXCEPT !.payer = payer]
  BY <1>4
<1>6. handle' = [handle EXCEPT ![h] = n] /\ UNCHANGED draft
  BY DEF WithTipPayer
<1> HIDE DEF n
<1>7. /\ Held' = [Held EXCEPT ![h] = Held'[h]]
      /\ Held'[h] = [Held[h] EXCEPT !.payer = payer]
  BY <1>4, <1>5, <1>6, OnlyMoved
<1> QED BY <1>1, <1>6, <1>7 DEF Value!Repay, Value!Only, Value!Nothing, NoDraft, Payers

\* A draft takes what its engine has now.
LEMMA BundleDrafts ==
  ASSUME EngineInv, NEW h \in Handles, Bundle(h)
  PROVE  Value!Draft(h)
<1>1. Held[h] = inner[handle[h]] /\ Held[h] # NoDraft
  BY HeldIs DEF Bundle
<1>2. UNCHANGED Held
  BY DEF Bundle, Held
<1> QED BY <1>1, <1>2 DEF Bundle, Value!Draft, Value!Nothing, NoDraft, AccountIndexOf

\* What the setters do is within what a draft may become, and submit() ends it.
LEMMA SettersAdjust ==
  ASSUME EngineInv, SetTip \/ SetTipAccountIndex \/ SetRetryPolicy \/ SetMaxAttempts \/ Submit
  PROVE  Value!Adjust \/ Value!Finish
<1>1. UNCHANGED Held
  BY DraftSet DEF Held
<1>2. CASE draft' = NoDraft
  BY <1>1, <1>2, DraftSet DEF Value!Finish, Value!Nothing, NoDraft
<1>3. CASE /\ draft' \in DraftType
           /\ draft'.client = draft.client
           /\ draft'.oracle = draft.oracle
           /\ draft'.payer = draft.payer
  <2>1. draft \in DraftType /\ draft # NoDraft /\ draft' # NoDraft
    BY <1>3, DraftSet, DraftIsSomething
  <2>2. draft' = [draft EXCEPT !.account = draft'.account, !.retry = draft'.retry,
                               !.strategy = draft'.strategy]
    BY <1>3, <2>1 DEF DraftType
  <2> QED BY <1>1, <2>1, <2>2 DEF Value!Adjust, Value!Nothing, NoDraft
<1> QED BY <1>2, <1>3, DraftSet

\* Every step of the program is one of EngineValue, or none.
LEMMA ValueStep ==
  EngineInv /\ EngineInv' /\ [EngineNext]_engineVars => [Value!Next]_<<Held, draft>>
<1> SUFFICES ASSUME EngineInv, EngineInv', [EngineNext]_engineVars
             PROVE  Value!Next \/ UNCHANGED <<Held, draft>>
  OBVIOUS
<1>1. CASE BeginBuild \/ Selected \/ ConnectFailed
  BY <1>1 DEF BeginBuild, Selected, ConnectFailed, Fail, Held
<1>2. CASE Built
  BY <1>2, BuiltObtains DEF Value!Next
<1>3. ASSUME \/ Selecting(BuildFailed) \/ Selecting(SpawnProbes) \/ Selecting(Collect)
             \/ Selecting(Return) \/ Selecting(Tick)
             \/ \E i \in Probes : \/ Selecting(Begin(i)) \/ Selecting(TimesOut(i)) \/ Selecting(Answers(i))
                                  \/ Selecting(Unreachable(i)) \/ Selecting(Panics(i))
      PROVE  UNCHANGED <<Held, draft>>
  BY <1>3 DEF Selecting, engine, Held
<1>4. ASSUME NEW h \in Handles, Clone(h) \/ DropHandle(h) \/ WithTipPayer(h) \/ Bundle(h)
      PROVE  Value!Next
  BY <1>4, CloneCopies, DropReleases, WithTipPayerRepays, BundleDrafts DEF Value!Next
<1>5. CASE SetTip \/ SetTipAccountIndex \/ SetRetryPolicy \/ SetMaxAttempts \/ Submit
  BY <1>5, SettersAdjust DEF Value!Next
<1>6. CASE UNCHANGED engineVars
  BY <1>6 DEF engineVars, engine, Held
<1> QED BY <1>1, <1>2, <1>3, <1>4, <1>5, <1>6 DEF EngineNext

\* Sharing is invisible: a program that clones, drops and swaps payers sees
\* each handle and each draft as a value of its own.
THEOREM HandlesAreValues == EngineSpec => ImplementsValue
<1>1. EngineInit => Value!Init
  BY DEF EngineInit, Value!Init, Value!Nothing, NoDraft, Held
<1> QED BY <1>1, EngineInvariant, ValueStep, PTL DEF EngineSpec, ImplementsValue, Value!Spec

=============================================================================
