------------------------------- MODULE Engine -------------------------------
(***************************************************************************)
(* JitoEngine and JitoEngineBuilder of src/engine.rs: a program that       *)
(* builds engines one after the other, with or without region selection,   *)
(* hands their handles around, swaps the tip payer of one, and drafts      *)
(* bundles from them.                                                      *)
(*                                                                         *)
(* A handle is an Arc<EngineInner>: handle[h] is an index into inner, and  *)
(* 0 when h holds no engine.  app.pc stops at the awaits of build():       *)
(*    idle     no build is running                                         *)
(*    select   awaiting Region::auto_select, see RegionSelect              *)
(*    connect  making the client, an await only over gRPC, see AwaitsPeer  *)
(* Oracles are numbered by the build that creates them; 0 is the oracle of *)
(* the program itself, which it may give to any builder.                   *)
(***************************************************************************)
EXTENDS RegionSelect

CONSTANTS
  CustomRegions, \* the Region::Custom the program knows
  FeatureSets,   \* the cargo features the crate may be compiled with
  Plans,         \* Plans[i]: the builders the i-th build may consume
  FirstByte,     \* FirstByte[payer]: the first byte of the payer's public key
  Ephemeral,     \* the payers Keypair::new may generate
  Handles,       \* the variables of the program that may hold an engine
  InnerBound     \* how many EngineInner are ever made

Payers == DOMAIN FirstByte

NoPayer == 0

\* What the builder and the program may set a field to; where it comes from is
\* all that matters.
Origins == {"default", "engine", "bundle"}

RetryType == [max_attempts : Nat \ {0}, rest : Origins]

BuilderType == [ region         : {NoRegion} \cup {Catalog[i] : i \in Probes} \cup CustomRegions,
                 transport      : {"JsonRpc", "Grpc"},
                 given_oracle   : BOOLEAN,
                 tip_payer      : Payers \cup {NoPayer},
                 retry          : RetryType,
                 strategy       : Origins,
                 tip_stream_url : {"default", "own"} ]

ASSUME EngineAssumption ==
  /\ Plans \in Seq(SUBSET BuilderType)
  /\ FeatureSets \subseteq [grpc : BOOLEAN, tip_stream : BOOLEAN]
  /\ Ephemeral \subseteq Payers /\ NoPayer \notin Payers
  /\ FirstByte \in [Payers -> 0 .. 255]
  /\ Handles \subseteq Nat /\ InnerBound \in Nat
  /\ CustomRegions \subseteq Nat /\ NoRegion \notin CustomRegions

VARIABLES
  features, \* the features of this binary
  app,      \* the control state of the program and of its build()
  inner,    \* every EngineInner made so far
  handle,   \* handle[h]: which of them h points to
  draft,    \* the BundleBuilder in the making, or NoDraft
  streams   \* the tip stream tasks that are running

engine == <<features, app, inner, handle, draft, streams>>

engineVars == <<vars, engine>>

\* JitoEngine::builder(); auto_region() is the build of it.
DefaultBuilder ==
  [ region |-> NoRegion, transport |-> "JsonRpc", given_oracle |-> FALSE, tip_payer |-> NoPayer,
    retry |-> [max_attempts |-> 3, rest |-> "default"], strategy |-> "default",
    tip_stream_url |-> "default" ]

NoDraft == [kind |-> "nothing"]

EngineInit ==
  /\ Init
  /\ features \in FeatureSets
  /\ app = [pc |-> "idle", begun |-> 0, builder |-> DefaultBuilder, region |-> NoRegion,
            error |-> "none"]
  /\ inner = << >>
  /\ handle = [h \in Handles |-> 0]
  /\ draft = NoDraft
  /\ streams = {}

-----------------------------------------------------------------------------
(***************************************************************************)
(* The endpoints of a region.  A custom region names its own, but for the  *)
(* tip stream.                                                             *)
(***************************************************************************)
JsonRpcUrl(region) == [region |-> region, of |-> IF region \in CustomRegions THEN "json_rpc" ELSE "public"]

\* An endpoint that ignores the second field of Region::Custom.
GrpcEndpointOfJsonRpc(region) == JsonRpcUrl(region)

GrpcEndpoint(region) == [region |-> region, of |-> IF region \in CustomRegions THEN "grpc" ELSE "public"]

TipStreamUrl(region) == "bundles.jito.wtf"

-----------------------------------------------------------------------------
(***************************************************************************)
(* build().                                                                *)
(***************************************************************************)
Free == {h \in Handles : handle[h] = 0}

Least(S) == CHOOSE h \in S : \A g \in S : h <= g

BeginBuild ==
  /\ app.pc = "idle" /\ app.begun < Len(Plans)
  /\ Free # {} /\ Len(inner) < InnerBound
  /\ \E b \in Plans[app.begun + 1] :
       app' = [ pc      |-> IF b.region = NoRegion THEN "select" ELSE "connect",
                begun   |-> app.begun + 1,
                builder |-> b,
                region  |-> b.region,
                error   |-> "none" ]
  /\ UNCHANGED <<vars, features, inner, handle, draft, streams>>

\* A step of the region selection.
Selecting(A) == app.pc = "select" /\ A /\ UNCHANGED engine

\* build() returns an error; the builder is gone.
Fail(error) ==
  /\ app' = [app EXCEPT !.pc = "idle", !.error = error]
  /\ UNCHANGED <<features, inner, handle, draft, streams>>

Selected ==
  /\ app.pc = "select" /\ caller.pc = "done"
  /\ \/ caller.result = NoRegion /\ Fail("Transport")
     \/ /\ caller.result # NoRegion
        /\ app' = [app EXCEPT !.pc = "connect", !.region = caller.result]
        /\ UNCHANGED <<features, inner, handle, draft, streams>>
  /\ now' = 0 /\ probe' = NoProbes /\ caller' = NewCaller

NoGrpc == app.builder.transport = "Grpc" /\ ~features.grpc

\* The HTTP client may not be buildable.
JsonRpcNewErrors == {"Transport"}

\* A channel may have no TLS or no connection; the endpoint of a custom region
\* may be no URI.
GrpcConnectErrors(region) ==
  {"Transport"} \cup IF region \in CustomRegions THEN {"InvalidConfig"} ELSE {}

ConnectErrors ==
  CASE NoGrpc -> {"InvalidConfig"}
    [] app.builder.transport = "JsonRpc" -> JsonRpcNewErrors
    [] OTHER -> GrpcConnectErrors(app.region)

\* The task that feeds the oracle of this build.
StreamTask ==
  [ build  |-> app.begun,
    oracle |-> IF app.builder.given_oracle THEN 0 ELSE app.begun,
    url    |-> IF app.builder.tip_stream_url = "own" THEN "own" ELSE TipStreamUrl(app.region) ]

\* A build that spawns the stream before it has its client.
ConnectFailedAfterSpawn ==
  /\ app.pc = "connect"
  /\ \E error \in ConnectErrors : app' = [app EXCEPT !.pc = "idle", !.error = error]
  /\ streams' = IF features.tip_stream THEN streams \cup {StreamTask} ELSE streams
  /\ UNCHANGED <<vars, features, inner, handle, draft>>

ConnectFailed ==
  /\ app.pc = "connect"
  /\ \E error \in ConnectErrors : Fail(error)
  /\ UNCHANGED vars

Client == [ transport |-> app.builder.transport,
            url       |-> IF app.builder.transport = "JsonRpc" THEN JsonRpcUrl(app.region)
                                                              ELSE GrpcEndpoint(app.region) ]

NewEngine(payer) == [ build     |-> app.begun,
                      region    |-> app.region,
                      client    |-> Client,
                      oracle    |-> StreamTask.oracle,
                      payer     |-> payer,
                      retry     |-> app.builder.retry,
                      strategy  |-> app.builder.strategy ]

\* From the connection on, build() runs to its end without an await.  The
\* JoinHandle of the stream task is dropped, which does not end the task.
Built ==
  /\ app.pc = "connect" /\ ~NoGrpc
  /\ \E payer \in IF app.builder.tip_payer = NoPayer THEN Ephemeral ELSE {app.builder.tip_payer} :
       inner' = Append(inner, NewEngine(payer))
  /\ handle' = [handle EXCEPT ![Least(Free)] = Len(inner) + 1]
  /\ streams' = IF features.tip_stream THEN streams \cup {StreamTask} ELSE streams
  /\ app' = [app EXCEPT !.pc = "idle"]
  /\ UNCHANGED <<vars, features, draft>>

-----------------------------------------------------------------------------
(***************************************************************************)
(* What the program does with its engines.                                 *)
(***************************************************************************)
Idle == app.pc = "idle" /\ UNCHANGED <<vars, features, app, streams>>

Clone(h) ==
  /\ Idle /\ handle[h] # 0 /\ Free # {}
  /\ handle' = [handle EXCEPT ![Least(Free)] = handle[h]]
  /\ UNCHANGED <<inner, draft>>

\* The stream task has an oracle handle of its own and runs on.
DropHandle(h) ==
  /\ Idle /\ handle[h] # 0
  /\ handle' = [handle EXCEPT ![h] = 0]
  /\ UNCHANGED <<inner, draft>>

\* A swap inside the EngineInner that other handles point to as well.
WithTipPayerInPlace(h) ==
  /\ Idle /\ handle[h] # 0
  /\ \E payer \in Payers : inner' = [inner EXCEPT ![handle[h]].payer = payer]
  /\ UNCHANGED <<handle, draft>>

\* A copy that gets an oracle of its own.
CloneShallowNewOracle(e) == [e EXCEPT !.oracle = Len(Plans) + Len(inner)]

\* The client and the oracle are shared with the old EngineInner.
CloneShallow(e) ==
  [ build |-> e.build, region |-> e.region, client |-> e.client, oracle |-> e.oracle,
    payer |-> e.payer, retry |-> e.retry, strategy |-> e.strategy ]

WithTipPayer(h) ==
  /\ Idle /\ handle[h] # 0 /\ Len(inner) < InnerBound
  /\ \E payer \in Payers :
       inner' = Append(inner, [CloneShallow(inner[handle[h]]) EXCEPT !.payer = payer])
  /\ handle' = [handle EXCEPT ![h] = Len(inner) + 1]
  /\ UNCHANGED draft

AccountIndexOf(payer) == FirstByte[payer]

Bundle(h) ==
  /\ Idle /\ handle[h] # 0 /\ draft = NoDraft
  /\ LET e == inner[handle[h]]
     IN  draft' = [ client   |-> e.client,
                    oracle   |-> e.oracle,
                    payer    |-> e.payer,
                    account  |-> AccountIndexOf(e.payer),
                    retry    |-> e.retry,
                    strategy |-> e.strategy ]
  /\ UNCHANGED <<inner, handle>>

Set(d) == Idle /\ draft # NoDraft /\ draft' = d /\ UNCHANGED <<inner, handle>>

\* The setters of the builder.  One value each will do: that it is not the
\* engine's is what matters.
SetTip == Set([draft EXCEPT !.strategy = "bundle"])

SetTipAccountIndex == Set([draft EXCEPT !.account = 255])

SetRetryPolicy == Set([draft EXCEPT !.retry = [max_attempts |-> 5, rest |-> "bundle"]])

\* Attempts taken as they come.
SetMaxAttemptsUnclamped ==
  \E n \in {0, 4} : Set([draft EXCEPT !.retry.max_attempts = n])

\* Zero attempts are one, and the rest of the policy stays.
SetMaxAttempts ==
  \E n \in {0, 4} : Set([draft EXCEPT !.retry.max_attempts = IF n = 0 THEN 1 ELSE n])

\* submit() consumes the draft: see BundleSubmit.
Submit == Idle /\ draft # NoDraft /\ draft' = NoDraft /\ UNCHANGED <<inner, handle>>

EngineNext ==
  \/ BeginBuild \/ Selected \/ ConnectFailed \/ Built
  \/ Selecting(BuildFailed) \/ Selecting(SpawnProbes) \/ Selecting(Collect)
  \/ Selecting(Return) \/ Selecting(Tick)
  \/ \E i \in Probes : \/ Selecting(Begin(i)) \/ Selecting(TimesOut(i)) \/ Selecting(Answers(i))
                       \/ Selecting(Unreachable(i)) \/ Selecting(Panics(i))
  \/ \E h \in Handles : Clone(h) \/ DropHandle(h) \/ WithTipPayer(h) \/ Bundle(h)
  \/ SetTip \/ SetTipAccountIndex \/ SetRetryPolicy \/ SetMaxAttempts \/ Submit

\* The client is a gRPC channel, whose connection build() awaits with no timeout
\* of its own: the one that is set is for requests.  A peer that accepts TCP and
\* is silent in the TLS handshake may keep it waiting for ever.
AwaitsPeer == app.pc = "connect" /\ app.builder.transport = "Grpc" /\ features.grpc

\* build() is scheduled to its end: the selection as the runtime and the probe
\* timeout have it, and a client that is made without an await, which is any
\* but a gRPC channel.  Neither a peer nor the program owes anything.
EngineSpec ==
  /\ EngineInit /\ [][EngineNext]_engineVars
  /\ WF_engineVars(Selecting(BuildFailed \/ SpawnProbes)) /\ WF_engineVars(Selecting(Collect))
  /\ WF_engineVars(Selecting(Return)) /\ WF_engineVars(Selecting(Tick))
  /\ \A i \in Probes : WF_engineVars(Selecting(Begin(i))) /\ WF_engineVars(Selecting(TimesOut(i)))
  /\ WF_engineVars(Selected) /\ WF_engineVars(~AwaitsPeer /\ (ConnectFailed \/ Built))

-----------------------------------------------------------------------------
\* Every variable has its type.  The builders of failed builds are forgotten,
\* the EngineInner of successful ones are kept.
EngineTypeOK ==
  /\ features \in FeatureSets
  /\ app.pc \in {"idle", "select", "connect"}
  /\ app.begun \in 0 .. Len(Plans)
  /\ app.builder \in BuilderType
  /\ app.error \in {"none", "Transport", "InvalidConfig"}
  /\ Len(inner) <= InnerBound
  /\ \A i \in DOMAIN inner : /\ inner[i].payer \in Payers
                             /\ inner[i].retry \in RetryType
                             /\ inner[i].build \in 1 .. app.begun
  /\ handle \in [Handles -> 0 .. Len(inner)]
  /\ draft # NoDraft => draft.payer \in Payers /\ draft.retry \in RetryType

\* Where an engine sends its bundles is where its region says: a custom region
\* has an endpoint for each transport, and a gRPC engine exists only in a
\* binary that has gRPC.
EndpointOfRegion ==
  \A i \in DOMAIN inner :
    LET client == inner[i].client
    IN  /\ client.url.region = inner[i].region
        /\ client.transport = "Grpc" => features.grpc
        /\ client.url.of = IF inner[i].region \notin CustomRegions THEN "public"
                           ELSE IF client.transport = "JsonRpc" THEN "json_rpc" ELSE "grpc"

\* In a binary with the tip stream, the oracle an engine or a draft asks is one
\* that a running task feeds, also after any number of clones and swaps of the
\* payer and after every other handle is gone.
OracleIsFed ==
  features.tip_stream =>
    LET fed == {task.oracle : task \in streams}
    IN  /\ \A h \in Handles : handle[h] # 0 => inner[handle[h]].oracle \in fed
        /\ draft # NoDraft => draft.oracle \in fed

\* A build that failed leaves nothing behind: the running tasks are those of
\* the engines that were built, one each, and each feeds its engine's oracle.
NoOrphanStreams ==
  /\ \A task \in streams :
       \E i \in DOMAIN inner : inner[i].build = task.build /\ inner[i].oracle = task.oracle
  /\ \A s, t \in streams : s.build = t.build => s = t

\* No region can hold a build by not answering its probe: the selection ends,
\* and build() returns, unless it comes to await the connection of a gRPC
\* channel, which only the peer or the operating system ends.
BuildReturns == app.pc # "idle" ~> (app.pc = "idle" \/ AwaitsPeer)

-----------------------------------------------------------------------------
(***************************************************************************)
(* A handle as the value its holder takes it for, see EngineValue.         *)
(***************************************************************************)
Held == [h \in Handles |-> IF handle[h] = 0 THEN NoDraft ELSE inner[handle[h]]]

Value == INSTANCE EngineValue WITH held <- Held

\* Sharing an EngineInner is invisible: a swap of the tip payer is seen through
\* no clone and no draft, and a draft takes its engine's defaults and its
\* account index from the payer the engine has when bundle() is called.
ImplementsValue == Value!Spec

=============================================================================
