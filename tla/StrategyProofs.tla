---------------------------- MODULE StrategyProofs -----------------------------
(***************************************************************************)
(* All three strategies, one after the other on one service, leave nothing *)
(* behind and keep a service behind every target group with traffic, for   *)
(* any images, percentages, names and generations of services, and however *)
(* often a request fails -- but for the two requests and the two mishaps   *)
(* that Repairable excludes.                                               *)
(*                                                                         *)
(* The argument: the driver's names are exactly what exists (ServicesOK,   *)
(* GroupsOK), a service has the target group of its own name, and traffic  *)
(* goes to the active service, alone or shared with a canary that has not  *)
(* begun to end (TrafficOK).                                               *)
(***************************************************************************)
EXTENDS DeployStrategy, SequenceTheorems, TLAPS

\* No request is carried out and then answered with an error, and neither the
\* process nor the two requests fail whose failure the driver cannot make good:
\* a repetition of DestroyBlue finds no blue service to delete and fails for
\* ever, and DestroyCanary drains a canary that still has traffic.
Repairable ==
  /\ LostAnswers = FALSE
  /\ Failing \cap {"restore listener", "delete blue group", "restart"} = {}

\* A service that was promoted one time after the other: its name with as many
\* "green".
Core       == Seq({"svc", "green"})
greenName  == Append(serviceName, "green")
canaryName == Append(serviceName, "canary")

-----------------------------------------------------------------------------
(***************************************************************************)
(* The inductive invariant.                                                *)
(***************************************************************************)
\* Green and the canary are named after the active service, and a service after
\* its target group; only the service of the configuration may have a target
\* group the driver was not told of.
NamesOK ==
  /\ serviceName \in Core /\ serviceName # None
  /\ stableTGARN \in {None, serviceName}
  /\ config \in {None, ServiceName}
  /\ stableTGARN = None <=> (config = None /\ serviceName = ServiceName)
  /\ greenServiceName \in {None, greenTGARN} /\ greenTGARN \in {None, greenName}
  /\ canaryServiceName \in {None, canaryTGARN} /\ canaryTGARN \in {None, canaryName}

\* The operation op may be sending request q at stage st of the deployment.
At(q, op, st) ==
  \/ q = "idle" /\ st \in {"stable", "created", "checked", "switched", "canary", "ending"}
  \/ /\ q \in {"register", "create target group", "create service"}
     /\ op \in {"CreateGreen", "CreateCanary"} /\ st = "stable"
  \/ q \in {"register", "update service"} /\ op = "Update" /\ st = "stable"
  \/ q = "describe active" /\ op = "HealthCheck" /\ st = "created"
  \/ q = "switch" /\ op = "SwitchTraffic" /\ st = "checked"
  \/ /\ q \in {"drain blue", "delete blue", "delete blue group"}
     /\ op = "DestroyBlue" /\ st = "switched"
  \/ q = "route" /\ op = "RoutePercent" /\ st = "canary"
  \/ q = "get metrics" /\ op = "CheckMetricGate" /\ st = "canary"
  \/ /\ q \in {"describe canary", "register", "update service"}
     /\ op = "PromoteCanary" /\ st = "ending"
  \/ /\ q \in {"restore listener", "drain canary", "delete canary", "delete canary group"}
     /\ op \in {"PromoteCanary", "DestroyCanary"} /\ st = "ending"

\* What the driver has checked before it sends a request still holds.
PlaceOK ==
  /\ At(pc, call.op, stage)
  /\ pc = "delete blue group" => stableTGARN # None
  /\ pc = "restore listener" /\ call.op = "DestroyCanary" => stableTGARN # None
  /\ pc \in {"drain canary", "delete canary"} => canaryServiceName # None
  /\ pc = "delete canary group" => canaryServiceName = None /\ canaryTGARN # None

\* Green exists from its creation to the end of DestroyBlue, a canary only
\* between its creation and its end; a target group without a service is one
\* for which the service is being created, or which an operation that failed
\* has left to DestroyCanary or the next CreateGreen.
StageOK ==
  /\ stage \in {"created", "checked", "switched"} <=> greenServiceName # None
  /\ stage = "canary" => canaryServiceName # None
  /\ stage \notin {"canary", "ending"} => canaryServiceName = None
  /\ stage \notin {"canary", "ending"} /\ ~(pc = "create service" /\ call.op = "CreateCanary") =>
       canaryTGARN = None
  /\ pc = "create service" => IF call.op = "CreateGreen" THEN greenTGARN # None
                              ELSE canaryTGARN # None

\* The services are those the driver knows, each with the target group of its
\* name.
ServicesOK ==
  /\ DOMAIN services = (IF pc = "delete blue group" THEN {} ELSE {serviceName})
                         \cup ({greenServiceName, canaryServiceName} \ {None})
  /\ \A n \in DOMAIN services : services[n].tg = n

\* The target groups are those the driver knows, and the one it was not told
\* of.
GroupsOK ==
  targetGroups = ({ServiceName} \ {config}) \cup ({stableTGARN, greenTGARN, canaryTGARN} \ {None})

\* All traffic goes to target group t.
OneFront(t) == listener = [x \in {t} |-> 1]

\* The canary has a share of the traffic, wants a task, and nobody is removing
\* it.
Mixed ==
  /\ DOMAIN listener = {serviceName, canaryServiceName}
  /\ stableTGARN # None /\ canaryServiceName # None
  /\ services[canaryServiceName].desired = 1
  /\ pc \notin {"drain canary", "delete canary", "delete canary group"}

\* Where traffic may go, a service wants a task; blue loses its task only when
\* all traffic is green's.
TrafficOK ==
  /\ stage # "switched" => services[serviceName].desired = 1
  /\ greenServiceName # None => services[greenServiceName].desired = 1
  /\ stage = "canary" => services[canaryServiceName].desired = 1
  /\ IF stage = "switched" THEN OneFront(greenServiceName)
     ELSE OneFront(serviceName) \/ Mixed

SInv == NamesOK /\ PlaceOK /\ StageOK /\ ServicesOK /\ GroupsOK /\ TrafficOK

-----------------------------------------------------------------------------
\* A name with another part is another name, and shows that part at its end.
LEMMA LastPart ==
  ASSUME NEW s \in Seq({"svc", "green"}), NEW e \in {"svc", "green", "canary"}
  PROVE  /\ Append(s, e) \in Seq({"svc", "green", "canary"})
         /\ Append(s, e) # << >> /\ Append(s, e) # s
         /\ Len(Append(s, e)) = Len(s) + 1 /\ Append(s, e)[Len(s) + 1] = e /\ Len(s) \in Nat
<1>1. s \in Seq({"svc", "green", "canary"})
  BY SeqMonotonic
<1>2. Append(s, e) \in Seq({"svc", "green", "canary"}) /\ Append(s, e) # << >>
  BY <1>1, EmptySeq, AppendProperties
<1>3. Len(Append(s, e)) = Len(s) + 1 /\ Append(s, e)[Len(s) + 1] = e /\ Len(s) \in Nat
  BY <1>1, AppendProperties
<1>4. Append(s, e) # s
  BY <1>3
<1>. QED BY <1>2, <1>3, <1>4

\* The names of the active service, its green and its canary, and the service
\* of the configuration are different where it matters.
LEMMA NamesDiffer ==
  ASSUME NamesOK
  PROVE  /\ greenName \in Core /\ greenName # None /\ greenName # serviceName
         /\ canaryName # None /\ canaryName # serviceName /\ canaryName # greenName
         /\ greenName # ServiceName /\ canaryName # ServiceName /\ ServiceName # None
<1>1. serviceName \in Core /\ serviceName # << >>
  BY DEF NamesOK, None
<1>2. greenName \in Core
  BY <1>1, AppendProperties DEF Core, greenName
<1>3. /\ greenName # << >> /\ greenName # serviceName /\ Len(greenName) = Len(serviceName) + 1
      /\ greenName[Len(serviceName) + 1] = "green" /\ Len(serviceName) \in Nat
      /\ canaryName # << >> /\ canaryName # serviceName /\ Len(canaryName) = Len(serviceName) + 1
      /\ canaryName[Len(serviceName) + 1] = "canary"
  BY <1>1, LastPart DEF Core, greenName, canaryName
<1>4. Len(serviceName) # 0
  BY <1>1, EmptySeq DEF Core
<1>5. Len(ServiceName) = 1 /\ ServiceName # << >>
  BY DEF ServiceName
<1>6. greenName # ServiceName /\ canaryName # ServiceName
  BY <1>3, <1>4, <1>5
<1>. QED BY <1>2, <1>3, <1>5, <1>6 DEF None

\* The invariant holds at the start.
LEMMA InitSInv ==
  ASSUME StrategyInit
  PROVE  SInv
<1> DEFINE first == [image |-> FirstImage, live |-> FirstImage, desired |-> 1,
                     failed |-> FALSE, tg |-> ServiceName]
<1>1. /\ first.desired = 1 /\ first.tg = ServiceName
  OBVIOUS
<1>2. /\ services = [n \in {ServiceName} |-> first] /\ listener = [t \in {ServiceName} |-> 1]
      /\ targetGroups = {ServiceName} /\ pc = "idle" /\ stage = "stable"
      /\ serviceName = ServiceName /\ stableTGARN = config /\ config \in {None, ServiceName}
      /\ greenServiceName = None /\ greenTGARN = None
      /\ canaryServiceName = None /\ canaryTGARN = None
  BY DeployAssumption DEF StrategyInit, Init, InitDriver
<1> HIDE DEF first
<1>3. ServiceName \in Core /\ ServiceName # None
  BY EmptySeq DEF ServiceName, Core, None
<1>4. NamesOK
  BY <1>2, <1>3 DEF NamesOK
<1>5. PlaceOK /\ StageOK
  BY <1>2 DEF PlaceOK, At, StageOK
<1>6. ServicesOK
  BY <1>1, <1>2 DEF ServicesOK
<1>7. GroupsOK
  BY <1>2, <1>3 DEF GroupsOK
<1>8. TrafficOK
  BY <1>1, <1>2 DEF TrafficOK, OneFront
<1>. QED BY <1>4, <1>5, <1>6, <1>7, <1>8 DEF SInv

-----------------------------------------------------------------------------
Ending == {"PromoteCanary", "DestroyCanary"}

\* The stage while an operation goes on with its next request.
LEMMA OnGoing ==
  ASSUME pc' # "idle", Advance
  PROVE  stage' = IF call'.op \in Ending THEN "ending" ELSE stage
BY DEF Advance, Ending

\* The stage after an operation that fails at once.
LEMMA OnFailure ==
  ASSUME pc' = "idle", ~result'.ok, Advance
  PROVE  stage' = IF result'.op = "CreateCanary" THEN "ending" ELSE stage
BY DEF Advance

\* The stage after an operation that fails.
LEMMA OnReturn ==
  ASSUME Return(FALSE), Advance
  PROVE  pc' = "idle" /\ stage' = IF call.op = "CreateCanary" THEN "ending" ELSE stage
<1>1. pc' = "idle" /\ result'.op = call.op /\ ~result'.ok
  BY DEF Return, ReturnImage
<1>. QED BY <1>1, OnFailure

\* The stage after an operation that succeeds.
LEMMA OnSuccess ==
  ASSUME Return(TRUE), Advance
  PROVE  /\ pc' = "idle"
         /\ call.op = "CreateGreen" => stage' = "created"
         /\ call.op = "HealthCheck" => stage' = "checked"
         /\ call.op = "SwitchTraffic" => stage' = "switched"
         /\ call.op \in {"DestroyBlue", "PromoteCanary", "DestroyCanary"} => stage' = "stable"
         /\ call.op = "CreateCanary" => stage' = "canary"
         /\ call.op \in {"Update", "RoutePercent", "CheckMetricGate"} => stage' = stage
<1>1. pc' = "idle" /\ result'.op = call.op /\ result'.ok
  BY DEF Return, ReturnImage
<1>. QED BY <1>1 DEF Advance, Reaches

\* The driver, AWS and the configuration stay.
Quiet ==
  /\ UNCHANGED << serviceName, stableTGARN, greenServiceName, greenTGARN, canaryServiceName,
                  canaryTGARN >>
  /\ UNCHANGED << services, targetGroups, listener >> /\ UNCHANGED config

LEMMA QuietIs ==
  ASSUME UNCHANGED driver, UNCHANGED aws, UNCHANGED config
  PROVE  Quiet
BY DEF Quiet, driver, green, canary, aws

\* A step that moves only the place and the stage keeps the invariant when
\* these two fit what there is.
LEMMA QuietKeeps ==
  ASSUME SInv, Quiet, PlaceOK', StageOK', pc # "delete blue group", pc' # "delete blue group",
         stage' = "switched" <=> stage = "switched",
         stage' = "canary" => stage = "canary",
         pc' \in {"drain canary", "delete canary", "delete canary group"} => ~Mixed
  PROVE  SInv'
<1>1. NamesOK'
  BY DEF SInv, Quiet, NamesOK, greenName, canaryName
<1>2. ServicesOK'
  BY DEF SInv, Quiet, ServicesOK
<1>3. GroupsOK'
  BY DEF SInv, Quiet, GroupsOK
<1>4. TrafficOK'
  BY DEF SInv, Quiet, TrafficOK, OneFront, Mixed
<1>. QED BY <1>1, <1>2, <1>3, <1>4 DEF SInv

-----------------------------------------------------------------------------
\* An operation that begins by sending request q.
LEMMA BeginKeeps ==
  ASSUME SInv, Advance, NEW op, NEW q, NEW image, NEW percent, Begin(op, q, image, percent),
         q \notin {"idle", "create service", "delete blue group"},
         op \in Ending => stage \in {"canary", "ending"},
         At(q, op, IF op \in Ending THEN "ending" ELSE stage),
         q = "restore listener" /\ op = "DestroyCanary" => stableTGARN # None,
         q \in {"drain canary", "delete canary"} => canaryServiceName # None /\ stableTGARN = None,
         q = "delete canary group" =>
           canaryServiceName = None /\ canaryTGARN # None /\ stableTGARN = None
  PROVE  SInv'
<1>1. /\ pc = "idle" /\ pc' = q /\ call'.op = op /\ Quiet
  BY QuietIs DEF Begin
<1>2. stage' = IF op \in Ending THEN "ending" ELSE stage
  BY <1>1, OnGoing
<1>3. PlaceOK'
  BY <1>1, <1>2 DEF PlaceOK, Quiet
<1>4. StageOK'
  BY <1>1, <1>2 DEF SInv, StageOK, Quiet
<1>5. pc' \in {"drain canary", "delete canary", "delete canary group"} => ~Mixed
  BY <1>1 DEF Mixed
<1>. QED BY <1>1, <1>2, <1>3, <1>4, <1>5, QuietKeeps

\* An operation that fails before its first request.
LEMMA AnswerKeeps ==
  ASSUME SInv, Advance, NEW op \in {"SwitchTraffic", "RoutePercent", "PromoteCanary"},
         Answer(op, FALSE)
  PROVE  SInv'
<1>1. pc = "idle" /\ pc' = pc /\ call' = call /\ result'.op = op /\ ~result'.ok /\ Quiet
  BY QuietIs DEF Answer
<1>2. stage' = stage
  BY <1>1, OnFailure
<1>3. PlaceOK' /\ StageOK'
  BY <1>1, <1>2 DEF SInv, PlaceOK, StageOK, Quiet
<1>. QED BY <1>1, <1>2, <1>3, QuietKeeps

\* DestroyCanary without a canary.
LEMMA NothingToDestroyKeeps ==
  ASSUME SInv, Advance, Answer("DestroyCanary", TRUE), canary = << None, None >>,
         stage \in {"canary", "ending"}
  PROVE  SInv'
<1>1. /\ pc = "idle" /\ pc' = pc /\ call' = call /\ Quiet
      /\ result'.op = "DestroyCanary" /\ result'.ok
  BY QuietIs DEF Answer
<1>2. stage' = "stable"
  BY <1>1 DEF Advance, Reaches
<1>3. canaryServiceName = None /\ canaryTGARN = None
  BY DEF canary
<1>4. PlaceOK' /\ StageOK'
  BY <1>1, <1>2, <1>3 DEF SInv, PlaceOK, At, StageOK, Quiet
<1>. QED BY <1>1, <1>2, <1>4, QuietKeeps

\* Every call of a strategy.
LEMMA CallKeeps ==
  ASSUME SInv, Call, Advance
  PROVE  SInv'
<1> USE DEF Ending, At
<1>1. ASSUME stage = "stable", NEW image \in Images,
             Update(image) \/ CreateGreen(image) \/ CreateCanary(image)
      PROVE  SInv'
  BY <1>1, BeginKeeps DEF Update, CreateGreen, CreateCanary
<1>2. CASE stage = "created" /\ HealthCheck
  BY <1>2, BeginKeeps DEF HealthCheck
<1>3. CASE stage = "checked" /\ SwitchTraffic
  BY <1>3, BeginKeeps, AnswerKeeps DEF SwitchTraffic
<1>4. CASE stage = "switched" /\ DestroyBlue
  BY <1>4, BeginKeeps DEF DestroyBlue
<1>5. ASSUME stage = "canary", NEW percent \in Percents, RoutePercent(percent)
      PROVE  SInv'
  BY <1>5, BeginKeeps, AnswerKeeps DEF RoutePercent
<1>6. CASE stage = "canary" /\ CheckMetricGate
  BY <1>6, BeginKeeps DEF CheckMetricGate
<1>7. CASE stage \in {"canary", "ending"} /\ PromoteCanary
  BY <1>7, BeginKeeps, AnswerKeeps DEF PromoteCanary
<1>8. CASE stage \in {"canary", "ending"} /\ DestroyCanary
  <2>1. CASE canary = << None, None >> /\ Answer("DestroyCanary", TRUE)
    BY <1>8, <2>1, NothingToDestroyKeeps
  <2>2. CASE stableTGARN # None /\ Begin("DestroyCanary", "restore listener", NoImage, 0)
    BY <1>8, <2>2, BeginKeeps
  <2>3. CASE /\ canary # << None, None >> /\ stableTGARN = None
             /\ Begin("DestroyCanary",
                      IF canaryServiceName # None THEN "drain canary" ELSE "delete canary group",
                      NoImage, 0)
    <3>1. CASE canaryServiceName # None
      BY <1>8, <2>3, <3>1, BeginKeeps
    <3>2. CASE canaryServiceName = None
      <4>1. canaryTGARN # None
        BY <2>3, <3>2 DEF canary
      <4>. QED BY <1>8, <2>3, <3>2, <4>1, BeginKeeps
    <3>. QED BY <3>1, <3>2
  <2>. QED BY <1>8, <2>1, <2>2, <2>3 DEF DestroyCanary
<1>. QED BY <1>1, <1>2, <1>3, <1>4, <1>5, <1>6, <1>7, <1>8 DEF Call

-----------------------------------------------------------------------------
\* The requests, one by one.
LEMMA RegisterKeeps ==
  ASSUME SInv, RegisterTaskDefinition, Advance
  PROVE  SInv'
<1>0. /\ pc = "register" /\ PlaceOK /\ StageOK
      /\ \/ call.op \in {"CreateGreen", "CreateCanary", "Update"} /\ stage = "stable"
         \/ call.op = "PromoteCanary" /\ stage = "ending"
  BY DEF SInv, PlaceOK, At, RegisterTaskDefinition
<1>1. Quiet
  BY QuietIs DEF RegisterTaskDefinition, Request
<1>2. \/ Then(IF call.op \in {"CreateGreen", "CreateCanary"}
              THEN "create target group" ELSE "update service")
      \/ Return(FALSE)
  BY DEF RegisterTaskDefinition, Request
<1>3. CASE Then(IF call.op \in {"CreateGreen", "CreateCanary"}
                THEN "create target group" ELSE "update service")
  <2>1. /\ call' = call /\ pc' \in {"create target group", "update service"}
        /\ pc' = "create target group" <=> call.op \in {"CreateGreen", "CreateCanary"}
    BY <1>3 DEF Then
  <2>2. stage' = stage
    BY <1>0, <2>1, OnGoing DEF Ending
  <2>3. PlaceOK'
    BY <1>0, <2>1, <2>2 DEF PlaceOK, At
  <2>4. StageOK'
    BY <1>0, <1>1, <2>1, <2>2 DEF StageOK, Quiet
  <2>. QED BY <1>0, <1>1, <2>1, <2>2, <2>3, <2>4, QuietKeeps
<1>4. CASE Return(FALSE)
  <2>1. pc' = "idle" /\ stage' = IF call.op = "CreateCanary" THEN "ending" ELSE stage
    BY <1>4, OnReturn
  <2>2. PlaceOK'
    BY <1>0, <2>1 DEF PlaceOK, At
  <2>3. StageOK'
    BY <1>0, <1>1, <2>1 DEF StageOK, Quiet
  <2>. QED BY <1>0, <1>1, <2>1, <2>2, <2>3, QuietKeeps
<1>. QED BY <1>2, <1>3, <1>4

\* A request that changes nothing and then returns.
LEMMA AskKeeps ==
  ASSUME SInv, DescribeActive \/ GetMetricStatistics, Advance
  PROVE  SInv'
<1>0. /\ PlaceOK /\ StageOK
      /\ \/ pc = "describe active" /\ call.op = "HealthCheck" /\ stage = "created"
         \/ pc = "get metrics" /\ call.op = "CheckMetricGate" /\ stage = "canary"
  BY DEF SInv, PlaceOK, At, DescribeActive, GetMetricStatistics
<1>1. Quiet
  BY QuietIs DEF DescribeActive, GetMetricStatistics, Request
<1>2. Return(TRUE) \/ Return(FALSE)
  <2>1. CASE DescribeActive
    <3>1. Return(IsHealthy(activeService)) \/ Return(FALSE)
      BY <2>1 DEF DescribeActive, Request
    <3>2. IsHealthy(activeService) = TRUE \/ IsHealthy(activeService) = FALSE
      BY DEF IsHealthy
    <3>. QED BY <3>1, <3>2
  <2>2. CASE GetMetricStatistics
    <3>1. PICK ok \in BOOLEAN : Return(ok) \/ Return(FALSE)
      BY <2>2 DEF GetMetricStatistics, Request
    <3>. QED BY <3>1
  <2>. QED BY <2>1, <2>2
<1>3. /\ pc' = "idle"
      /\ \/ stage' = stage
         \/ stage = "created" /\ stage' = "checked"
  BY <1>0, <1>2, OnReturn, OnSuccess
<1>4. PlaceOK'
  BY <1>0, <1>3 DEF PlaceOK, At
<1>5. StageOK'
  BY <1>0, <1>1, <1>3 DEF StageOK, Quiet
<1>. QED BY <1>0, <1>1, <1>3, <1>4, <1>5, QuietKeeps

LEMMA DescribeCanaryKeeps ==
  ASSUME SInv, DescribeCanary, Advance
  PROVE  SInv'
<1>0. PlaceOK /\ StageOK /\ pc = "describe canary" /\ call.op = "PromoteCanary" /\ stage = "ending"
  BY DEF SInv, PlaceOK, At, DescribeCanary
<1>1. Quiet
  BY QuietIs DEF DescribeCanary, Request
<1>2. \/ /\ pc' = "register"
         /\ call' = [op |-> call.op, image |-> services[canaryServiceName].image,
                     percent |-> call.percent]
      \/ Return(FALSE)
  BY DEF DescribeCanary, Request
<1>3. stage' = "ending" /\ (pc' = "idle" \/ (pc' = "register" /\ call'.op = "PromoteCanary"))
  <2>1. CASE Return(FALSE)
    BY <1>0, <2>1, OnReturn
  <2>2. CASE /\ pc' = "register"
             /\ call' = [op |-> call.op, image |-> services[canaryServiceName].image,
                         percent |-> call.percent]
    <3>1. call'.op = "PromoteCanary"
      BY <1>0, <2>2
    <3>. QED BY <2>2, <3>1, OnGoing DEF Ending
  <2>. QED BY <1>2, <2>1, <2>2
<1>4. PlaceOK'
  BY <1>0, <1>3 DEF PlaceOK, At
<1>5. StageOK'
  BY <1>0, <1>1, <1>3 DEF StageOK, Quiet
<1>. QED BY <1>0, <1>1, <1>3, <1>4, <1>5, QuietKeeps

-----------------------------------------------------------------------------
\* SetService makes or changes one service.
LEMMA SetServiceGives ==
  ASSUME NEW n, NEW svc, SetService(n, svc)
  PROVE  /\ DOMAIN services' = DOMAIN services \cup {n} /\ services'[n] = svc
         /\ \A m \in DOMAIN services \ {n} : services'[m] = services[m]
         /\ UNCHANGED << targetGroups, listener >>
BY DEF SetService

\* A service is changed, but not the tasks it wants.
SameTasks ==
  /\ DOMAIN services' = DOMAIN services
  /\ \A n \in DOMAIN services :
       services'[n].tg = services[n].tg /\ services'[n].desired = services[n].desired
  /\ UNCHANGED << targetGroups, listener >>

\* New images and tasks that start, stop or fail change none of this.
LEMMA SettingKeepsTasks ==
  ASSUME NEW n \in DOMAIN services, NEW image, NEW live, NEW failed,
         SetService(n, [image |-> image, live |-> live, desired |-> services[n].desired,
                        failed |-> failed, tg |-> services[n].tg])
  PROVE  SameTasks
<1> DEFINE svc == [image |-> image, live |-> live, desired |-> services[n].desired,
                   failed |-> failed, tg |-> services[n].tg]
<1>1. svc.tg = services[n].tg /\ svc.desired = services[n].desired
  OBVIOUS
<1>2. SetService(n, svc)
  OBVIOUS
<1> HIDE DEF svc
<1>. QED BY <1>1, <1>2, SetServiceGives DEF SameTasks

\* The services the invariant speaks of.
LEMMA KnownServices ==
  ASSUME SInv
  PROVE  /\ pc # "delete blue group" => serviceName \in DOMAIN services
         /\ greenServiceName # None => greenServiceName \in DOMAIN services
         /\ canaryServiceName # None => canaryServiceName \in DOMAIN services
         /\ stage # "switched" => pc # "delete blue group"
BY DEF SInv, ServicesOK, PlaceOK, At

\* So does one that also changes images and running tasks.
LEMMA SameTasksKeep ==
  ASSUME SInv, SameTasks,
         UNCHANGED << serviceName, stableTGARN, greenServiceName, greenTGARN, canaryServiceName,
                      canaryTGARN, config >>,
         PlaceOK', StageOK', pc = "delete blue group" <=> pc' = "delete blue group",
         stage' = "switched" <=> stage = "switched",
         stage' = "canary" => stage = "canary",
         pc' \in {"drain canary", "delete canary", "delete canary group"} => ~Mixed
  PROVE  SInv'
<1>1. NamesOK'
  BY DEF SInv, NamesOK, greenName, canaryName
<1>2. ServicesOK'
  BY DEF SInv, SameTasks, ServicesOK
<1>3. GroupsOK'
  BY DEF SInv, SameTasks, GroupsOK
<1>4. TrafficOK'
  <2>1. stage' = "canary" => canaryServiceName # None
    BY DEF SInv, StageOK
  <2>2. stage' # "switched" => services'[serviceName].desired = 1
    BY KnownServices DEF SInv, SameTasks, TrafficOK
  <2>3. greenServiceName # None => services'[greenServiceName].desired = 1
    BY KnownServices DEF SInv, SameTasks, TrafficOK
  <2>4. stage' = "canary" => services'[canaryServiceName].desired = 1
    BY <2>1, KnownServices DEF SInv, SameTasks, TrafficOK
  <2>5. Mixed /\ ~(pc' \in {"drain canary", "delete canary", "delete canary group"}) => Mixed'
    BY KnownServices DEF Mixed, SameTasks
  <2>6. IF stage' = "switched" THEN OneFront(greenServiceName)'
        ELSE OneFront(serviceName)' \/ Mixed'
    BY <2>5 DEF SInv, TrafficOK, OneFront, SameTasks
  <2>. QED BY <2>2, <2>3, <2>4, <2>6 DEF TrafficOK
<1>. QED BY <1>1, <1>2, <1>3, <1>4 DEF SInv

LEMMA UpdateServiceKeeps ==
  ASSUME SInv, Repairable, UpdateService, Advance
  PROVE  SInv'
<1>0. /\ PlaceOK /\ StageOK /\ pc = "update service"
      /\ \/ call.op = "Update" /\ stage = "stable"
         \/ call.op = "PromoteCanary" /\ stage = "ending"
  BY DEF SInv, PlaceOK, At, UpdateService
<1>1. UNCHANGED << serviceName, stableTGARN, greenServiceName, greenTGARN, canaryServiceName,
                   canaryTGARN, config >>
  BY DEF UpdateService, Request, driver, green, canary
<1>2. serviceName \in DOMAIN services
  BY <1>0, KnownServices
<1>3. SameTasks
  <2> DEFINE s == services[serviceName]
  <2>1. \/ UNCHANGED aws
        \/ SetService(serviceName, [image |-> call.image, live |-> s.live, desired |-> s.desired,
                                    failed |-> FALSE, tg |-> s.tg])
    BY DEF UpdateService, Request, Repairable
  <2>2. CASE UNCHANGED aws
    BY <2>2 DEF aws, SameTasks
  <2>. QED BY <1>2, <2>1, <2>2, SettingKeepsTasks
<1>4. \/ Return(FALSE)
      \/ call.op = "Update" /\ Return(TRUE)
      \/ call.op # "Update" /\ Then("restore listener")
  BY DEF UpdateService, Request
<1>5. /\ stage' = stage
      /\ pc' = "idle" \/ (pc' = "restore listener" /\ call' = call /\ call.op = "PromoteCanary")
  <2>1. CASE Then("restore listener") /\ call.op # "Update"
    <3>1. pc' = "restore listener" /\ call' = call
      BY <2>1 DEF Then
    <3>. QED BY <1>0, <2>1, <3>1, OnGoing DEF Ending
  <2>2. CASE Return(FALSE)
    BY <1>0, <2>2, OnReturn
  <2>3. CASE call.op = "Update" /\ Return(TRUE)
    BY <1>0, <2>3, OnSuccess
  <2>. QED BY <1>4, <2>1, <2>2, <2>3
<1>6. PlaceOK'
  BY <1>0, <1>5 DEF PlaceOK, At
<1>7. StageOK'
  BY <1>0, <1>1, <1>5 DEF StageOK
<1>. QED BY <1>0, <1>1, <1>3, <1>5, <1>6, <1>7, SameTasksKeep

LEMMA RolloutKeeps ==
  ASSUME SInv, ECSStep, UNCHANGED stage
  PROVE  SInv'
<1>1. PICK n \in DOMAIN services : Rollout(n)
  BY DEF ECSStep
<1>2. /\ UNCHANGED << serviceName, stableTGARN, greenServiceName, greenTGARN, canaryServiceName,
                      canaryTGARN, config >>
      /\ UNCHANGED << pc, call >>
  BY <1>1 DEF Rollout, driver, green, canary
<1>3. SameTasks
  <2> DEFINE s == services[n]
             Becomes(live, failed) ==
               SetService(n, [image |-> s.image, live |-> live, desired |-> s.desired,
                              failed |-> failed, tg |-> s.tg])
  <2>1. \/ Becomes(s.image, FALSE) \/ Becomes(s.live, TRUE)
        \/ Becomes(NoImage, s.failed)
    BY <1>1 DEF Rollout
  <2>. QED BY <2>1, SettingKeepsTasks
<1>4. PlaceOK' /\ StageOK'
  BY <1>2 DEF SInv, PlaceOK, StageOK
<1>5. pc' \in {"drain canary", "delete canary", "delete canary group"} => ~Mixed
  BY <1>2 DEF Mixed
<1>. QED BY <1>2, <1>3, <1>4, <1>5, SameTasksKeep

-----------------------------------------------------------------------------
LEMMA CreateTargetGroupKeeps ==
  ASSUME SInv, Repairable, CreateTargetGroup, Advance
  PROVE  SInv'
<1>0. /\ NamesOK /\ PlaceOK /\ StageOK /\ pc = "create target group" /\ stage = "stable"
      /\ call.op \in {"CreateGreen", "CreateCanary"}
      /\ newName = IF call.op = "CreateGreen" THEN greenName ELSE canaryName
  BY DEF SInv, PlaceOK, At, CreateTargetGroup, newName, greenName, canaryName
<1>1. /\ UNCHANGED << serviceName, stableTGARN, greenServiceName, canaryServiceName, config >>
      /\ UNCHANGED << services, listener >>
  BY DEF CreateTargetGroup, Request, Repairable, aws
<1>2. \/ /\ targetGroups' = targetGroups \cup {newName} /\ Then("create service")
         /\ IF call.op = "CreateGreen" THEN greenTGARN' = newName /\ UNCHANGED canaryTGARN
            ELSE canaryTGARN' = newName /\ UNCHANGED greenTGARN
      \/ UNCHANGED << targetGroups, greenTGARN, canaryTGARN >> /\ Return(FALSE)
  BY DEF CreateTargetGroup, Request, Repairable, aws
<1>3. CASE Return(FALSE) /\ UNCHANGED << targetGroups, greenTGARN, canaryTGARN >>
  <2>1. pc' = "idle" /\ stage' = IF call.op = "CreateCanary" THEN "ending" ELSE stage
    BY <1>3, OnReturn
  <2>2. PlaceOK' /\ StageOK'
    BY <1>0, <1>1, <1>3, <2>1 DEF PlaceOK, At, StageOK
  <2>3. Quiet
    BY <1>1, <1>3 DEF Quiet
  <2>. QED BY <1>0, <2>1, <2>2, <2>3, QuietKeeps
<1>4. CASE /\ targetGroups' = targetGroups \cup {newName} /\ Then("create service")
           /\ IF call.op = "CreateGreen" THEN greenTGARN' = newName /\ UNCHANGED canaryTGARN
              ELSE canaryTGARN' = newName /\ UNCHANGED greenTGARN
  <2>1. pc' = "create service" /\ call' = call
    BY <1>4 DEF Then
  <2>2. stage' = "stable"
    BY <1>0, <2>1, OnGoing DEF Ending
  <2>3. greenName' = greenName /\ canaryName' = canaryName
    BY <1>1 DEF greenName, canaryName
  <2>4. greenServiceName = None /\ canaryServiceName = None /\ canaryTGARN = None
    BY <1>0 DEF StageOK
  <2>5. newName # None
    BY <1>0, NamesDiffer
  <2>6. NamesOK'
    BY <1>0, <1>1, <1>4, <2>3, <2>4 DEF NamesOK
  <2>7. PlaceOK'
    BY <1>0, <2>1, <2>2 DEF PlaceOK, At
  <2>8. StageOK'
    BY <1>0, <1>1, <1>4, <2>1, <2>2, <2>4, <2>5 DEF StageOK
  <2>9. ServicesOK'
    BY <1>0, <1>1, <2>1 DEF SInv, ServicesOK
  <2>10. GroupsOK'
    <3>1. greenTGARN \in {None, greenName}
      BY <1>0 DEF NamesOK
    <3>2. targetGroups = ({ServiceName} \ {config}) \cup ({stableTGARN, greenTGARN, None} \ {None})
      BY <2>4 DEF SInv, GroupsOK
    <3>3. CASE call.op = "CreateGreen"
      <4>1. greenTGARN' = greenName /\ canaryTGARN' = None
            /\ targetGroups' = targetGroups \cup {greenName} /\ greenName # None
        BY <1>0, <1>4, <2>4, <2>5, <3>3
      <4>. QED BY <1>1, <3>1, <3>2, <4>1 DEF GroupsOK
    <3>4. CASE call.op = "CreateCanary"
      <4>1. greenTGARN' = greenTGARN /\ canaryTGARN' = canaryName
            /\ targetGroups' = targetGroups \cup {canaryName} /\ canaryName # None
        BY <1>0, <1>4, <2>5, <3>4
      <4>. QED BY <1>1, <3>2, <4>1 DEF GroupsOK
    <3>. QED BY <1>0, <3>3, <3>4
  <2>11. TrafficOK'
    BY <1>0, <1>1, <2>1, <2>2, <2>4 DEF SInv, TrafficOK, OneFront, Mixed
  <2>. QED BY <2>6, <2>7, <2>8, <2>9, <2>10, <2>11 DEF SInv
<1>. QED BY <1>2, <1>3, <1>4

LEMMA CreateServiceKeeps ==
  ASSUME SInv, Repairable, CreateService, Advance
  PROVE  SInv'
<1>0. /\ NamesOK /\ PlaceOK /\ StageOK /\ pc = "create service" /\ stage = "stable"
      /\ call.op \in {"CreateGreen", "CreateCanary"}
      /\ newName = IF call.op = "CreateGreen" THEN greenName ELSE canaryName
  BY DEF SInv, PlaceOK, At, CreateService, newName, greenName, canaryName
<1> DEFINE svc == [image |-> call.image, live |-> NoImage, desired |-> 1,
                   failed |-> FALSE, tg |-> newName]
<1>1. UNCHANGED << serviceName, stableTGARN, greenTGARN, canaryTGARN, config >>
  BY DEF CreateService, Request
<1>2. \/ /\ SetService(newName, svc) /\ Return(TRUE)
         /\ IF call.op = "CreateGreen" THEN greenServiceName' = newName /\ UNCHANGED canaryServiceName
            ELSE canaryServiceName' = newName /\ UNCHANGED greenServiceName
      \/ UNCHANGED aws /\ UNCHANGED << greenServiceName, canaryServiceName >> /\ Return(FALSE)
  BY DEF CreateService, Request, Repairable
<1>3. svc.desired = 1 /\ svc.tg = newName
  OBVIOUS
<1> HIDE DEF svc
<1>4. CASE UNCHANGED aws /\ UNCHANGED << greenServiceName, canaryServiceName >> /\ Return(FALSE)
  <2>1. pc' = "idle" /\ stage' = IF call.op = "CreateCanary" THEN "ending" ELSE stage
    BY <1>4, OnReturn
  <2>2. PlaceOK' /\ StageOK'
    BY <1>0, <1>1, <1>4, <2>1 DEF PlaceOK, At, StageOK
  <2>3. Quiet
    BY <1>1, <1>4 DEF Quiet, aws
  <2>. QED BY <1>0, <2>1, <2>2, <2>3, QuietKeeps
<1>5. CASE /\ SetService(newName, svc) /\ Return(TRUE)
           /\ IF call.op = "CreateGreen" THEN greenServiceName' = newName /\ UNCHANGED canaryServiceName
              ELSE canaryServiceName' = newName /\ UNCHANGED greenServiceName
  <2>1. pc' = "idle" /\ stage' = IF call.op = "CreateGreen" THEN "created" ELSE "canary"
    BY <1>0, <1>5, OnSuccess
  <2>2. /\ DOMAIN services' = DOMAIN services \cup {newName} /\ services'[newName] = svc
        /\ \A m \in DOMAIN services \ {newName} : services'[m] = services[m]
        /\ UNCHANGED << targetGroups, listener >>
    BY <1>5, SetServiceGives
  <2>3. greenName' = greenName /\ canaryName' = canaryName
    BY <1>1 DEF greenName, canaryName
  <2>4. greenServiceName = None /\ canaryServiceName = None
    BY <1>0 DEF StageOK
  <2>5. newName # None /\ newName # serviceName
    BY <1>0, NamesDiffer
  <2>6. newName = IF call.op = "CreateGreen" THEN greenTGARN ELSE canaryTGARN
    BY <1>0 DEF StageOK, NamesOK
  <2>7. DOMAIN services = {serviceName}
    BY <1>0, <2>4 DEF SInv, ServicesOK
  <2>8. NamesOK'
    BY <1>0, <1>1, <1>5, <2>3, <2>4, <2>6 DEF NamesOK
  <2>9. PlaceOK'
    BY <2>1 DEF PlaceOK, At
  <2>10. StageOK'
    BY <1>0, <1>1, <1>5, <2>1, <2>4, <2>5 DEF StageOK
  <2>11. ServicesOK'
    BY <1>0, <1>1, <1>3, <1>5, <2>1, <2>2, <2>4, <2>5, <2>7 DEF SInv, ServicesOK
  <2>12. GroupsOK'
    BY <1>1, <2>2 DEF SInv, GroupsOK
  <2>13. OneFront(serviceName) /\ services[serviceName].desired = 1
    BY <1>0, <2>4 DEF SInv, TrafficOK, Mixed
  <2>14. TrafficOK'
    BY <1>0, <1>1, <1>3, <1>5, <2>1, <2>2, <2>4, <2>5, <2>7, <2>13 DEF TrafficOK, OneFront
  <2>. QED BY <2>8, <2>9, <2>10, <2>11, <2>12, <2>14 DEF SInv
<1>. QED BY <1>2, <1>4, <1>5

-----------------------------------------------------------------------------
LEMMA SwitchKeeps ==
  ASSUME SInv, Repairable, SwitchListener, Advance
  PROVE  SInv'
<1>0. /\ NamesOK /\ PlaceOK /\ StageOK /\ pc = "switch" /\ stage = "checked"
      /\ call.op = "SwitchTraffic"
      /\ greenServiceName # None /\ greenServiceName = greenTGARN /\ canaryServiceName = None
  BY DEF SInv, PlaceOK, At, StageOK, NamesOK, SwitchListener
<1>1. /\ UNCHANGED << serviceName, stableTGARN, greenServiceName, greenTGARN, canaryServiceName,
                      canaryTGARN, config >>
  BY DEF SwitchListener, Request, driver, green, canary
<1>2. \/ Return(TRUE) /\ ModifyListener([t \in {greenTGARN} |-> 1])
      \/ Return(FALSE) /\ UNCHANGED aws
  BY DEF SwitchListener, Request, Repairable
<1>3. CASE Return(FALSE) /\ UNCHANGED aws
  <2>1. pc' = "idle" /\ stage' = "checked"
    BY <1>0, <1>3, OnReturn
  <2>2. PlaceOK' /\ StageOK' /\ Quiet
    BY <1>0, <1>1, <1>3, <2>1 DEF PlaceOK, At, StageOK, Quiet, aws
  <2>. QED BY <1>0, <2>1, <2>2, QuietKeeps
<1>4. CASE Return(TRUE) /\ ModifyListener([t \in {greenTGARN} |-> 1])
  <2>1. pc' = "idle" /\ stage' = "switched"
    BY <1>0, <1>4, OnSuccess
  <2>2. UNCHANGED << services, targetGroups >> /\ OneFront(greenServiceName)'
    BY <1>0, <1>1, <1>4 DEF ModifyListener, OneFront
  <2>3. NamesOK'
    BY <1>0, <1>1 DEF NamesOK, greenName, canaryName
  <2>4. PlaceOK' /\ StageOK'
    BY <1>0, <1>1, <2>1 DEF PlaceOK, At, StageOK
  <2>5. ServicesOK' /\ GroupsOK'
    BY <1>0, <1>1, <2>1, <2>2 DEF SInv, ServicesOK, GroupsOK
  <2>6. TrafficOK'
    BY <1>0, <1>1, <2>1, <2>2 DEF SInv, TrafficOK
  <2>. QED BY <2>3, <2>4, <2>5, <2>6 DEF SInv
<1>. QED BY <1>2, <1>3, <1>4

\* DeleteService removes one service and nothing else.
LEMMA DeleteServiceGives ==
  ASSUME NEW n, DeleteService(n)
  PROVE  /\ DOMAIN services' = DOMAIN services \ {n}
         /\ \A m \in DOMAIN services \ {n} : services'[m] = services[m]
         /\ UNCHANGED << targetGroups, listener >>
BY DEF DeleteService

\* A drained service keeps its target group.
LEMMA DrainGives ==
  ASSUME NEW n \in DOMAIN services, Drain(n)
  PROVE  /\ DOMAIN services' = DOMAIN services /\ services'[n].tg = services[n].tg
         /\ \A m \in DOMAIN services \ {n} : services'[m] = services[m]
         /\ UNCHANGED << targetGroups, listener >>
<1> DEFINE svc == [image |-> services[n].image, live |-> services[n].live, desired |-> 0,
                   failed |-> services[n].failed, tg |-> services[n].tg]
<1>1. svc.tg = services[n].tg
  OBVIOUS
<1>2. SetService(n, svc)
  BY DEF Drain
<1> HIDE DEF svc
<1>. QED BY <1>1, <1>2, SetServiceGives

LEMMA DrainBlueKeeps ==
  ASSUME SInv, Repairable, DrainBlue, Advance
  PROVE  SInv'
<1>0. /\ NamesOK /\ PlaceOK /\ StageOK /\ pc = "drain blue" /\ stage = "switched"
      /\ call.op = "DestroyBlue"
      /\ greenServiceName # None /\ greenServiceName = greenTGARN /\ canaryServiceName = None
  BY DEF SInv, PlaceOK, At, StageOK, NamesOK, DrainBlue
<1>1. UNCHANGED << serviceName, stableTGARN, greenServiceName, greenTGARN, canaryServiceName,
                   canaryTGARN, config >>
  BY DEF DrainBlue, Request, driver, green, canary
<1>2. /\ Then("delete blue")
      /\ UNCHANGED aws \/ Drain(serviceName)
  BY DEF DrainBlue, Request, Repairable
<1>3. pc' = "delete blue" /\ call' = call /\ stage' = "switched"
  BY <1>0, <1>2, OnGoing DEF Then, Ending
<1>4. PlaceOK' /\ StageOK'
  BY <1>0, <1>1, <1>3 DEF PlaceOK, At, StageOK
<1>5. serviceName \in DOMAIN services /\ greenServiceName \in DOMAIN services
      /\ greenServiceName # serviceName
  BY <1>0, KnownServices, NamesDiffer DEF NamesOK
<1>6. /\ DOMAIN services' = DOMAIN services /\ services'[serviceName].tg = services[serviceName].tg
      /\ \A m \in DOMAIN services \ {serviceName} : services'[m] = services[m]
      /\ UNCHANGED << targetGroups, listener >>
  BY <1>2, <1>5, DrainGives DEF aws
<1>7. NamesOK'
  BY <1>0, <1>1 DEF NamesOK, greenName, canaryName
<1>8. ServicesOK' /\ GroupsOK'
  BY <1>0, <1>1, <1>3, <1>6 DEF SInv, ServicesOK, GroupsOK
<1>9. TrafficOK'
  BY <1>0, <1>1, <1>3, <1>5, <1>6 DEF SInv, TrafficOK, OneFront
<1>. QED BY <1>4, <1>7, <1>8, <1>9 DEF SInv

\* Green becomes stable and is all there is.
LEMMA PromotedKeeps ==
  ASSUME SInv, stage = "switched", Promote, Return(TRUE), Advance, call.op = "DestroyBlue",
         UNCHANGED config, UNCHANGED listener,
         DOMAIN services' = {greenServiceName},
         services'[greenServiceName] = services[greenServiceName],
         targetGroups' = ({ServiceName} \ {config}) \cup {greenTGARN}
  PROVE  SInv'
<1>1. pc' = "idle" /\ stage' = "stable"
  BY OnSuccess
<1>2. /\ greenServiceName = greenName /\ greenTGARN = greenName /\ greenServiceName # None
      /\ canaryServiceName = None /\ canaryTGARN = None
  BY DEF SInv, StageOK, NamesOK, PlaceOK, At
<1>3. /\ serviceName' = greenName /\ stableTGARN' = greenName
      /\ greenServiceName' = None /\ greenTGARN' = None
      /\ canaryServiceName' = None /\ canaryTGARN' = None
  BY <1>2 DEF Promote, canary
<1>4. greenName \in Core /\ greenName # None /\ greenName # ServiceName
  BY NamesDiffer DEF SInv
<1>5. NamesOK'
  BY <1>3, <1>4 DEF SInv, NamesOK
<1>6. PlaceOK' /\ StageOK'
  BY <1>1, <1>3 DEF PlaceOK, At, StageOK
<1>7. services[greenName].tg = greenName /\ services[greenName].desired = 1
  BY <1>2, KnownServices DEF SInv, ServicesOK, TrafficOK
<1>8. ServicesOK'
  BY <1>1, <1>2, <1>3, <1>4, <1>7 DEF ServicesOK
<1>9. GroupsOK'
  BY <1>2, <1>3, <1>4 DEF GroupsOK
<1>10. TrafficOK'
  BY <1>1, <1>2, <1>3, <1>7 DEF SInv, TrafficOK, OneFront
<1>. QED BY <1>5, <1>6, <1>8, <1>9, <1>10 DEF SInv

LEMMA DeleteBlueKeeps ==
  ASSUME SInv, Repairable, DeleteBlue, Advance
  PROVE  SInv'
<1>0. /\ NamesOK /\ PlaceOK /\ StageOK /\ pc = "delete blue" /\ stage = "switched"
      /\ call.op = "DestroyBlue"
      /\ greenServiceName # None /\ greenServiceName = greenTGARN
      /\ canaryServiceName = None /\ canaryTGARN = None
  BY DEF SInv, PlaceOK, At, StageOK, NamesOK, DeleteBlue
<1>1. DOMAIN services = {serviceName, greenServiceName} /\ greenServiceName # serviceName
  BY <1>0, NamesDiffer DEF SInv, ServicesOK, NamesOK
<1>2. /\ UNCHANGED config
      /\ \/ Return(FALSE) /\ UNCHANGED driver /\ UNCHANGED aws
         \/ /\ stableTGARN # None /\ DeleteService(serviceName)
            /\ Then("delete blue group") /\ UNCHANGED driver
         \/ stableTGARN = None /\ DeleteService(serviceName) /\ Return(TRUE) /\ Promote
  BY DEF DeleteBlue, Request, Repairable
<1>3. CASE Return(FALSE) /\ UNCHANGED driver /\ UNCHANGED aws
  <2>1. pc' = "idle" /\ stage' = "switched"
    BY <1>0, <1>3, OnReturn
  <2>2. Quiet
    BY <1>2, <1>3, QuietIs
  <2>3. PlaceOK' /\ StageOK'
    BY <1>0, <2>1, <2>2 DEF PlaceOK, At, StageOK, Quiet
  <2>. QED BY <1>0, <2>1, <2>2, <2>3, QuietKeeps
<1>4. CASE /\ stableTGARN # None /\ DeleteService(serviceName)
           /\ Then("delete blue group") /\ UNCHANGED driver
  <2>1. pc' = "delete blue group" /\ call' = call /\ stage' = "switched"
    BY <1>0, <1>4, OnGoing DEF Then, Ending
  <2>2. UNCHANGED << serviceName, stableTGARN, greenServiceName, greenTGARN, canaryServiceName,
                     canaryTGARN, config >>
    BY <1>2, <1>4 DEF driver, green, canary
  <2>3. /\ DOMAIN services' = {greenServiceName}
        /\ services'[greenServiceName] = services[greenServiceName]
        /\ UNCHANGED << targetGroups, listener >>
    <3>1. DeleteService(serviceName)
      BY <1>4
    <3>. QED BY <1>1, <3>1, DeleteServiceGives
  <2>4. NamesOK'
    BY <1>0, <2>2 DEF NamesOK, greenName, canaryName
  <2>5. PlaceOK' /\ StageOK'
    BY <1>0, <1>4, <2>1, <2>2 DEF PlaceOK, At, StageOK
  <2>6. ServicesOK' /\ GroupsOK'
    BY <1>0, <1>1, <2>1, <2>2, <2>3 DEF SInv, ServicesOK, GroupsOK
  <2>7. TrafficOK'
    BY <1>0, <2>1, <2>2, <2>3 DEF SInv, TrafficOK, OneFront
  <2>. QED BY <2>4, <2>5, <2>6, <2>7 DEF SInv
<1>5. CASE stableTGARN = None /\ DeleteService(serviceName) /\ Return(TRUE) /\ Promote
  <2>1. /\ DOMAIN services' = {greenServiceName}
        /\ services'[greenServiceName] = services[greenServiceName]
        /\ UNCHANGED << targetGroups, listener >>
    BY <1>1, <1>5, DeleteServiceGives
  <2>2. targetGroups' = ({ServiceName} \ {config}) \cup {greenTGARN}
    BY <1>0, <1>5, <2>1 DEF SInv, GroupsOK
  <2>. QED BY <1>0, <1>2, <1>5, <2>1, <2>2, PromotedKeeps
<1>. QED BY <1>2, <1>3, <1>4, <1>5

\* A failure of this request is the finding about DestroyBlue: blue's service is
\* gone, and DestroyBlue fails ever after.
LEMMA DeleteBlueGroupKeeps ==
  ASSUME SInv, Repairable, DeleteBlueGroup, Advance
  PROVE  SInv'
<1>0. /\ NamesOK /\ PlaceOK /\ StageOK /\ pc = "delete blue group" /\ stage = "switched"
      /\ call.op = "DestroyBlue" /\ stableTGARN # None
      /\ greenServiceName # None /\ greenServiceName = greenTGARN
      /\ canaryServiceName = None /\ canaryTGARN = None
  BY DEF SInv, PlaceOK, At, StageOK, NamesOK, DeleteBlueGroup
<1>1. DOMAIN services = {greenServiceName}
  BY <1>0 DEF SInv, ServicesOK
<1>2. greenTGARN # stableTGARN /\ CanDeleteGroup(stableTGARN)
  <2>1. greenTGARN # stableTGARN
    BY <1>0, NamesDiffer DEF NamesOK
  <2>2. DOMAIN listener = {greenTGARN}
    BY <1>0 DEF SInv, TrafficOK, OneFront
  <2>. QED BY <2>1, <2>2 DEF CanDeleteGroup
<1>3. /\ UNCHANGED config /\ Return(TRUE) /\ Promote
      /\ DeleteTargetGroup(stableTGARN)
  BY <1>0, <1>2 DEF DeleteBlueGroup, Request, Repairable
<1>4. targetGroups' = ({ServiceName} \ {config}) \cup {greenTGARN}
  <2>1. stableTGARN \notin {ServiceName} \ {config}
    BY <1>0 DEF NamesOK
  <2>2. targetGroups = ({ServiceName} \ {config}) \cup {stableTGARN, greenTGARN}
    BY <1>0 DEF SInv, GroupsOK
  <2>3. targetGroups' = targetGroups \ {stableTGARN}
    BY <1>3 DEF DeleteTargetGroup
  <2>. QED BY <1>2, <2>1, <2>2, <2>3
<1>5. UNCHANGED << services, listener >>
  BY <1>3 DEF DeleteTargetGroup
<1>. QED BY <1>0, <1>1, <1>3, <1>4, <1>5, PromotedKeeps

-----------------------------------------------------------------------------
LEMMA RouteKeeps ==
  ASSUME SInv, RouteListener, Advance
  PROVE  SInv'
<1>0. /\ NamesOK /\ PlaceOK /\ StageOK /\ pc = "route" /\ stage = "canary"
      /\ call.op = "RoutePercent"
      /\ canaryServiceName # None /\ canaryServiceName = canaryTGARN /\ greenServiceName = None
  BY DEF SInv, PlaceOK, At, StageOK, NamesOK, RouteListener
<1>1. UNCHANGED << serviceName, stableTGARN, greenServiceName, greenTGARN, canaryServiceName,
                   canaryTGARN, config >>
  BY DEF RouteListener, Request, driver, green, canary
<1> DEFINE weights == [t \in {canaryTGARN, stableTGARN} |->
                         IF t = canaryTGARN THEN call.percent ELSE 100 - call.percent]
<1>2. \/ CanForward({canaryTGARN, stableTGARN}) /\ ModifyListener(weights) /\ Return(TRUE)
      \/ UNCHANGED aws /\ Return(FALSE)
      \/ CanForward({canaryTGARN, stableTGARN}) /\ ModifyListener(weights) /\ Return(FALSE)
  BY DEF RouteListener, Request
<1>3. DOMAIN weights = {canaryTGARN, stableTGARN}
  OBVIOUS
<1> HIDE DEF weights
<1>4. pc' = "idle" /\ stage' = "canary"
  <2>1. CASE Return(TRUE)
    BY <1>0, <2>1, OnSuccess
  <2>2. CASE Return(FALSE)
    BY <1>0, <2>2, OnReturn
  <2>. QED BY <1>2, <2>1, <2>2
<1>5. PlaceOK' /\ StageOK'
  BY <1>0, <1>1, <1>4 DEF PlaceOK, At, StageOK
<1>6. CASE UNCHANGED aws
  <2>1. Quiet
    BY <1>1, <1>6 DEF Quiet, aws
  <2>. QED BY <1>0, <1>4, <1>5, <2>1, QuietKeeps
<1>7. CASE CanForward({canaryTGARN, stableTGARN}) /\ ModifyListener(weights)
  <2>1. stableTGARN = serviceName
    <3>1. None \notin targetGroups
      BY <1>0, NamesDiffer DEF SInv, GroupsOK
    <3>. QED BY <1>0, <1>7, <3>1 DEF CanForward, NamesOK
  <2>2. UNCHANGED << services, targetGroups >> /\ DOMAIN listener' = {serviceName, canaryServiceName}
    BY <1>0, <1>3, <1>7, <2>1 DEF ModifyListener
  <2>3. NamesOK'
    BY <1>0, <1>1 DEF NamesOK, greenName, canaryName
  <2>4. ServicesOK' /\ GroupsOK'
    BY <1>0, <1>1, <1>4, <2>2 DEF SInv, ServicesOK, GroupsOK
  <2>5. Mixed'
    BY <1>0, <1>1, <1>4, <2>1, <2>2 DEF SInv, TrafficOK, Mixed, NamesOK
  <2>6. TrafficOK'
    BY <1>0, <1>1, <1>4, <2>2, <2>5 DEF SInv, TrafficOK
  <2>. QED BY <1>5, <2>3, <2>4, <2>6 DEF SInv
<1>. QED BY <1>2, <1>6, <1>7

LEMMA RestoreKeeps ==
  ASSUME SInv, Repairable, RestoreListener, Advance
  PROVE  SInv'
<1>0. /\ NamesOK /\ PlaceOK /\ StageOK /\ pc = "restore listener" /\ stage = "ending"
      /\ call.op \in Ending /\ (call.op = "DestroyCanary" => stableTGARN # None)
      /\ greenServiceName = None
  BY DEF SInv, PlaceOK, At, StageOK, NamesOK, RestoreListener, Ending
<1>1. UNCHANGED << serviceName, stableTGARN, greenServiceName, greenTGARN, canaryServiceName,
                   canaryTGARN, config >>
  BY DEF RestoreListener, Request, driver, green, canary
<1>2. \/ /\ stableTGARN # None /\ ModifyListener([t \in {stableTGARN} |-> 1])
         /\ DestroyService
      \/ stableTGARN = None /\ UNCHANGED aws /\ Return(FALSE)
  <2>1. None \notin targetGroups
    BY <1>0, NamesDiffer DEF SInv, GroupsOK
  <2>2. CanForward({stableTGARN}) <=> stableTGARN # None
    BY <2>1 DEF SInv, GroupsOK, CanForward
  <2>. QED BY <1>0, <2>2 DEF RestoreListener, Request, Repairable
<1>3. CASE stableTGARN = None /\ UNCHANGED aws /\ Return(FALSE)
  <2>1. pc' = "idle" /\ stage' = "ending"
    BY <1>0, <1>3, OnReturn DEF Ending
  <2>2. PlaceOK' /\ StageOK' /\ Quiet
    BY <1>0, <1>1, <1>3, <2>1 DEF PlaceOK, At, StageOK, Quiet, aws
  <2>. QED BY <1>0, <2>1, <2>2, QuietKeeps
<1>4. CASE /\ stableTGARN # None /\ ModifyListener([t \in {stableTGARN} |-> 1])
           /\ DestroyService
  <2>1. UNCHANGED << services, targetGroups >> /\ OneFront(serviceName)'
    BY <1>0, <1>1, <1>4 DEF ModifyListener, OneFront, NamesOK
  <2>2. \/ /\ canaryServiceName # None /\ pc' = "drain canary" /\ call' = call
           /\ stage' = "ending"
        \/ /\ canaryServiceName = None /\ canaryTGARN # None
           /\ pc' = "delete canary group" /\ call' = call /\ stage' = "ending"
        \/ /\ canaryServiceName = None /\ canaryTGARN = None
           /\ pc' = "idle" /\ stage' = "stable"
    <3>1. CASE canaryServiceName # None
      BY <1>0, <1>4, <3>1, OnGoing DEF DestroyService, Then
    <3>2. CASE canaryServiceName = None /\ canaryTGARN # None
      BY <1>0, <1>4, <3>2, OnGoing DEF DestroyService, Then
    <3>3. CASE canaryServiceName = None /\ canaryTGARN = None
      BY <1>0, <1>4, <3>3, OnSuccess DEF DestroyService, Ending
    <3>. QED BY <3>1, <3>2, <3>3
  <2>3. NamesOK'
    BY <1>0, <1>1 DEF NamesOK, greenName, canaryName
  <2>4. PlaceOK'
    BY <1>0, <1>1, <2>2 DEF PlaceOK, At, Ending
  <2>5. StageOK'
    BY <1>0, <1>1, <2>2 DEF StageOK
  <2>6. ServicesOK' /\ GroupsOK'
    BY <1>0, <1>1, <2>1, <2>2 DEF SInv, ServicesOK, GroupsOK
  <2>7. TrafficOK'
    BY <1>0, <1>1, <2>1, <2>2 DEF SInv, TrafficOK
  <2>. QED BY <2>3, <2>4, <2>5, <2>6, <2>7 DEF SInv
<1>. QED BY <1>2, <1>3, <1>4

LEMMA DrainCanaryKeeps ==
  ASSUME SInv, Repairable, DrainCanary, Advance
  PROVE  SInv'
<1>0. /\ NamesOK /\ PlaceOK /\ StageOK /\ pc = "drain canary" /\ stage = "ending"
      /\ call.op \in Ending
      /\ canaryServiceName # None /\ canaryServiceName = canaryTGARN /\ greenServiceName = None
  BY DEF SInv, PlaceOK, At, StageOK, NamesOK, DrainCanary, Ending
<1>1. UNCHANGED << serviceName, stableTGARN, greenServiceName, greenTGARN, canaryServiceName,
                   canaryTGARN, config >>
  BY DEF DrainCanary, Request, driver, green, canary
<1>2. /\ Then("delete canary")
      /\ UNCHANGED aws \/ Drain(canaryServiceName)
  BY DEF DrainCanary, Request, Repairable
<1>3. pc' = "delete canary" /\ call' = call /\ stage' = "ending"
  BY <1>0, <1>2, OnGoing DEF Then
<1>4. PlaceOK' /\ StageOK'
  BY <1>0, <1>1, <1>3 DEF PlaceOK, At, StageOK, Ending
<1>5. serviceName \in DOMAIN services /\ canaryServiceName \in DOMAIN services
      /\ canaryServiceName # serviceName
  BY <1>0, KnownServices, NamesDiffer DEF NamesOK
<1>6. /\ DOMAIN services' = DOMAIN services
      /\ services'[canaryServiceName].tg = services[canaryServiceName].tg
      /\ \A m \in DOMAIN services \ {canaryServiceName} : services'[m] = services[m]
      /\ UNCHANGED << targetGroups, listener >>
  BY <1>2, <1>5, DrainGives DEF aws
<1>7. NamesOK'
  BY <1>0, <1>1 DEF NamesOK, greenName, canaryName
<1>8. ServicesOK' /\ GroupsOK'
  BY <1>0, <1>1, <1>3, <1>6 DEF SInv, ServicesOK, GroupsOK
<1>9. OneFront(serviceName)
  BY <1>0 DEF SInv, TrafficOK, Mixed
<1>10. TrafficOK'
  BY <1>0, <1>1, <1>3, <1>5, <1>6, <1>9 DEF SInv, TrafficOK, OneFront
<1>. QED BY <1>4, <1>7, <1>8, <1>10 DEF SInv

LEMMA DeleteCanaryKeeps ==
  ASSUME SInv, Repairable, DeleteCanary, Advance
  PROVE  SInv'
<1>0. /\ NamesOK /\ PlaceOK /\ StageOK /\ pc = "delete canary" /\ stage = "ending"
      /\ call.op \in Ending
      /\ canaryServiceName # None /\ canaryServiceName = canaryTGARN /\ greenServiceName = None
  BY DEF SInv, PlaceOK, At, StageOK, NamesOK, DeleteCanary, Ending
<1>1. UNCHANGED << serviceName, stableTGARN, greenServiceName, greenTGARN, canaryTGARN, config >>
  BY DEF DeleteCanary, Request, green
<1>2. \/ /\ DeleteService(canaryServiceName) /\ canaryServiceName' = None
         /\ Then("delete canary group")
      \/ UNCHANGED aws /\ UNCHANGED canaryServiceName /\ Return(FALSE)
  BY <1>0 DEF DeleteCanary, Request, Repairable
<1>3. CASE UNCHANGED aws /\ UNCHANGED canaryServiceName /\ Return(FALSE)
  <2>1. pc' = "idle" /\ stage' = "ending"
    BY <1>0, <1>3, OnReturn DEF Ending
  <2>2. PlaceOK' /\ StageOK' /\ Quiet
    BY <1>0, <1>1, <1>3, <2>1 DEF PlaceOK, At, StageOK, Quiet, aws
  <2>. QED BY <1>0, <2>1, <2>2, QuietKeeps
<1>4. CASE /\ DeleteService(canaryServiceName) /\ canaryServiceName' = None
           /\ Then("delete canary group")
  <2>1. pc' = "delete canary group" /\ call' = call /\ stage' = "ending"
    BY <1>0, <1>4, OnGoing DEF Then
  <2>2. DOMAIN services = {serviceName, canaryServiceName} /\ canaryServiceName # serviceName
    BY <1>0, NamesDiffer DEF SInv, ServicesOK, NamesOK
  <2>3. /\ DOMAIN services' = {serviceName} /\ services'[serviceName] = services[serviceName]
        /\ UNCHANGED << targetGroups, listener >>
    <3>1. DeleteService(canaryServiceName)
      BY <1>4
    <3>. QED BY <2>2, <3>1, DeleteServiceGives
  <2>4. NamesOK'
    BY <1>0, <1>1, <1>4 DEF NamesOK, greenName, canaryName
  <2>5. PlaceOK' /\ StageOK'
    BY <1>0, <1>1, <1>4, <2>1 DEF PlaceOK, At, StageOK, Ending
  <2>6. ServicesOK'
    BY <1>0, <1>1, <1>4, <2>1, <2>2, <2>3 DEF SInv, ServicesOK
  <2>7. GroupsOK'
    BY <1>1, <2>3 DEF SInv, GroupsOK
  <2>8. TrafficOK'
    BY <1>0, <1>1, <2>1, <2>3 DEF SInv, TrafficOK, OneFront, Mixed
  <2>. QED BY <2>4, <2>5, <2>6, <2>7, <2>8 DEF SInv
<1>. QED BY <1>2, <1>3, <1>4

LEMMA DeleteCanaryGroupKeeps ==
  ASSUME SInv, Repairable, DeleteCanaryGroup, Advance
  PROVE  SInv'
<1>0. /\ NamesOK /\ PlaceOK /\ StageOK /\ pc = "delete canary group" /\ stage = "ending"
      /\ call.op \in Ending
      /\ canaryServiceName = None /\ canaryTGARN # None /\ greenServiceName = None
  BY DEF SInv, PlaceOK, At, StageOK, NamesOK, DeleteCanaryGroup, Ending
<1>1. /\ UNCHANGED << serviceName, stableTGARN, greenServiceName, greenTGARN, canaryServiceName,
                      config >>
  BY DEF DeleteCanaryGroup, Request, green
<1>2. OneFront(serviceName)
  BY <1>0 DEF SInv, TrafficOK, Mixed
<1>3. \/ DeleteTargetGroup(canaryTGARN) /\ canaryTGARN' = None /\ Return(TRUE)
      \/ UNCHANGED aws /\ UNCHANGED canaryTGARN /\ Return(FALSE)
  BY DEF DeleteCanaryGroup, Request, Repairable
<1>4. CASE UNCHANGED aws /\ UNCHANGED canaryTGARN /\ Return(FALSE)
  <2>1. pc' = "idle" /\ stage' = "ending"
    BY <1>0, <1>4, OnReturn DEF Ending
  <2>2. PlaceOK' /\ StageOK' /\ Quiet
    BY <1>0, <1>1, <1>4, <2>1 DEF PlaceOK, At, StageOK, Quiet, aws
  <2>. QED BY <1>0, <2>1, <2>2, QuietKeeps
<1>5. CASE DeleteTargetGroup(canaryTGARN) /\ canaryTGARN' = None /\ Return(TRUE)
  <2>1. pc' = "idle" /\ stage' = "stable"
    BY <1>0, <1>5, OnSuccess DEF Ending
  <2>2. targetGroups' = targetGroups \ {canaryTGARN} /\ UNCHANGED << services, listener >>
    BY <1>5 DEF DeleteTargetGroup
  <2>3. NamesOK'
    BY <1>0, <1>1, <1>5 DEF NamesOK, greenName, canaryName
  <2>4. PlaceOK' /\ StageOK'
    BY <1>0, <1>1, <1>5, <2>1 DEF PlaceOK, At, StageOK
  <2>5. ServicesOK'
    BY <1>0, <1>1, <2>1, <2>2 DEF SInv, ServicesOK
  <2>6. GroupsOK'
    <3>1. /\ canaryTGARN \notin {ServiceName} \ {config}
          /\ canaryTGARN # stableTGARN /\ canaryTGARN # greenTGARN
      BY <1>0, NamesDiffer DEF NamesOK
    <3>2. targetGroups = ({ServiceName} \ {config})
                           \cup ({stableTGARN, greenTGARN, canaryTGARN} \ {None})
      BY DEF SInv, GroupsOK
    <3>3. targetGroups' = ({ServiceName} \ {config}) \cup ({stableTGARN, greenTGARN, None} \ {None})
      BY <2>2, <3>1, <3>2
    <3>. QED BY <1>1, <1>5, <3>3 DEF GroupsOK
  <2>7. TrafficOK'
    BY <1>0, <1>1, <1>2, <2>1, <2>2 DEF SInv, TrafficOK, OneFront
  <2>. QED BY <2>3, <2>4, <2>5, <2>6, <2>7 DEF SInv
<1>. QED BY <1>3, <1>4, <1>5

-----------------------------------------------------------------------------
\* All of them; "describe stable" belongs to CurrentImage, which no strategy
\* calls.
LEMMA ServeKeeps ==
  ASSUME SInv, Repairable, Serve, Advance
  PROVE  SInv'
<1>1. ~DescribeStable
  BY DEF SInv, PlaceOK, At, DescribeStable
<1>2. CASE RegisterTaskDefinition \/ UpdateService
  BY <1>2, RegisterKeeps, UpdateServiceKeeps
<1>3. CASE DescribeActive \/ GetMetricStatistics \/ DescribeCanary
  BY <1>3, AskKeeps, DescribeCanaryKeeps
<1>4. CASE CreateTargetGroup \/ CreateService
  BY <1>4, CreateTargetGroupKeeps, CreateServiceKeeps
<1>5. CASE SwitchListener \/ DrainBlue \/ DeleteBlue \/ DeleteBlueGroup
  BY <1>5, SwitchKeeps, DrainBlueKeeps, DeleteBlueKeeps, DeleteBlueGroupKeeps
<1>6. CASE RouteListener \/ RestoreListener
  BY <1>6, RouteKeeps, RestoreKeeps
<1>7. CASE DrainCanary \/ DeleteCanary \/ DeleteCanaryGroup
  BY <1>7, DrainCanaryKeeps, DeleteCanaryKeeps, DeleteCanaryGroupKeeps
<1>. QED BY <1>1, <1>2, <1>3, <1>4, <1>5, <1>6, <1>7 DEF Serve

LEMMA StutterKeeps ==
  ASSUME SInv, UNCHANGED svars
  PROVE  SInv'
<1>1. Quiet /\ UNCHANGED << pc, call, stage >>
  BY DEF svars, vars, driver, green, canary, aws, Quiet
<1>2. PlaceOK' /\ StageOK'
  BY <1>1 DEF SInv, PlaceOK, StageOK, Quiet
<1>3. NamesOK' /\ ServicesOK' /\ GroupsOK'
  BY <1>1 DEF SInv, Quiet, NamesOK, greenName, canaryName, ServicesOK, GroupsOK
<1>4. TrafficOK'
  BY <1>1 DEF SInv, Quiet, TrafficOK, OneFront, Mixed
<1>. QED BY <1>2, <1>3, <1>4 DEF SInv

LEMMA StepKeeps ==
  ASSUME SInv, Repairable, [StrategyNext]_svars
  PROVE  SInv'
<1>1. CASE (Call \/ Serve) /\ Advance
  BY <1>1, CallKeeps, ServeKeeps
<1>2. CASE ECSStep /\ UNCHANGED stage
  BY <1>2, RolloutKeeps
<1>3. CASE UNCHANGED svars
  BY <1>3, StutterKeeps
<1>4. ~Restart
  BY DEF Repairable, Restart
<1>. QED BY <1>1, <1>2, <1>3, <1>4 DEF StrategyNext

\* The invariant holds of every behaviour.
LEMMA Invariant ==
  ASSUME Repairable
  PROVE  StrategySpec => []SInv
<1>1. ASSUME SInv, [StrategyNext]_svars
      PROVE  SInv'
  BY <1>1, StepKeeps
<1>. QED BY <1>1, InitSInv, PTL DEF StrategySpec

\* NoOrphans, for every value of the constants: between operations every
\* service and target group belongs to an environment that the driver knows, so
\* that a later operation removes it (deploy.go:312-341, 508-560).
THEOREM NothingIsOrphaned ==
  ASSUME Repairable
  PROVE  StrategySpec => []NoOrphans
<1>1. SInv => NoOrphans
  BY DEF SInv, ServicesOK, GroupsOK, NoOrphans
<1>. QED BY <1>1, Invariant, PTL

\* TrafficServed of rolling updates, blue/green deployments and canaries in any
\* order, where BlueGreenServes has only the second but lets requests fail more
\* freely: no request of a user is forwarded to a target group without a
\* service (deploy.go:287-309, 407-430, 459-504).
THEOREM EveryStrategyServes ==
  ASSUME Repairable
  PROVE  StrategySpec => []TrafficServed
<1>1. ASSUME SInv
      PROVE  TrafficServed
  <2>1. ASSUME NEW n \in DOMAIN services, services[n].desired = 1
        PROVE  Behind(n) # {}
    <3>1. services[n].tg = n
      BY <1>1 DEF SInv, ServicesOK
    <3>2. n \in Behind(n)
      BY <2>1, <3>1 DEF Behind
    <3>. QED BY <3>2
  <2>2. CASE stage = "switched"
    <3>1. greenServiceName # None /\ DOMAIN listener = {greenServiceName}
      BY <1>1, <2>2 DEF SInv, StageOK, TrafficOK, OneFront
    <3>. QED BY <1>1, <2>1, <3>1, KnownServices DEF SInv, TrafficOK, TrafficServed
  <2>3. CASE stage # "switched"
    <3>1. /\ services[serviceName].desired = 1
          /\ OneFront(serviceName) \/ Mixed
      BY <1>1, <2>3 DEF SInv, TrafficOK
    <3>2. serviceName \in DOMAIN services /\ Behind(serviceName) # {}
      BY <1>1, <2>1, <2>3, <3>1, KnownServices
    <3>3. CASE OneFront(serviceName)
      BY <3>2, <3>3 DEF OneFront, TrafficServed
    <3>4. CASE Mixed
      <4>1. Behind(canaryServiceName) # {}
        BY <1>1, <2>1, <3>4, KnownServices DEF Mixed
      <4>. QED BY <3>2, <3>4, <4>1 DEF Mixed, TrafficServed
    <3>. QED BY <3>1, <3>3, <3>4
  <2>. QED BY <2>2, <2>3
<1>. QED BY <1>1, Invariant, PTL
===============================================================================
