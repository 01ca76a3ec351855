------------------------------ MODULE ECSDeploy ------------------------------
(***************************************************************************)
(* The blue/green and canary deployment driver (drivers/deploy.go): an     *)
(* ECSDeployDriver and the ECS services, target groups and listener it     *)
(* works on.  An operation is a sequence of AWS requests and every request *)
(* is one step, so that each of them may fail after the earlier ones took  *)
(* effect, and the driver may be restarted between two of them: its view   *)
(* of green and canary lives in memory only.                               *)
(*                                                                         *)
(* A name is the sequence of its parts: d.serviceName + "-green" appends   *)
(* "green".  The ARN of a target group is the name of the service it was   *)
(* created for, and << >> is the empty string.                             *)
(*                                                                         *)
(* Abstracted: task definitions, of which only the image matters; task     *)
(* counts (a service wants one task or none); the CloudWatch average.      *)
(***************************************************************************)
EXTENDS Integers, Sequences, FiniteSets

CONSTANTS
  Images,        \* container images
  FirstImage,    \* the image of the service at the start
  NoImage,       \* no task is running
  StableTGARNs,  \* configured stable target groups: its ARN, or << >> for none
  Percents,      \* arguments of RoutePercent
  MaxName,       \* parts of the longest name CreateTargetGroup accepts
  Failing,       \* requests that may fail, and "restart" if the process may
  LostAnswers,   \* whether a failed request may have been carried out
  MaxFailures    \* bound on failed requests and restarts together

None == << >>
ServiceName == << "svc" >>

Requests ==
  {"register", "create target group", "create service", "update service",
   "describe active", "describe stable", "switch", "route",
   "drain blue", "delete blue", "delete blue group",
   "describe canary", "restore listener",
   "drain canary", "delete canary", "delete canary group", "get metrics"}

Ops == {"Update", "HealthCheck", "CurrentImage", "CreateGreen", "SwitchTraffic",
        "DestroyBlue", "CreateCanary", "RoutePercent", "CheckMetricGate",
        "PromoteCanary", "DestroyCanary"}

ASSUME DeployAssumption ==
  /\ FirstImage \in Images
  /\ NoImage \notin Images
  /\ StableTGARNs \subseteq {None, ServiceName}
  /\ Percents \subseteq 0 .. 100
  /\ MaxName \in Nat
  /\ Failing \subseteq Requests \cup {"restart"}
  /\ LostAnswers \in BOOLEAN
  /\ MaxFailures \in Nat

VARIABLES
  serviceName, stableTGARN,          \* the stable environment of the driver
  greenServiceName, greenTGARN,      \* its transient blue/green state
  canaryServiceName, canaryTGARN,    \* its transient canary state
  services,      \* ECS: the services that exist, by name
  targetGroups,  \* ELB: the target groups that exist
  listener,      \* ELB: the weights of the target groups it forwards to
  pc,            \* the request the driver's operation sends next
  call,          \* that operation and its arguments
  result,        \* what the last operation returned
  failures,      \* how often a request or the process may still fail
  config         \* the stable target group of the configuration

green  == << greenServiceName, greenTGARN >>
canary == << canaryServiceName, canaryTGARN >>
driver == << serviceName, stableTGARN, green, canary >>
aws    == << services, targetGroups, listener >>
vars   == << driver, aws, pc, call, result, failures, config >>

NoCall == [op |-> "none", image |-> NoImage, percent |-> 0]
NoResult == [op |-> "none", ok |-> FALSE, image |-> NoImage]

\* An ECS service: the image it was told to run, the image its tasks run, the
\* tasks it wants, whether its last rollout failed, and its target group.
Service == [image : Images, live : Images \cup {NoImage}, desired : {0, 1},
            failed : BOOLEAN, tg : Seq({"svc", "green", "canary"})]

InitDriver ==
  /\ config \in StableTGARNs
  /\ serviceName = ServiceName /\ stableTGARN = config
  /\ greenServiceName = None /\ greenTGARN = None
  /\ canaryServiceName = None /\ canaryTGARN = None

Init ==
  /\ InitDriver
  /\ services = [n \in {ServiceName} |->
                   [image |-> FirstImage, live |-> FirstImage, desired |-> 1,
                    failed |-> FALSE, tg |-> ServiceName]]
  /\ targetGroups = {ServiceName}
  /\ listener = [t \in {ServiceName} |-> 1]
  /\ pc = "idle" /\ call = NoCall /\ result = NoResult
  /\ failures = MaxFailures

\* (faulty variant) The stable service is checked during a blue/green deployment.
activeServiceStable == serviceName

activeService == IF greenServiceName # None THEN greenServiceName ELSE serviceName

-----------------------------------------------------------------------------
(***************************************************************************)
(* Operations and requests.                                                *)
(***************************************************************************)

\* The caller starts an operation, whose first request is q.
Begin(op, q, image, percent) ==
  /\ pc = "idle"
  /\ pc' = q
  /\ call' = [op |-> op, image |-> image, percent |-> percent]
  /\ result' = NoResult
  /\ UNCHANGED << driver, aws, failures, config >>

\* An operation returns without a request.
Answer(op, ok) ==
  /\ pc = "idle"
  /\ result' = [op |-> op, ok |-> ok, image |-> NoImage]
  /\ UNCHANGED << driver, aws, pc, call, failures, config >>

Then(q) == pc' = q /\ UNCHANGED << call, result >>

ReturnImage(ok, image) ==
  /\ pc' = "idle"
  /\ result' = [op |-> call.op, ok |-> ok, image |-> image]
  /\ call' = NoCall

Return(ok) == ReturnImage(ok, NoImage)

\* The request at pc: AWS accepts it if it is possible, and then it takes
\* effect and the driver goes on with ok; otherwise, and when it fails in
\* transit, with error.
Request(possible, effect, ok, error) ==
  /\ \/ possible /\ effect /\ ok /\ UNCHANGED failures
     \/ ~possible /\ UNCHANGED aws /\ error /\ UNCHANGED failures
     \/ /\ pc \in Failing /\ failures > 0
        /\ failures' = failures - 1
        /\ UNCHANGED aws \/ (LostAnswers /\ possible /\ effect)
        /\ error
  /\ UNCHANGED config

\* What AWS accepts, and what it does then.  (external)
Exists(n) == n \in DOMAIN services

SetService(n, svc) ==
  /\ services' = [m \in DOMAIN services \cup {n} |-> IF m = n THEN svc ELSE services[m]]
  /\ UNCHANGED << targetGroups, listener >>

Drain(n) ==
  LET s == services[n]
  IN SetService(n, [image |-> s.image, live |-> s.live, desired |-> 0,
                    failed |-> s.failed, tg |-> s.tg])

DeleteService(n) ==
  /\ services' = [m \in DOMAIN services \ {n} |-> services[m]]
  /\ UNCHANGED << targetGroups, listener >>

CanForward(ts) == ts \subseteq targetGroups

ModifyListener(weights) ==
  /\ listener' = weights
  /\ UNCHANGED << services, targetGroups >>

\* A target group of the listener is in use; deleting one that is gone succeeds.
CanDeleteGroup(t) == t \notin DOMAIN listener

DeleteTargetGroup(t) ==
  /\ targetGroups' = targetGroups \ {t}
  /\ UNCHANGED << services, listener >>

-----------------------------------------------------------------------------
(***************************************************************************)
(* Update, HealthCheck, CurrentImage.                                      *)
(***************************************************************************)

Update(image) == Begin("Update", "register", image, 0)

RegisterTaskDefinition ==
  /\ pc = "register"
  /\ Request(TRUE, UNCHANGED aws,
             Then(IF call.op \in {"CreateGreen", "CreateCanary"}
                  THEN "create target group" ELSE "update service"),
             Return(FALSE))
  /\ UNCHANGED driver

\* PromoteCanary calls Update and goes on.
UpdateService ==
  /\ pc = "update service"
  /\ LET s == services[serviceName]
     IN Request(Exists(serviceName),
                SetService(serviceName,
                           [image |-> call.image, live |-> s.live, desired |-> s.desired,
                            failed |-> FALSE, tg |-> s.tg]),
                IF call.op = "Update" THEN Return(TRUE) ELSE Then("restore listener"),
                Return(FALSE))
  /\ UNCHANGED driver

HealthCheck == Begin("HealthCheck", "describe active", NoImage, 0)

\* running >= desired and no failed rollout.
IsHealthy(n) ==
  /\ Exists(n)
  /\ services[n].desired = 1 => services[n].live # NoImage
  /\ ~services[n].failed

DescribeActive ==
  /\ pc = "describe active"
  /\ Request(TRUE, UNCHANGED aws, Return(IsHealthy(activeService)), Return(FALSE))
  /\ UNCHANGED driver

CurrentImage == Begin("CurrentImage", "describe stable", NoImage, 0)

\* The image of the task definition of the stable service.
DescribeStable ==
  /\ pc = "describe stable"
  /\ Request(Exists(serviceName), UNCHANGED aws,
             ReturnImage(TRUE, services[serviceName].image), Return(FALSE))
  /\ UNCHANGED driver

-----------------------------------------------------------------------------
(***************************************************************************)
(* Blue/green.                                                             *)
(***************************************************************************)

CreateGreen(image) == Begin("CreateGreen", "register", image, 0)

\* The service that CreateGreen or CreateCanary creates, and its target group.
newName == Append(serviceName, IF call.op = "CreateGreen" THEN "green" ELSE "canary")

\* Creating a target group again returns the one there is.
CreateTargetGroup ==
  /\ pc = "create target group"
  /\ Request(Len(newName) <= MaxName,
             targetGroups' = targetGroups \cup {newName} /\ UNCHANGED << services, listener >>,
             /\ Then("create service")
             /\ IF call.op = "CreateGreen"
                THEN greenTGARN' = newName /\ UNCHANGED canaryTGARN
                ELSE canaryTGARN' = newName /\ UNCHANGED greenTGARN,
             Return(FALSE) /\ UNCHANGED << greenTGARN, canaryTGARN >>)
  /\ UNCHANGED << serviceName, stableTGARN, greenServiceName, canaryServiceName >>

CreateService ==
  /\ pc = "create service"
  /\ Request(~Exists(newName) /\ newName \in targetGroups,
             SetService(newName, [image |-> call.image, live |-> NoImage, desired |-> 1,
                                  failed |-> FALSE, tg |-> newName]),
             /\ Return(TRUE)
             /\ IF call.op = "CreateGreen"
                THEN greenServiceName' = newName /\ UNCHANGED canaryServiceName
                ELSE canaryServiceName' = newName /\ UNCHANGED greenServiceName,
             Return(FALSE) /\ UNCHANGED << greenServiceName, canaryServiceName >>)
  /\ UNCHANGED << serviceName, stableTGARN, greenTGARN, canaryTGARN >>

SwitchTraffic ==
  \/ greenTGARN = None /\ Answer("SwitchTraffic", FALSE)
  \/ greenTGARN # None /\ Begin("SwitchTraffic", "switch", NoImage, 0)

SwitchListener ==
  /\ pc = "switch"
  /\ Request(CanForward({greenTGARN}), ModifyListener([t \in {greenTGARN} |-> 1]),
             Return(TRUE), Return(FALSE))
  /\ UNCHANGED driver

DestroyBlue == Begin("DestroyBlue", "drain blue", NoImage, 0)

DrainBlue ==
  /\ pc = "drain blue"
  /\ Request(Exists(serviceName), Drain(serviceName), Then("delete blue"), Then("delete blue"))
  /\ UNCHANGED driver

\* (faulty variant) Green is not promoted.
PromoteNothing ==
  /\ greenServiceName' = None /\ greenTGARN' = None
  /\ UNCHANGED << serviceName, stableTGARN, canary >>

\* Green becomes stable.
Promote ==
  /\ serviceName' = greenServiceName /\ stableTGARN' = greenTGARN
  /\ greenServiceName' = None /\ greenTGARN' = None
  /\ UNCHANGED canary

DeleteBlue ==
  /\ pc = "delete blue"
  /\ Request(Exists(serviceName), DeleteService(serviceName),
             IF stableTGARN # None THEN Then("delete blue group") /\ UNCHANGED driver
             ELSE Return(TRUE) /\ Promote,
             Return(FALSE) /\ UNCHANGED driver)

\* (faulty variant) The target group of green is deleted, which is in use.
DeleteBlueGroupGreen ==
  /\ pc = "delete blue group"
  /\ Request(CanDeleteGroup(greenTGARN), DeleteTargetGroup(greenTGARN),
             Return(TRUE) /\ Promote,
             Return(FALSE) /\ UNCHANGED driver)

DeleteBlueGroup ==
  /\ pc = "delete blue group"
  /\ Request(CanDeleteGroup(stableTGARN), DeleteTargetGroup(stableTGARN),
             Return(TRUE) /\ Promote,
             Return(FALSE) /\ UNCHANGED driver)

-----------------------------------------------------------------------------
(***************************************************************************)
(* Canary.                                                                 *)
(***************************************************************************)

CreateCanary(image) == Begin("CreateCanary", "register", image, 0)

RoutePercent(percent) ==
  \/ canaryTGARN = None /\ Answer("RoutePercent", FALSE)
  \/ canaryTGARN # None /\ Begin("RoutePercent", "route", NoImage, percent)

\* (faulty variant) The stable group's weight is added up the wrong way.
RouteListenerOver ==
  /\ pc = "route"
  /\ Request(CanForward({canaryTGARN, stableTGARN}),
             ModifyListener([t \in {canaryTGARN, stableTGARN} |->
                               IF t = canaryTGARN THEN call.percent ELSE 100 + call.percent]),
             Return(TRUE), Return(FALSE))
  /\ UNCHANGED driver

RouteListener ==
  /\ pc = "route"
  /\ Request(CanForward({canaryTGARN, stableTGARN}),
             ModifyListener([t \in {canaryTGARN, stableTGARN} |->
                               IF t = canaryTGARN THEN call.percent ELSE 100 - call.percent]),
             Return(TRUE), Return(FALSE))
  /\ UNCHANGED driver

CheckMetricGate == Begin("CheckMetricGate", "get metrics", NoImage, 0)

\* No data counts as healthy; otherwise the average may exceed the threshold.
GetMetricStatistics ==
  /\ pc = "get metrics"
  /\ \E ok \in BOOLEAN : Request(TRUE, UNCHANGED aws, Return(ok), Return(FALSE))
  /\ UNCHANGED driver

PromoteCanary ==
  \/ canaryServiceName = None /\ Answer("PromoteCanary", FALSE)
  \/ canaryServiceName # None /\ Begin("PromoteCanary", "describe canary", NoImage, 0)

\* (faulty variant) The image of the stable service is read.
DescribeCanaryStable ==
  /\ pc = "describe canary"
  /\ Request(Exists(serviceName), UNCHANGED aws,
             /\ pc' = "register"
             /\ call' = [op |-> call.op, image |-> services[serviceName].image,
                         percent |-> call.percent]
             /\ UNCHANGED result,
             Return(FALSE))
  /\ UNCHANGED driver

\* The image of the canary is read, for Update.
DescribeCanary ==
  /\ pc = "describe canary"
  /\ Request(Exists(canaryServiceName), UNCHANGED aws,
             /\ pc' = "register"
             /\ call' = [op |-> call.op, image |-> services[canaryServiceName].image,
                         percent |-> call.percent]
             /\ UNCHANGED result,
             Return(FALSE))
  /\ UNCHANGED driver

\* What destroyCanaryResources does next.
DestroyService == IF canaryServiceName # None THEN Then("drain canary")
                  ELSE IF canaryTGARN # None THEN Then("delete canary group")
                  ELSE Return(TRUE)

DestroyCanary ==
  \/ canary = << None, None >> /\ Answer("DestroyCanary", TRUE)
  \/ /\ canary # << None, None >> /\ stableTGARN # None
     /\ Begin("DestroyCanary", "restore listener", NoImage, 0)
  \/ /\ canary # << None, None >> /\ stableTGARN = None
     /\ Begin("DestroyCanary",
              IF canaryServiceName # None THEN "drain canary" ELSE "delete canary group",
              NoImage, 0)

\* (faulty variant) The canary keeps its share of the traffic.
RestoreListenerSkipped ==
  /\ pc = "restore listener"
  /\ DestroyService
  /\ UNCHANGED << driver, aws, failures, config >>

\* DestroyCanary ignores an error of this request, PromoteCanary does not.
RestoreListener ==
  /\ pc = "restore listener"
  /\ Request(CanForward({stableTGARN}), ModifyListener([t \in {stableTGARN} |-> 1]),
             DestroyService,
             IF call.op = "DestroyCanary" THEN DestroyService ELSE Return(FALSE))
  /\ UNCHANGED driver

DrainCanary ==
  /\ pc = "drain canary"
  /\ Request(Exists(canaryServiceName), Drain(canaryServiceName),
             Then("delete canary"), Then("delete canary"))
  /\ UNCHANGED driver

\* (faulty variant) The name of the canary is not cleared.
DeleteCanaryNotCleared ==
  /\ pc = "delete canary"
  /\ Request(Exists(canaryServiceName), DeleteService(canaryServiceName),
             Then("delete canary group"), Return(FALSE))
  /\ UNCHANGED driver

DeleteCanary ==
  /\ pc = "delete canary"
  /\ Request(Exists(canaryServiceName), DeleteService(canaryServiceName),
             /\ canaryServiceName' = None
             /\ IF canaryTGARN # None THEN Then("delete canary group") ELSE Return(TRUE),
             Return(FALSE) /\ UNCHANGED canaryServiceName)
  /\ UNCHANGED << serviceName, stableTGARN, green, canaryTGARN >>

DeleteCanaryGroup ==
  /\ pc = "delete canary group"
  /\ Request(CanDeleteGroup(canaryTGARN), DeleteTargetGroup(canaryTGARN),
             Return(TRUE) /\ canaryTGARN' = None,
             Return(FALSE) /\ UNCHANGED canaryTGARN)
  /\ UNCHANGED << serviceName, stableTGARN, green, canaryServiceName >>

-----------------------------------------------------------------------------
(***************************************************************************)
(* ECS and the process around the driver.  (external)                      *)
(***************************************************************************)

\* A service starts its tasks, fails to, or has stopped them.
Rollout(n) ==
  /\ LET s == services[n]
         Becomes(live, failed) ==
           SetService(n, [image |-> s.image, live |-> live, desired |-> s.desired,
                          failed |-> failed, tg |-> s.tg])
     IN \/ /\ s.desired = 1 /\ s.live # s.image /\ ~s.failed
           /\ Becomes(s.image, FALSE) \/ Becomes(s.live, TRUE)
        \/ s.desired = 0 /\ s.live # NoImage /\ Becomes(NoImage, s.failed)
  /\ UNCHANGED << driver, pc, call, result, failures, config >>

\* The process restarts: a new driver is made from the configuration.
Restart ==
  /\ "restart" \in Failing /\ failures > 0
  /\ failures' = failures - 1
  /\ serviceName' = ServiceName /\ stableTGARN' = config
  /\ greenServiceName' = None /\ greenTGARN' = None
  /\ canaryServiceName' = None /\ canaryTGARN' = None
  /\ pc' = "idle" /\ call' = NoCall /\ result' = NoResult
  /\ UNCHANGED << aws, config >>

Serve ==
  \/ RegisterTaskDefinition \/ UpdateService \/ DescribeActive \/ DescribeStable
  \/ CreateTargetGroup \/ CreateService
  \/ SwitchListener \/ DrainBlue \/ DeleteBlue \/ DeleteBlueGroup
  \/ RouteListener \/ GetMetricStatistics \/ DescribeCanary \/ RestoreListener
  \/ DrainCanary \/ DeleteCanary \/ DeleteCanaryGroup

ECSStep == \E n \in DOMAIN services : Rollout(n)

\* Any operation may be called at any time, one at a time.
Issue ==
  \/ \E image \in Images : Update(image) \/ CreateGreen(image) \/ CreateCanary(image)
  \/ HealthCheck \/ CurrentImage \/ SwitchTraffic \/ DestroyBlue
  \/ CheckMetricGate \/ PromoteCanary \/ DestroyCanary
  \/ \E percent \in Percents : RoutePercent(percent)

Next == Issue \/ Serve \/ ECSStep \/ Restart

Spec == Init /\ [][Next]_vars

-----------------------------------------------------------------------------
(***************************************************************************)
(* Properties.                                                             *)
(***************************************************************************)

Name == Seq({"svc", "green", "canary"})

TypeOK ==
  /\ \A n \in {serviceName, stableTGARN, greenServiceName, greenTGARN,
               canaryServiceName, canaryTGARN} : n \in Name
  /\ DOMAIN services \subseteq Name
  /\ \A n \in DOMAIN services : services[n] \in Service
  /\ targetGroups \subseteq Name
  /\ DOMAIN listener \subseteq targetGroups
  /\ \A t \in DOMAIN listener : listener[t] \in 0 .. 100
  /\ pc \in Requests \cup {"idle"}
  /\ call \in [op : Ops \cup {"none"}, image : Images \cup {NoImage}, percent : 0 .. 100]
  /\ result \in [op : Ops \cup {"none"}, ok : BOOLEAN, image : Images \cup {NoImage}]
  /\ failures \in 0 .. MaxFailures
  /\ config \in StableTGARNs

\* The target groups that get traffic, and the services behind them.
Receives(t) == t \in DOMAIN listener /\ listener[t] > 0
Behind(t)   == {n \in DOMAIN services : services[n].tg = t /\ services[n].desired = 1}

\* No request of a user is forwarded to a target group without a service.
TrafficServed == \A t \in DOMAIN listener : Receives(t) => Behind(t) # {}

\* The operation that just returned without an error.
Done(op) == result.op = op /\ result.ok

\* "promotes the canary by updating the stable service with the canary image,
\* routing all traffic back to stable, and destroying the canary"
\* (deploy.go:457-458): all of it, whatever was called before.
PromotionComplete ==
  [][/\ (call.op = "PromoteCanary" /\ pc = "restore listener") =>
           services[serviceName].image = services[canaryServiceName].image
     /\ (pc # "idle" /\ Done("PromoteCanary")') =>
           /\ Exists(serviceName)' /\ listener' = [t \in {stableTGARN} |-> 1]
           /\ canary' = << None, None >>]_vars

\* "DestroyCanary routes all traffic back to stable and removes the canary"
\* (deploy.go:507): when it succeeds nothing of the canary it knew is left.
CanaryGone ==
  [][(pc # "idle" /\ Done("DestroyCanary")') =>
       /\ canary' = << None, None >>
       /\ canaryTGARN \notin targetGroups' /\ canaryTGARN \notin DOMAIN listener']_vars
=============================================================================
