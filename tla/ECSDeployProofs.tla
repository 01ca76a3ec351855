---------------------------- MODULE ECSDeployProofs ----------------------------
(***************************************************************************)
(* The deployment driver under any sequence of operations, for any images, *)
(* names, percentages, failures and restarts: everything has its type, a   *)
(* promotion that succeeds is complete, and so is the removal of a canary. *)
(*                                                                         *)
(* The argument: at every request, the operation that sends it and what it *)
(* has done before are known (Where, Promotion, Removal); the canary is    *)
(* another service than the stable one, because of their names (DriverOK). *)
(***************************************************************************)
EXTENDS ECSDeploy, SequenceTheorems, TLAPS

\* Names of stable and green services, and of canaries.
Core == Seq({"svc", "green"})
CanaryNames == {None} \cup {Append(n, "canary") : n \in Core}

DriverOK ==
  /\ serviceName \in Core /\ stableTGARN \in Core
  /\ greenServiceName \in Core /\ greenTGARN \in Core
  /\ canaryServiceName \in CanaryNames /\ canaryTGARN \in CanaryNames

AwsOK ==
  /\ DOMAIN services \subseteq Name
  /\ \A n \in DOMAIN services : services[n] \in Service
  /\ targetGroups \subseteq Name \ {None}
  /\ DOMAIN listener \subseteq targetGroups
  /\ \A t \in DOMAIN listener : listener[t] \in 0 .. 100

ControlOK ==
  /\ pc \in Requests \cup {"idle"}
  /\ call \in [op : Ops \cup {"none"}, image : Images \cup {NoImage}, percent : 0 .. 100]
  /\ result \in [op : Ops \cup {"none"}, ok : BOOLEAN, image : Images \cup {NoImage}]
  /\ failures \in 0 .. MaxFailures
  /\ config \in StableTGARNs

\* Which operation sends a request, and with what.
At(q, op, image) ==
  \/ /\ q \in {"register", "update service"}
     /\ op \in {"Update", "PromoteCanary"} /\ image \in Images
  \/ /\ q \in {"register", "create target group", "create service"}
     /\ op \in {"CreateGreen", "CreateCanary"} /\ image \in Images
  \/ /\ q \in {"restore listener", "drain canary", "delete canary", "delete canary group"}
     /\ op \in {"PromoteCanary", "DestroyCanary"}
  \/ q = "describe canary" /\ op = "PromoteCanary"
  \/ /\ q \in {"describe active", "describe stable", "switch", "route", "drain blue",
               "delete blue", "delete blue group", "get metrics"}
     /\ op \in {"HealthCheck", "CurrentImage", "SwitchTraffic", "DestroyBlue",
                "RoutePercent", "CheckMetricGate"}

Where ==
  \/ pc = "idle" /\ call.op = "none"
  \/ pc # "idle" /\ result.op = "none" /\ At(pc, call.op, call.image)

\* How far a promotion has come.
Promotion ==
  call.op = "PromoteCanary" =>
    /\ pc \in {"describe canary", "register", "update service", "restore listener"} =>
         canaryServiceName # None
    /\ pc \in {"register", "update service"} =>
         Exists(canaryServiceName) /\ services[canaryServiceName].image = call.image
    /\ pc = "restore listener" =>
         /\ Exists(canaryServiceName) /\ Exists(serviceName)
         /\ services[serviceName].image = services[canaryServiceName].image
    /\ pc \in {"drain canary", "delete canary", "delete canary group"} =>
         Exists(serviceName) /\ listener = [t \in {stableTGARN} |-> 1]

\* The group of a canary is deleted after its service.
Removal ==
  /\ pc \in {"drain canary", "delete canary"} => canaryServiceName # None
  /\ pc = "delete canary group" => canaryServiceName = None

DInv == DriverOK /\ AwsOK /\ ControlOK /\ Where /\ Promotion /\ Removal

\* What PromotionComplete and CanaryGone say of a step.
Complete ==
  (pc # "idle" /\ Done("PromoteCanary")') =>
    /\ Exists(serviceName)' /\ listener' = [t \in {stableTGARN} |-> 1]
    /\ canary' = << None, None >>
Gone ==
  (pc # "idle" /\ Done("DestroyCanary")') =>
    /\ canary' = << None, None >>
    /\ canaryTGARN \notin targetGroups' /\ canaryTGARN \notin DOMAIN listener'

-----------------------------------------------------------------------------
(***************************************************************************)
(* Names.                                                                  *)
(***************************************************************************)

LEMMA CoreNames ==
  /\ None \in Core /\ ServiceName \in Core /\ ServiceName # None
  /\ \A n \in Core : n \in Name
  /\ \A n \in Core : Append(n, "green") \in Core /\ Append(n, "green") # None
<1>1. None \in Core /\ ServiceName \in Core /\ ServiceName # None
  BY EmptySeq DEF None, Core, ServiceName
<1>2. \A n \in Core : n \in Name
  BY SeqMonotonic DEF Core, Name
<1>3. \A n \in Core : Append(n, "green") \in Core /\ Append(n, "green") # None
  BY EmptySeq, AppendProperties DEF Core, None
<1>4. QED
  BY <1>1, <1>2, <1>3

LEMMA CanaryName ==
  ASSUME NEW n \in Core
  PROVE  /\ Append(n, "canary") \in Name /\ Append(n, "canary") # None
         /\ Append(n, "canary") \notin Core
<1>1. n \in Name
  BY CoreNames
<1>2. Append(n, "canary") \in Name /\ Append(n, "canary") # None
  BY <1>1, EmptySeq, AppendProperties DEF Name, None
<1>3. Len(Append(n, "canary")) = Len(n) + 1 /\ Append(n, "canary")[Len(n) + 1] = "canary"
      /\ Len(n) \in Nat
  BY <1>1, AppendProperties DEF Name
<1>4. ASSUME Append(n, "canary") \in Core PROVE FALSE
  <2>1. Append(n, "canary")[Len(n) + 1] \in {"svc", "green"}
    BY <1>3, <1>4, ElementOfSeq DEF Core
  <2>2. QED
    BY <1>3, <2>1
<1>5. QED
  BY <1>2, <1>4

LEMMA CanaryNamesAre ==
  \A n \in CanaryNames : n \in Name /\ (n # None => n \notin Core)
BY CoreNames, CanaryName DEF CanaryNames

LEMMA NewName ==
  ASSUME DriverOK
  PROVE  /\ newName \in Name /\ newName # None
         /\ call.op = "CreateGreen" => newName \in Core
         /\ call.op # "CreateGreen" => newName \in CanaryNames
BY CoreNames, CanaryName DEF DriverOK, newName, CanaryNames

LEMMA InitDInv == Init => DInv
<1>. SUFFICES ASSUME Init PROVE DInv
  OBVIOUS
<1>1. DriverOK
  BY CoreNames, DeployAssumption DEF Init, InitDriver, DriverOK, CanaryNames, DeployAssumption
<1>2. AwsOK
  <2>. DEFINE first == [image |-> FirstImage, live |-> FirstImage, desired |-> 1,
                        failed |-> FALSE, tg |-> ServiceName]
  <2>1. ServiceName \in Name /\ ServiceName # None
    BY CoreNames
  <2>2. first \in Service
    BY <2>1, DeployAssumption DEF Service, Name, DeployAssumption
  <2>3. /\ services = [n \in {ServiceName} |-> first] /\ targetGroups = {ServiceName}
        /\ listener = [t \in {ServiceName} |-> 1]
    BY DEF Init
  <2>. HIDE DEF first
  <2>4. QED
    BY <2>1, <2>2, <2>3 DEF AwsOK
<1>3. ControlOK /\ Where /\ Promotion /\ Removal
  BY DeployAssumption DEF Init, InitDriver, ControlOK, Where, Promotion, Removal, NoCall, NoResult,
                          DeployAssumption
<1>4. QED
  BY <1>1, <1>2, <1>3 DEF DInv

LEMMA DInvTypes == DInv => TypeOK
BY CoreNames, CanaryNamesAre DEF DInv, DriverOK, AwsOK, ControlOK, TypeOK

-----------------------------------------------------------------------------
(***************************************************************************)
(* What requests do in AWS.                                                *)
(***************************************************************************)

LEMMA SetKeeps ==
  ASSUME AwsOK, NEW n \in Name, NEW svc \in Service, SetService(n, svc)
  PROVE  /\ AwsOK' /\ UNCHANGED listener
         /\ DOMAIN services' = DOMAIN services \cup {n} /\ services'[n] = svc
         /\ \A m \in DOMAIN services \ {n} : services'[m] = services[m]
<1>1. /\ DOMAIN services' = DOMAIN services \cup {n} /\ services'[n] = svc
      /\ \A m \in DOMAIN services \ {n} : services'[m] = services[m]
      /\ UNCHANGED << targetGroups, listener >>
  BY DEF SetService
<1>2. QED
  BY <1>1 DEF AwsOK

LEMMA DrainKeeps ==
  ASSUME AwsOK, NEW n, Exists(n), Drain(n)
  PROVE  /\ AwsOK' /\ UNCHANGED listener /\ DOMAIN services' = DOMAIN services
         /\ \A m \in DOMAIN services : services'[m].image = services[m].image
<1>. DEFINE s == services[n]
            svc == [image |-> s.image, live |-> s.live, desired |-> 0,
                    failed |-> s.failed, tg |-> s.tg]
<1>1. n \in Name /\ n \in DOMAIN services /\ s \in Service
  BY DEF AwsOK, Exists
<1>2. svc \in Service /\ svc.image = s.image
  BY <1>1 DEF Service
<1>3. SetService(n, svc)
  BY DEF Drain
<1>. HIDE DEF svc
<1>4. QED
  BY <1>1, <1>2, <1>3, SetKeeps

LEMMA DeleteKeeps ==
  ASSUME AwsOK, NEW n, DeleteService(n)
  PROVE  /\ AwsOK' /\ UNCHANGED listener /\ DOMAIN services' = DOMAIN services \ {n}
         /\ \A m \in DOMAIN services \ {n} : services'[m] = services[m]
BY DEF AwsOK, DeleteService

LEMMA DeleteGroupKeeps ==
  ASSUME AwsOK, NEW t, CanDeleteGroup(t), DeleteTargetGroup(t)
  PROVE  AwsOK' /\ UNCHANGED << services, listener >> /\ t \notin targetGroups'
BY DEF AwsOK, CanDeleteGroup, DeleteTargetGroup

LEMMA ForwardKeeps ==
  ASSUME AwsOK, NEW ts, NEW weights, CanForward(ts), DOMAIN weights = ts,
         \A t \in ts : weights[t] \in 0 .. 100, ModifyListener(weights)
  PROVE  AwsOK' /\ UNCHANGED services /\ listener' = weights
BY DEF AwsOK, CanForward, ModifyListener

LEMMA SameAws == ASSUME AwsOK, UNCHANGED aws PROVE AwsOK' /\ UNCHANGED << services, listener >>
BY DEF AwsOK, aws

LEMMA SameDriver ==
  ASSUME DriverOK, UNCHANGED driver
  PROVE  DriverOK' /\ UNCHANGED << serviceName, stableTGARN, canaryServiceName, canaryTGARN >>
BY DEF DriverOK, driver, green, canary

-----------------------------------------------------------------------------
(***************************************************************************)
(* How operations begin, go on and return.                                 *)
(***************************************************************************)

\* What every request leaves: the bound on failures, and the configuration.
Counted == failures' \in 0 .. MaxFailures /\ config' \in StableTGARNs

LEMMA RequestCounts ==
  ASSUME DInv, UNCHANGED config,
         UNCHANGED failures \/ (pc \in Failing /\ failures > 0 /\ failures' = failures - 1)
  PROVE  Counted
BY DeployAssumption DEF DInv, ControlOK, Counted, DeployAssumption

LEMMA Goes ==
  ASSUME DInv, pc # "idle", DriverOK', AwsOK', Counted,
         NEW q \in Requests, Then(q), At(q, call.op, call.image), Promotion', Removal'
  PROVE  DInv' /\ Complete /\ Gone
<1>1. result.op = "none" /\ q # "idle"
  BY DEF DInv, Where, Requests
<1>2. pc' = q /\ call' = call /\ result' = result
  BY DEF Then
<1>3. ControlOK'
  BY <1>2 DEF DInv, ControlOK, Counted
<1>4. Where'
  BY <1>1, <1>2 DEF Where, At
<1>5. QED
  BY <1>1, <1>2, <1>3, <1>4 DEF DInv, Complete, Gone, Done

LEMMA Returned ==
  ASSUME DInv, pc # "idle", DriverOK', AwsOK', Counted,
         NEW ok \in BOOLEAN, NEW image \in Images \cup {NoImage}, ReturnImage(ok, image)
  PROVE  DInv' /\ result'.op = call.op /\ result'.ok = ok
<1>1. pc' = "idle" /\ call' = NoCall /\ result' = [op |-> call.op, ok |-> ok, image |-> image]
  BY DEF ReturnImage
<1>2. ControlOK'
  BY <1>1 DEF DInv, ControlOK, Counted, NoCall
<1>3. Where' /\ Promotion' /\ Removal'
  BY <1>1 DEF Where, Promotion, Removal, NoCall
<1>4. QED
  BY <1>1, <1>2, <1>3 DEF DInv

LEMMA Fails ==
  ASSUME DInv, pc # "idle", DriverOK', AwsOK', Counted, Return(FALSE)
  PROVE  DInv' /\ Complete /\ Gone
<1>1. ReturnImage(FALSE, NoImage)
  BY DEF Return
<1>2. DInv' /\ result'.op = call.op /\ result'.ok = FALSE
  BY <1>1, Returned
<1>3. QED
  BY <1>2 DEF Complete, Gone, Done

LEMMA Answers ==
  ASSUME DInv, pc # "idle", DriverOK', AwsOK', Counted,
         NEW ok \in BOOLEAN, NEW image \in Images \cup {NoImage}, ReturnImage(ok, image),
         call.op \notin {"PromoteCanary", "DestroyCanary"}
  PROVE  DInv' /\ Complete /\ Gone
<1>1. DInv' /\ result'.op = call.op
  BY Returned
<1>2. QED
  BY <1>1 DEF Complete, Gone, Done

LEMMA Succeeds ==
  ASSUME DInv, pc # "idle", DriverOK', AwsOK', Counted, Return(TRUE),
         call.op \notin {"PromoteCanary", "DestroyCanary"}
  PROVE  DInv' /\ Complete /\ Gone
<1>1. ReturnImage(TRUE, NoImage)
  BY DEF Return
<1>2. QED
  BY <1>1, Answers

\* The removal of a canary ends, as an operation of its own or in a promotion.
LEMMA Ends ==
  ASSUME DInv, pc # "idle", DriverOK', AwsOK', Counted, Return(TRUE),
         canary' = << None, None >>,
         canaryTGARN \notin targetGroups',
         call.op = "PromoteCanary" =>
           Exists(serviceName)' /\ listener' = [t \in {stableTGARN} |-> 1]
  PROVE  DInv' /\ Complete /\ Gone
<1>1. ReturnImage(TRUE, NoImage)
  BY DEF Return
<1>2. DInv' /\ result'.op = call.op
  BY <1>1, Returned
<1>3. canaryTGARN \notin DOMAIN listener'
  BY DEF AwsOK
<1>4. QED
  BY <1>2, <1>3 DEF Complete, Gone, Done

LEMMA Begun ==
  ASSUME DInv, NEW op \in Ops, NEW q \in Requests, NEW image,
         pc = "idle", pc' = q, result' = NoResult,
         call' \in [op : Ops \cup {"none"}, image : Images \cup {NoImage}, percent : 0 .. 100],
         call'.op = op, call'.image = image,
         UNCHANGED << driver, aws, failures, config >>, At(q, op, image),
         op = "PromoteCanary" => q = "describe canary" /\ canaryServiceName # None,
         q \in {"drain canary", "delete canary"} => canaryServiceName # None,
         q = "delete canary group" => canaryServiceName = None
  PROVE  DInv' /\ Complete /\ Gone
<1>1. DriverOK' /\ AwsOK' /\ UNCHANGED << services, listener, serviceName, canaryServiceName >>
  BY SameAws, SameDriver DEF DInv
<1>2. ControlOK'
  BY DEF DInv, ControlOK, NoResult
<1>3. Where'
  BY DEF Where, At, NoResult, Requests
<1>4. Promotion' /\ Removal'
  BY <1>1 DEF Promotion, Removal
<1>5. QED
  BY <1>1, <1>2, <1>3, <1>4 DEF DInv, Complete, Gone

LEMMA Begins ==
  ASSUME DInv, NEW op \in Ops, NEW q \in Requests, NEW image \in Images \cup {NoImage},
         NEW percent \in 0 .. 100, Begin(op, q, image, percent), At(q, op, image),
         op = "PromoteCanary" => q = "describe canary" /\ canaryServiceName # None,
         q \in {"drain canary", "delete canary"} => canaryServiceName # None,
         q = "delete canary group" => canaryServiceName = None
  PROVE  DInv' /\ Complete /\ Gone
<1>1. /\ pc = "idle" /\ pc' = q /\ result' = NoResult
      /\ call' \in [op : Ops \cup {"none"}, image : Images \cup {NoImage}, percent : 0 .. 100]
      /\ call'.op = op /\ call'.image = image
      /\ UNCHANGED << driver, aws, failures, config >>
  BY DEF Begin
<1>2. QED
  BY <1>1, Begun

LEMMA ZeroPercent == 0 \in 0 .. 100
OBVIOUS

LEMMA BeginsPlain ==
  ASSUME DInv, NEW op \in Ops, NEW q \in Requests, NEW image \in Images \cup {NoImage},
         Begin(op, q, image, 0), At(q, op, image),
         op = "PromoteCanary" => q = "describe canary" /\ canaryServiceName # None,
         q \in {"drain canary", "delete canary"} => canaryServiceName # None,
         q = "delete canary group" => canaryServiceName = None
  PROVE  DInv' /\ Complete /\ Gone
<1>1. /\ pc = "idle" /\ pc' = q /\ result' = NoResult
      /\ call' \in [op : Ops \cup {"none"}, image : Images \cup {NoImage}, percent : 0 .. 100]
      /\ call'.op = op /\ call'.image = image
      /\ UNCHANGED << driver, aws, failures, config >>
  <2>1. op \in Ops \cup {"none"}
    OBVIOUS
  <2>2. call' = [op |-> op, image |-> image, percent |-> 0]
    BY DEF Begin
  <2>3. call' \in [op : Ops \cup {"none"}, image : Images \cup {NoImage}, percent : 0 .. 100]
    BY <2>1, <2>2, ZeroPercent, Zenon
  <2>4. call'.op = op /\ call'.image = image
    BY <2>2
  <2>5. /\ pc = "idle" /\ pc' = q /\ result' = NoResult
        /\ UNCHANGED << driver, aws, failures, config >>
    BY DEF Begin
  <2>6. QED
    BY <2>3, <2>4, <2>5
<1>2. QED
  BY <1>1, Begun

LEMMA Answered ==
  ASSUME DInv, NEW op \in Ops, NEW ok \in BOOLEAN, Answer(op, ok)
  PROVE  DInv' /\ Complete /\ Gone
<1>1. /\ pc = "idle" /\ pc' = "idle" /\ call' = call
      /\ result' = [op |-> op, ok |-> ok, image |-> NoImage]
      /\ UNCHANGED << driver, aws, failures, config >>
  BY DEF Answer
<1>2. DriverOK' /\ AwsOK'
  BY <1>1, SameAws, SameDriver DEF DInv
<1>3. ControlOK'
  BY <1>1 DEF DInv, ControlOK
<1>4. call.op = "none"
  BY <1>1 DEF DInv, Where
<1>5. Where' /\ Promotion' /\ Removal'
  BY <1>1, <1>4 DEF Where, Promotion, Removal
<1>6. QED
  BY <1>1, <1>2, <1>3, <1>5 DEF DInv, Complete, Gone

\* The caller starts any operation.
LEMMA IssueKeeps == ASSUME DInv, Issue PROVE DInv' /\ Complete /\ Gone
<1>1. ASSUME NEW image \in Images, NEW op \in {"Update", "CreateGreen", "CreateCanary"},
             Begin(op, "register", image, 0)
      PROVE  DInv' /\ Complete /\ Gone
  <2>1. op \in Ops /\ "register" \in Requests /\ At("register", op, image)
    BY DEF Ops, Requests, At
  <2>2. QED
    BY <1>1, <2>1, BeginsPlain
<1>2. ASSUME NEW op \in Ops \ {"PromoteCanary"}, NEW q \in Requests, At(q, op, NoImage),
             q \notin {"drain canary", "delete canary", "delete canary group"},
             Begin(op, q, NoImage, 0)
      PROVE  DInv' /\ Complete /\ Gone
  BY <1>2, BeginsPlain
<1>3. CASE \E image \in Images : Update(image) \/ CreateGreen(image) \/ CreateCanary(image)
  BY <1>1, <1>3 DEF Update, CreateGreen, CreateCanary
<1>4. CASE HealthCheck
  BY <1>2, <1>4 DEF HealthCheck, At, Ops, Requests
<1>5. CASE CurrentImage
  BY <1>2, <1>5 DEF CurrentImage, At, Ops, Requests
<1>6. CASE DestroyBlue
  BY <1>2, <1>6 DEF DestroyBlue, At, Ops, Requests
<1>7. CASE CheckMetricGate
  BY <1>2, <1>7 DEF CheckMetricGate, At, Ops, Requests
<1>8. CASE SwitchTraffic
  <2>1. CASE Answer("SwitchTraffic", FALSE)
    BY <2>1, Answered DEF Ops
  <2>2. CASE Begin("SwitchTraffic", "switch", NoImage, 0)
    BY <1>2, <2>2 DEF At, Ops, Requests
  <2>3. QED
    BY <1>8, <2>1, <2>2 DEF SwitchTraffic
<1>9. ASSUME NEW percent \in Percents, RoutePercent(percent)
      PROVE  DInv' /\ Complete /\ Gone
  <2>1. CASE Answer("RoutePercent", FALSE)
    BY <2>1, Answered DEF Ops
  <2>2. CASE Begin("RoutePercent", "route", NoImage, percent)
    <3>1. percent \in 0 .. 100
      BY DeployAssumption DEF DeployAssumption
    <3>2. /\ "RoutePercent" \in Ops /\ "route" \in Requests
          /\ At("route", "RoutePercent", NoImage)
      BY DEF At, Ops, Requests
    <3>3. QED
      BY <2>2, <3>1, <3>2, Begins
  <2>3. QED
    BY <1>9, <2>1, <2>2 DEF RoutePercent
<1>10. CASE PromoteCanary
  <2>1. CASE Answer("PromoteCanary", FALSE)
    BY <2>1, Answered DEF Ops
  <2>2. CASE canaryServiceName # None /\ Begin("PromoteCanary", "describe canary", NoImage, 0)
    <3>1. /\ "PromoteCanary" \in Ops /\ "describe canary" \in Requests
          /\ At("describe canary", "PromoteCanary", NoImage)
      BY DEF At, Ops, Requests
    <3>2. QED
      BY <2>2, <3>1, BeginsPlain
  <2>3. QED
    BY <1>10, <2>1, <2>2 DEF PromoteCanary
<1>11. CASE DestroyCanary
  <2>1. CASE Answer("DestroyCanary", TRUE)
    BY <2>1, Answered DEF Ops
  <2>2. ASSUME NEW q \in {"restore listener", "drain canary", "delete canary group"},
               q = "drain canary" => canaryServiceName # None,
               q = "delete canary group" => canaryServiceName = None,
               Begin("DestroyCanary", q, NoImage, 0)
        PROVE  DInv' /\ Complete /\ Gone
    <3>1. "DestroyCanary" \in Ops /\ q \in Requests /\ At(q, "DestroyCanary", NoImage)
      BY DEF At, Ops, Requests
    <3>2. QED
      BY <2>2, <3>1, BeginsPlain
  <2>3. QED
    BY <1>11, <2>1, <2>2 DEF DestroyCanary
<1>12. QED
  BY <1>3, <1>4, <1>5, <1>6, <1>7, <1>8, <1>9, <1>10, <1>11 DEF Issue

-----------------------------------------------------------------------------
(***************************************************************************)
(* The requests.                                                           *)
(***************************************************************************)

\* Requests that change nothing in AWS and nothing the driver knows.
LEMMA RegisterKeeps ==
  ASSUME DInv, RegisterTaskDefinition PROVE DInv' /\ Complete /\ Gone
<1>1. /\ pc = "register" /\ pc # "idle" /\ UNCHANGED << driver, aws >> /\ Counted
      /\ \/ call.op \in {"CreateGreen", "CreateCanary"} /\ Then("create target group")
         \/ call.op \notin {"CreateGreen", "CreateCanary"} /\ Then("update service")
         \/ Return(FALSE)
  BY RequestCounts DEF RegisterTaskDefinition, Request
<1>2. /\ DriverOK' /\ AwsOK'
      /\ UNCHANGED << services, listener >>
      /\ UNCHANGED << serviceName, stableTGARN, canaryServiceName, canaryTGARN >>
  BY <1>1, SameAws, SameDriver DEF DInv
<1>3. At("register", call.op, call.image)
  BY <1>1 DEF DInv, Where
<1>4. CASE call.op \in {"CreateGreen", "CreateCanary"} /\ Then("create target group")
  <2>1. "create target group" \in Requests /\ At("create target group", call.op, call.image)
    BY <1>3, <1>4 DEF At, Requests
  <2>2. Promotion' /\ Removal'
    BY <1>4 DEF Promotion, Removal, Then
  <2>3. QED
    BY <1>1, <1>2, <1>4, <2>1, <2>2, Goes
<1>5. CASE call.op \notin {"CreateGreen", "CreateCanary"} /\ Then("update service")
  <2>1. "update service" \in Requests /\ At("update service", call.op, call.image)
    BY <1>3, <1>5 DEF At, Requests
  <2>2. Promotion' /\ Removal'
    BY <1>1, <1>2, <1>5 DEF DInv, Promotion, Removal, Then, Exists
  <2>3. QED
    BY <1>1, <1>2, <1>5, <2>1, <2>2, Goes
<1>6. QED
  BY <1>1, <1>2, <1>4, <1>5, Fails

LEMMA AskKeeps ==
  ASSUME DInv, DescribeActive \/ DescribeStable \/ GetMetricStatistics
  PROVE  DInv' /\ Complete /\ Gone
<1>1. /\ pc \in {"describe active", "describe stable", "get metrics"} /\ pc # "idle"
      /\ UNCHANGED << driver, aws >> /\ Counted
  BY RequestCounts DEF DescribeActive, DescribeStable, GetMetricStatistics, Request
<1>2. DriverOK' /\ AwsOK'
  BY <1>1, SameAws, SameDriver DEF DInv
<1>3. call.op \notin {"PromoteCanary", "DestroyCanary"}
  BY <1>1 DEF DInv, Where, At
<1>4. PICK ok \in BOOLEAN, image \in Images \cup {NoImage} : ReturnImage(ok, image)
  <2>1. CASE DescribeActive
    BY <2>1 DEF DescribeActive, Request, Return, IsHealthy
  <2>2. CASE DescribeStable
    <3>1. Exists(serviceName) => services[serviceName].image \in Images
      BY DEF DInv, AwsOK, Service, Exists
    <3>2. QED
      BY <2>2, <3>1 DEF DescribeStable, Request, Return
  <2>3. CASE GetMetricStatistics
    BY <2>3 DEF GetMetricStatistics, Request, Return
  <2>4. QED
    BY <2>1, <2>2, <2>3
<1>5. QED
  BY <1>1, <1>2, <1>3, <1>4, Answers

LEMMA DescribeCanaryKeeps ==
  ASSUME DInv, DescribeCanary PROVE DInv' /\ Complete /\ Gone
<1>. DEFINE image == services[canaryServiceName].image
<1>1. /\ pc = "describe canary" /\ pc # "idle" /\ UNCHANGED << driver, aws >> /\ Counted
      /\ \/ /\ Exists(canaryServiceName) /\ pc' = "register" /\ UNCHANGED result
            /\ call' = [op |-> call.op, image |-> image, percent |-> call.percent]
         \/ Return(FALSE)
  BY RequestCounts DEF DescribeCanary, Request
<1>2. /\ DriverOK' /\ AwsOK'
      /\ UNCHANGED << services, listener >>
      /\ UNCHANGED << serviceName, stableTGARN, canaryServiceName, canaryTGARN >>
  BY <1>1, SameAws, SameDriver DEF DInv
<1>3. call.op = "PromoteCanary" /\ result.op = "none" /\ canaryServiceName # None
  BY <1>1 DEF DInv, Where, At, Promotion
<1>4. CASE /\ Exists(canaryServiceName) /\ pc' = "register" /\ UNCHANGED result
           /\ call' = [op |-> call.op, image |-> image, percent |-> call.percent]
  <2>1. image \in Images
    BY <1>4 DEF DInv, AwsOK, Service, Exists
  <2>. HIDE DEF image
  <2>2. /\ call' \in [op : Ops \cup {"none"}, image : Images \cup {NoImage}, percent : 0 .. 100]
        /\ call'.op = call.op /\ call'.image = image
    BY <1>4, <2>1 DEF DInv, ControlOK
  <2>3. ControlOK'
    BY <1>1, <1>4, <2>2 DEF DInv, ControlOK, Requests, Counted
  <2>4. Where' /\ Removal'
    BY <1>3, <1>4, <2>1, <2>2 DEF Where, At, Removal
  <2>5. Promotion'
    BY <1>2, <1>3, <1>4, <2>2 DEF Promotion, Exists, image
  <2>6. QED
    BY <1>2, <1>3, <1>4, <2>3, <2>4, <2>5 DEF DInv, Complete, Gone, Done
<1>5. QED
  BY <1>1, <1>2, <1>4, Fails

\* A new service and its target group.
LEMMA CreateTargetGroupKeeps ==
  ASSUME DInv, CreateTargetGroup PROVE DInv' /\ Complete /\ Gone
<1>1. /\ newName \in Name /\ newName # None
      /\ call.op = "CreateGreen" => newName \in Core
      /\ call.op # "CreateGreen" => newName \in CanaryNames
  BY NewName DEF DInv
<1>2. /\ pc = "create target group" /\ pc # "idle" /\ Counted
      /\ \/ UNCHANGED aws
         \/ targetGroups' = targetGroups \cup {newName} /\ UNCHANGED << services, listener >>
      /\ UNCHANGED << serviceName, stableTGARN, greenServiceName, canaryServiceName >>
      /\ \/ /\ Then("create service")
            /\ IF call.op = "CreateGreen"
               THEN greenTGARN' = newName /\ UNCHANGED canaryTGARN
               ELSE canaryTGARN' = newName /\ UNCHANGED greenTGARN
         \/ Return(FALSE) /\ UNCHANGED << greenTGARN, canaryTGARN >>
  BY RequestCounts DEF CreateTargetGroup, Request
<1>3. DriverOK'
  BY <1>1, <1>2 DEF DInv, DriverOK
<1>4. AwsOK'
  BY <1>1, <1>2 DEF DInv, AwsOK, aws
<1>5. CASE Then("create service")
  <2>1. "create service" \in Requests /\ At("create service", call.op, call.image)
        /\ call.op # "PromoteCanary"
    BY <1>2 DEF DInv, Where, At, Requests
  <2>2. Promotion' /\ Removal'
    BY <1>5, <2>1 DEF Promotion, Removal, Then
  <2>3. QED
    BY <1>2, <1>3, <1>4, <1>5, <2>1, <2>2, Goes
<1>6. QED
  BY <1>2, <1>3, <1>4, <1>5, Fails

LEMMA CreateServiceKeeps ==
  ASSUME DInv, CreateService PROVE DInv' /\ Complete /\ Gone
<1>. DEFINE svc == [image |-> call.image, live |-> NoImage, desired |-> 1,
                    failed |-> FALSE, tg |-> newName]
<1>1. /\ newName \in Name
      /\ call.op = "CreateGreen" => newName \in Core
      /\ call.op # "CreateGreen" => newName \in CanaryNames
  BY NewName DEF DInv
<1>2. /\ pc = "create service" /\ pc # "idle" /\ Counted
      /\ UNCHANGED aws \/ SetService(newName, svc)
      /\ UNCHANGED << serviceName, stableTGARN, greenTGARN, canaryTGARN >>
      /\ \/ /\ Return(TRUE)
            /\ IF call.op = "CreateGreen"
               THEN greenServiceName' = newName /\ UNCHANGED canaryServiceName
               ELSE canaryServiceName' = newName /\ UNCHANGED greenServiceName
         \/ Return(FALSE) /\ UNCHANGED << greenServiceName, canaryServiceName >>
  BY RequestCounts DEF CreateService, Request
<1>3. call.image \in Images /\ call.op \notin {"PromoteCanary", "DestroyCanary"}
  BY <1>2 DEF DInv, Where, At
<1>4. svc \in Service
  BY <1>1, <1>3 DEF Service, Name
<1>. HIDE DEF svc
<1>5. DriverOK'
  BY <1>1, <1>2 DEF DInv, DriverOK
<1>6. AwsOK'
  BY <1>1, <1>2, <1>4, SetKeeps, SameAws DEF DInv
<1>7. QED
  BY <1>2, <1>3, <1>5, <1>6, Fails, Succeeds

\* Traffic is routed.
LEMMA RouteKeeps ==
  ASSUME DInv, SwitchListener \/ RouteListener PROVE DInv' /\ Complete /\ Gone
<1>1. /\ pc \in {"switch", "route"} /\ pc # "idle" /\ Counted
      /\ UNCHANGED driver /\ (Return(TRUE) \/ Return(FALSE))
  BY RequestCounts DEF SwitchListener, RouteListener, Request
<1>2. call.op \notin {"PromoteCanary", "DestroyCanary"}
  BY <1>1 DEF DInv, Where, At
<1>3. DriverOK'
  BY <1>1, SameDriver DEF DInv
<1>4. AwsOK'
  <2>1. CASE UNCHANGED aws
    BY <2>1, SameAws DEF DInv
  <2>2. CASE CanForward({greenTGARN}) /\ ModifyListener([t \in {greenTGARN} |-> 1])
    BY <2>2, ForwardKeeps DEF DInv
  <2>. DEFINE weights == [t \in {canaryTGARN, stableTGARN} |->
                            IF t = canaryTGARN THEN call.percent ELSE 100 - call.percent]
  <2>3. CASE CanForward({canaryTGARN, stableTGARN}) /\ ModifyListener(weights)
    <3>1. call.percent \in 0 .. 100
      BY DEF DInv, ControlOK
    <3>2. /\ DOMAIN weights = {canaryTGARN, stableTGARN}
          /\ \A t \in {canaryTGARN, stableTGARN} : weights[t] \in 0 .. 100
      BY <3>1
    <3>. HIDE DEF weights
    <3>3. QED
      BY <2>3, <3>2, ForwardKeeps DEF DInv
  <2>4. QED
    BY <2>1, <2>2, <2>3 DEF SwitchListener, RouteListener, Request
<1>5. QED
  BY <1>1, <1>2, <1>3, <1>4, Fails, Succeeds

\* Blue is destroyed, and green promoted.
LEMMA DestroyBlueKeeps ==
  ASSUME DInv, DrainBlue \/ DeleteBlue \/ DeleteBlueGroup PROVE DInv' /\ Complete /\ Gone
<1>1. /\ pc \in {"drain blue", "delete blue", "delete blue group"} /\ pc # "idle" /\ Counted
      /\ UNCHANGED driver \/ Promote
      /\ Then("delete blue") \/ Then("delete blue group") \/ Return(TRUE) \/ Return(FALSE)
  BY RequestCounts DEF DrainBlue, DeleteBlue, DeleteBlueGroup, Request
<1>2. At("delete blue", call.op, call.image) /\ At("delete blue group", call.op, call.image)
      /\ call.op \notin {"PromoteCanary", "DestroyCanary"}
  BY <1>1 DEF DInv, Where, At
<1>3. DriverOK'
  <2>1. CASE Promote
    BY <2>1, CoreNames DEF DInv, DriverOK, Promote, canary
  <2>2. QED
    BY <1>1, <2>1, SameDriver DEF DInv
<1>4. AwsOK'
  <2>1. CASE UNCHANGED aws
    BY <2>1, SameAws DEF DInv
  <2>2. CASE Exists(serviceName) /\ Drain(serviceName)
    BY <2>2, DrainKeeps DEF DInv
  <2>3. CASE DeleteService(serviceName)
    BY <2>3, DeleteKeeps DEF DInv
  <2>4. CASE CanDeleteGroup(stableTGARN) /\ DeleteTargetGroup(stableTGARN)
    BY <2>4, DeleteGroupKeeps DEF DInv
  <2>5. QED
    BY <2>1, <2>2, <2>3, <2>4 DEF DrainBlue, DeleteBlue, DeleteBlueGroup, Request
<1>5. ASSUME NEW q \in {"delete blue", "delete blue group"}, Then(q)
      PROVE  DInv' /\ Complete /\ Gone
  <2>1. q \in Requests /\ At(q, call.op, call.image)
    BY <1>2 DEF Requests
  <2>2. Promotion' /\ Removal'
    BY <1>2, <1>5 DEF Promotion, Removal, Then
  <2>3. QED
    BY <1>1, <1>3, <1>4, <1>5, <2>1, <2>2, Goes
<1>6. QED
  BY <1>1, <1>2, <1>3, <1>4, <1>5, Fails, Succeeds

\* Update, and the second step of a promotion: the canary has another name, so
\* its image is still what the stable service is told to run.
LEMMA UpdateServiceKeeps ==
  ASSUME DInv, UpdateService PROVE DInv' /\ Complete /\ Gone
<1>. DEFINE s == services[serviceName]
            svc == [image |-> call.image, live |-> s.live, desired |-> s.desired,
                    failed |-> FALSE, tg |-> s.tg]
<1>1. /\ pc = "update service" /\ pc # "idle" /\ Counted /\ UNCHANGED driver
      /\ UNCHANGED aws \/ (Exists(serviceName) /\ SetService(serviceName, svc))
      /\ \/ /\ Exists(serviceName) /\ SetService(serviceName, svc)
            /\ \/ call.op = "Update" /\ Return(TRUE)
               \/ call.op # "Update" /\ Then("restore listener")
         \/ Return(FALSE)
  BY RequestCounts DEF UpdateService, Request
<1>2. call.op \in {"Update", "PromoteCanary"} /\ call.image \in Images
  BY <1>1 DEF DInv, Where, At
<1>3. DriverOK' /\ UNCHANGED << serviceName, stableTGARN, canaryServiceName, canaryTGARN >>
  BY <1>1, SameDriver DEF DInv
<1>4. Exists(serviceName) => serviceName \in Name /\ svc \in Service /\ svc.image = call.image
  BY <1>2 DEF DInv, AwsOK, Exists, Service
<1>. HIDE DEF svc
<1>5. AwsOK'
  BY <1>1, <1>4, SetKeeps, SameAws DEF DInv
<1>6. CASE Exists(serviceName) /\ SetService(serviceName, svc) /\ call.op # "Update"
           /\ Then("restore listener")
  <2>1. "restore listener" \in Requests /\ At("restore listener", call.op, call.image)
    BY <1>2, <1>6 DEF At, Requests
  <2>2. /\ DOMAIN services' = DOMAIN services \cup {serviceName}
        /\ services'[serviceName].image = call.image
        /\ \A m \in DOMAIN services \ {serviceName} : services'[m] = services[m]
    BY <1>4, <1>6, SetKeeps DEF DInv
  <2>3. /\ canaryServiceName # None /\ Exists(canaryServiceName)
        /\ services[canaryServiceName].image = call.image
    BY <1>1, <1>2, <1>6 DEF DInv, Promotion
  <2>4. canaryServiceName # serviceName
    BY <2>3, CanaryNamesAre DEF DInv, DriverOK
  <2>5. /\ Exists(canaryServiceName)' /\ Exists(serviceName)'
        /\ services'[serviceName].image = services'[canaryServiceName].image
    BY <1>3, <2>2, <2>3, <2>4 DEF Exists
  <2>6. Promotion' /\ Removal'
    BY <1>3, <1>6, <2>3, <2>5 DEF Promotion, Removal, Then
  <2>7. QED
    BY <1>1, <1>3, <1>5, <1>6, <2>1, <2>6, Goes
<1>7. QED
  BY <1>1, <1>3, <1>5, <1>6, Fails, Succeeds

\* The canary is removed, after its traffic was routed back.
LEMMA RestoreKeeps ==
  ASSUME DInv, RestoreListener PROVE DInv' /\ Complete /\ Gone
<1>1. /\ pc = "restore listener" /\ pc # "idle" /\ Counted /\ UNCHANGED driver
      /\ \/ UNCHANGED aws
         \/ /\ CanForward({stableTGARN})
            /\ ModifyListener([t \in {stableTGARN} |-> 1])
      /\ \/ /\ DestroyService
            /\ call.op # "DestroyCanary" =>
                 /\ CanForward({stableTGARN})
                 /\ ModifyListener([t \in {stableTGARN} |-> 1])
         \/ Return(FALSE)
  BY RequestCounts DEF RestoreListener, Request
<1>2. call.op \in {"PromoteCanary", "DestroyCanary"}
  BY <1>1 DEF DInv, Where, At
<1>3. DriverOK' /\ UNCHANGED << serviceName, stableTGARN, canaryServiceName, canaryTGARN >>
  BY <1>1, SameDriver DEF DInv
<1>4. /\ AwsOK' /\ UNCHANGED services
      /\ ModifyListener([t \in {stableTGARN} |-> 1]) => listener' = [t \in {stableTGARN} |-> 1]
  <2>1. CASE UNCHANGED aws
    BY <2>1, SameAws DEF DInv, ModifyListener
  <2>2. CASE CanForward({stableTGARN}) /\ ModifyListener([t \in {stableTGARN} |-> 1])
    BY <2>2, ForwardKeeps DEF DInv
  <2>3. QED
    BY <1>1, <2>1, <2>2
<1>5. CASE /\ DestroyService
           /\ call.op # "DestroyCanary" => listener' = [t \in {stableTGARN} |-> 1]
  <2>1. call.op = "PromoteCanary" =>
          /\ canaryServiceName # None
          /\ Exists(serviceName)' /\ listener' = [t \in {stableTGARN'} |-> 1]
    BY <1>1, <1>3, <1>4, <1>5 DEF DInv, Promotion, Exists
  <2>2. ASSUME NEW q \in {"drain canary", "delete canary group"}, Then(q), Removal'
        PROVE  DInv' /\ Complete /\ Gone
    <3>1. q \in Requests /\ At(q, call.op, call.image)
      BY <1>2 DEF At, Requests
    <3>2. Promotion'
      BY <2>1, <2>2 DEF Promotion, Then
    <3>3. QED
      BY <1>1, <1>3, <1>4, <2>2, <3>1, <3>2, Goes
  <2>3. CASE canaryServiceName # None /\ Then("drain canary")
    <3>1. Removal'
      BY <1>3, <2>3 DEF Removal, Then
    <3>2. QED
      BY <2>2, <2>3, <3>1
  <2>4. CASE canaryServiceName = None /\ Then("delete canary group")
    <3>1. Removal'
      BY <1>3, <2>4 DEF Removal, Then
    <3>2. QED
      BY <2>2, <2>4, <3>1
  <2>5. CASE canaryServiceName = None /\ canaryTGARN = None /\ Return(TRUE)
    <3>1. canary' = << None, None >> /\ canaryTGARN \notin targetGroups'
      BY <1>3, <1>4, <2>5 DEF canary, AwsOK
    <3>2. call.op # "PromoteCanary"
      BY <2>1, <2>5
    <3>3. QED
      BY <1>1, <1>3, <1>4, <2>5, <3>1, <3>2, Ends
  <2>6. QED
    BY <1>5, <2>3, <2>4, <2>5 DEF DestroyService
<1>6. QED
  BY <1>1, <1>3, <1>4, <1>5, Fails

LEMMA DrainCanaryKeeps ==
  ASSUME DInv, DrainCanary PROVE DInv' /\ Complete /\ Gone
<1>1. /\ pc = "drain canary" /\ pc # "idle" /\ Counted /\ UNCHANGED driver
      /\ UNCHANGED aws \/ (Exists(canaryServiceName) /\ Drain(canaryServiceName))
      /\ Then("delete canary")
  BY RequestCounts DEF DrainCanary, Request
<1>2. DriverOK' /\ UNCHANGED << serviceName, stableTGARN, canaryServiceName, canaryTGARN >>
  BY <1>1, SameDriver DEF DInv
<1>3. AwsOK' /\ UNCHANGED listener /\ DOMAIN services' = DOMAIN services
  BY <1>1, DrainKeeps, SameAws DEF DInv
<1>4. "delete canary" \in Requests /\ At("delete canary", call.op, call.image)
  BY <1>1 DEF DInv, Where, At, Requests
<1>5. Promotion' /\ Removal'
  BY <1>1, <1>2, <1>3 DEF DInv, Promotion, Removal, Then, Exists
<1>6. QED
  BY <1>1, <1>2, <1>3, <1>4, <1>5, Goes

LEMMA DeleteCanaryKeeps ==
  ASSUME DInv, DeleteCanary PROVE DInv' /\ Complete /\ Gone
<1>1. /\ pc = "delete canary" /\ pc # "idle" /\ Counted
      /\ UNCHANGED << serviceName, stableTGARN, green, canaryTGARN >>
      /\ UNCHANGED aws \/ DeleteService(canaryServiceName)
      /\ \/ /\ canaryServiceName' = None
            /\ \/ canaryTGARN # None /\ Then("delete canary group")
               \/ canaryTGARN = None /\ Return(TRUE)
         \/ Return(FALSE) /\ UNCHANGED canaryServiceName
  BY RequestCounts DEF DeleteCanary, Request
<1>2. DriverOK'
  BY <1>1 DEF DInv, DriverOK, CanaryNames, green
<1>3. /\ AwsOK' /\ UNCHANGED listener
      /\ \A n \in DOMAIN services : n # canaryServiceName => n \in DOMAIN services'
  BY <1>1, DeleteKeeps, SameAws DEF DInv
<1>4. canaryServiceName # None /\ canaryServiceName # serviceName
  BY <1>1, CanaryNamesAre DEF DInv, Removal, DriverOK
<1>5. call.op = "PromoteCanary" =>
        Exists(serviceName)' /\ listener' = [t \in {stableTGARN} |-> 1]
  BY <1>1, <1>3, <1>4 DEF DInv, Promotion, Exists
<1>6. CASE canaryServiceName' = None /\ Then("delete canary group")
  <2>1. "delete canary group" \in Requests /\ At("delete canary group", call.op, call.image)
    BY <1>1 DEF DInv, Where, At, Requests
  <2>2. Promotion' /\ Removal'
    BY <1>1, <1>5, <1>6 DEF Promotion, Removal, Then
  <2>3. QED
    BY <1>1, <1>2, <1>3, <1>6, <2>1, <2>2, Goes
<1>7. CASE canaryServiceName' = None /\ canaryTGARN = None /\ Return(TRUE)
  <2>1. canary' = << None, None >> /\ canaryTGARN \notin targetGroups'
    BY <1>1, <1>3, <1>7 DEF canary, AwsOK
  <2>2. QED
    BY <1>1, <1>2, <1>3, <1>5, <1>7, <2>1, Ends
<1>8. QED
  BY <1>1, <1>2, <1>3, <1>6, <1>7, Fails

LEMMA DeleteCanaryGroupKeeps ==
  ASSUME DInv, DeleteCanaryGroup PROVE DInv' /\ Complete /\ Gone
<1>1. /\ pc = "delete canary group" /\ pc # "idle" /\ Counted
      /\ UNCHANGED << serviceName, stableTGARN, green, canaryServiceName >>
      /\ \/ UNCHANGED aws
         \/ CanDeleteGroup(canaryTGARN) /\ DeleteTargetGroup(canaryTGARN)
      /\ \/ /\ CanDeleteGroup(canaryTGARN) /\ DeleteTargetGroup(canaryTGARN)
            /\ Return(TRUE) /\ canaryTGARN' = None
         \/ Return(FALSE) /\ UNCHANGED canaryTGARN
  BY RequestCounts DEF DeleteCanaryGroup, Request
<1>2. DriverOK'
  BY <1>1 DEF DInv, DriverOK, CanaryNames, green
<1>3. /\ AwsOK' /\ UNCHANGED << services, listener >>
      /\ (CanDeleteGroup(canaryTGARN) /\ DeleteTargetGroup(canaryTGARN)) =>
           canaryTGARN \notin targetGroups'
  BY <1>1, DeleteGroupKeeps, SameAws DEF DInv
<1>4. call.op = "PromoteCanary" =>
        Exists(serviceName)' /\ listener' = [t \in {stableTGARN} |-> 1]
  BY <1>1, <1>3 DEF DInv, Promotion, Exists
<1>5. canaryServiceName = None
  BY <1>1 DEF DInv, Removal
<1>6. CASE /\ CanDeleteGroup(canaryTGARN) /\ DeleteTargetGroup(canaryTGARN)
           /\ Return(TRUE) /\ canaryTGARN' = None
  <2>1. canary' = << None, None >>
    BY <1>1, <1>5, <1>6 DEF canary
  <2>2. QED
    BY <1>1, <1>2, <1>3, <1>4, <1>6, <2>1, Ends
<1>7. QED
  BY <1>1, <1>2, <1>3, <1>6, Fails

-----------------------------------------------------------------------------
(***************************************************************************)
(* ECS, the process around the driver, and the theorems.                   *)
(***************************************************************************)

\* Tasks come and go; what services are told to run stays.
LEMMA RolloutKeeps ==
  ASSUME DInv, NEW n \in DOMAIN services, Rollout(n) PROVE DInv' /\ Complete /\ Gone
<1>. DEFINE s == services[n]
            After(live, failed) == [image |-> s.image, live |-> live, desired |-> s.desired,
                                    failed |-> failed, tg |-> s.tg]
<1>1. n \in Name /\ s \in Service
  BY DEF DInv, AwsOK
<1>2. PICK live \in Images \cup {NoImage}, failed \in BOOLEAN :
        SetService(n, After(live, failed))
  BY <1>1 DEF Rollout, Service
<1>3. After(live, failed) \in Service /\ After(live, failed).image = s.image
  BY <1>1 DEF Service
<1>. HIDE DEF After
<1>4. /\ AwsOK' /\ UNCHANGED listener /\ DOMAIN services' = DOMAIN services
      /\ \A m \in DOMAIN services : services'[m].image = services[m].image
  BY <1>1, <1>2, <1>3, SetKeeps DEF DInv
<1>5. UNCHANGED << driver, pc, call, result, failures, config >>
  BY DEF Rollout
<1>6. DriverOK' /\ UNCHANGED << serviceName, stableTGARN, canaryServiceName, canaryTGARN >>
  BY <1>5, SameDriver DEF DInv
<1>7. ControlOK' /\ Where'
  BY <1>5 DEF DInv, ControlOK, Where
<1>8. Promotion' /\ Removal'
  BY <1>4, <1>5, <1>6 DEF DInv, Promotion, Removal, Exists
<1>9. pc # "idle" => result'.op = "none"
  BY <1>5 DEF DInv, Where
<1>10. QED
  BY <1>4, <1>6, <1>7, <1>8, <1>9 DEF DInv, Complete, Gone, Done

LEMMA RestartKeeps == ASSUME DInv, Restart PROVE DInv' /\ Complete /\ Gone
<1>1. /\ serviceName' = ServiceName /\ stableTGARN' = config
      /\ greenServiceName' = None /\ greenTGARN' = None
      /\ canaryServiceName' = None /\ canaryTGARN' = None
      /\ pc' = "idle" /\ call' = NoCall /\ result' = NoResult
      /\ failures > 0 /\ failures' = failures - 1 /\ UNCHANGED << aws, config >>
  BY DEF Restart
<1>2. AwsOK'
  BY <1>1, SameAws DEF DInv
<1>3. DriverOK'
  BY <1>1, CoreNames, DeployAssumption
     DEF DInv, ControlOK, DriverOK, CanaryNames, DeployAssumption
<1>4. failures' \in 0 .. MaxFailures
  BY <1>1, DeployAssumption DEF DInv, ControlOK, DeployAssumption
<1>5. ControlOK'
  BY <1>1, <1>4 DEF DInv, ControlOK, NoCall, NoResult
<1>6. Where' /\ Promotion' /\ Removal'
  BY <1>1 DEF Where, Promotion, Removal, NoCall
<1>7. QED
  BY <1>1, <1>2, <1>3, <1>5, <1>6 DEF DInv, Complete, Gone, Done, NoResult

LEMMA StutterKeeps == ASSUME DInv, UNCHANGED vars PROVE DInv'
<1>1. UNCHANGED << driver, aws, pc, call, result, failures, config >>
  BY DEF vars
<1>2. DriverOK' /\ AwsOK' /\ UNCHANGED << services, listener >>
      /\ UNCHANGED << serviceName, stableTGARN, canaryServiceName >>
  BY <1>1, SameAws, SameDriver DEF DInv
<1>3. ControlOK' /\ Where'
  BY <1>1 DEF DInv, ControlOK, Where
<1>4. Promotion' /\ Removal'
  BY <1>1, <1>2 DEF DInv, Promotion, Removal, Exists
<1>5. QED
  BY <1>2, <1>3, <1>4 DEF DInv

LEMMA StepKeeps == ASSUME DInv, Next PROVE DInv' /\ Complete /\ Gone
<1>1. CASE Issue
  BY <1>1, IssueKeeps
<1>2. CASE Serve
  BY <1>2, RegisterKeeps, AskKeeps, DescribeCanaryKeeps, CreateTargetGroupKeeps,
     CreateServiceKeeps, RouteKeeps, DestroyBlueKeeps, UpdateServiceKeeps, RestoreKeeps,
     DrainCanaryKeeps, DeleteCanaryKeeps, DeleteCanaryGroupKeeps DEF Serve
<1>3. CASE ECSStep
  BY <1>3, RolloutKeeps DEF ECSStep
<1>4. CASE Restart
  BY <1>4, RestartKeeps
<1>5. QED
  BY <1>1, <1>2, <1>3, <1>4 DEF Next

LEMMA DInvHolds == Spec => []DInv
<1>1. DInv /\ [Next]_vars => DInv'
  BY StepKeeps, StutterKeeps
<1>2. QED
  BY <1>1, InitDInv, PTL DEF Spec

\* The driver and what it works on keep their types; above all, the listener
\* forwards only to target groups that exist, with weights between 0 and 100.
THEOREM TypesHold == Spec => []TypeOK
BY DInvHolds, DInvTypes, PTL

\* PromoteCanary succeeds only when the stable service runs the canary's image,
\* gets all traffic, and nothing of the canary is left, whatever was called
\* before and whichever requests failed.
THEOREM PromotionIsComplete == Spec => PromotionComplete
<1>1. DInv /\ Next => Complete
  BY StepKeeps
<1>2. DInv => ((call.op = "PromoteCanary" /\ pc = "restore listener") =>
                 services[serviceName].image = services[canaryServiceName].image)
  BY DEF DInv, Promotion
<1>3. DInv /\ [Next]_vars =>
        [/\ (call.op = "PromoteCanary" /\ pc = "restore listener") =>
               services[serviceName].image = services[canaryServiceName].image
         /\ (pc # "idle" /\ Done("PromoteCanary")') =>
               /\ Exists(serviceName)' /\ listener' = [t \in {stableTGARN} |-> 1]
               /\ canary' = << None, None >>]_vars
  BY <1>1, <1>2 DEF Complete
<1>4. QED
  BY <1>3, DInvHolds, PTL DEF Spec, PromotionComplete

\* When DestroyCanary succeeds, nothing of the canary it knew is left: no target
\* group, no share of the traffic, and the driver has forgotten it.
THEOREM CanaryIsGone == Spec => CanaryGone
<1>1. DInv /\ [Next]_vars => [Gone]_vars
  BY StepKeeps
<1>2. DInv /\ [Next]_vars =>
        [(pc # "idle" /\ Done("DestroyCanary")') =>
           /\ canary' = << None, None >>
           /\ canaryTGARN \notin targetGroups' /\ canaryTGARN \notin DOMAIN listener']_vars
  BY <1>1 DEF Gone
<1>3. QED
  BY <1>2, DInvHolds, PTL DEF Spec, CanaryGone
=============================================================================
