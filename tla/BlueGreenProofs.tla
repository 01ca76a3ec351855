---------------------------- MODULE BlueGreenProofs ----------------------------
(***************************************************************************)
(* Blue/green deployments have no downtime and mix no versions, for any    *)
(* images, names and generations of services, whichever requests fail,     *)
(* carried out or not, how often ever, and whenever the process restarts.  *)
(*                                                                         *)
(* The argument: at every moment the listener forwards to one group, whose *)
(* service wants a task and has one running (Front); what a strategy knows *)
(* of green when it switches makes the group of green such a group, and it *)
(* drains and deletes blue only after a switch that it knows of.           *)
(***************************************************************************)
EXTENDS DeployStrategy, SequenceTheorems, TLAPS

BlueGreen == Strategies \subseteq {"blue/green"}

greenName == Append(serviceName, "green")

\* A service answers for its own group and runs its own image, if any.
ServicesOK ==
  \A n \in DOMAIN services :
    /\ services[n].tg = n /\ services[n].image \in Images
    /\ services[n].live \in {services[n].image, NoImage}

\* The service n wants a task and runs one.
Runs(n) == n \in DOMAIN services /\ services[n].desired = 1 /\ services[n].live # NoImage

Front(t) == listener = [x \in {t} |-> 1] /\ Runs(t)

\* Where the driver is, in which operation and at which stage of the deployment.
Place ==
  \/ pc = "idle" /\ stage \in {"stable", "created", "checked", "switched"}
  \/ /\ pc \in {"register", "create target group", "create service"}
     /\ call.op = "CreateGreen" /\ call.image \in Images /\ stage = "stable"
  \/ pc = "describe active" /\ call.op = "HealthCheck" /\ stage = "created"
  \/ pc = "switch" /\ call.op = "SwitchTraffic" /\ stage = "checked"
  \/ /\ pc \in {"drain blue", "delete blue", "delete blue group"}
     /\ call.op = "DestroyBlue" /\ stage = "switched"

\* What the driver knows of green at a stage is so.
Green ==
  /\ serviceName \in Seq({"svc", "green"})
  /\ pc = "create service" => greenTGARN = greenName
  /\ stage \in {"created", "checked", "switched"} =>
       /\ greenServiceName = greenName /\ greenTGARN = greenName
       /\ greenName \in DOMAIN services /\ services[greenName].desired = 1
  /\ stage \in {"checked", "switched"} => Runs(greenName)
  /\ stage = "switched" => listener = [x \in {greenName} |-> 1]

HasFront == \E t : Front(t)

BInv == ServicesOK /\ HasFront /\ Place /\ Green

LEMMA InitBInv == StrategyInit => BInv
<1>. SUFFICES ASSUME StrategyInit PROVE BInv
  OBVIOUS
<1>. DEFINE first == [image |-> FirstImage, live |-> FirstImage, desired |-> 1,
                      failed |-> FALSE, tg |-> ServiceName]
<1>1. /\ first.image = FirstImage /\ first.live = FirstImage /\ first.desired = 1
      /\ first.tg = ServiceName
  OBVIOUS
<1>2. services = [n \in {ServiceName} |-> first] /\ listener = [t \in {ServiceName} |-> 1]
      /\ pc = "idle" /\ stage = "stable" /\ serviceName = ServiceName
  BY DEF StrategyInit, Init, InitDriver
<1>. HIDE DEF first
<1>3. FirstImage \in Images /\ FirstImage # NoImage
  BY DeployAssumption DEF DeployAssumption
<1>4. ServicesOK
  BY <1>1, <1>2, <1>3 DEF ServicesOK
<1>5. Front(ServiceName)
  BY <1>1, <1>2, <1>3 DEF Front, Runs
<1>6. ServiceName \in Seq({"svc", "green"})
  BY DEF ServiceName
<1>7. Place /\ Green
  BY <1>2, <1>6 DEF Place, Green
<1>8. QED
  BY <1>4, <1>5, <1>7 DEF BInv, HasFront

-----------------------------------------------------------------------------
(***************************************************************************)
(* What happens in AWS, and what its users see of it.                      *)
(***************************************************************************)

\* One step of what users see, or none.
Seen == NoDowntime!Next \/ (Serving' = Serving /\ Running' = Running)

LEMMA GreenIsAnother ==
  ASSUME serviceName \in Seq({"svc", "green"})
  PROVE  greenName # serviceName /\ greenName # None /\ greenName \in Seq({"svc", "green"})
BY EmptySeq, AppendProperties DEF greenName, None

\* Of services s and a listener l, the images that answer requests if l
\* forwards to t alone.
LEMMA OneServes ==
  ASSUME NEW s, NEW l, NEW t,
         \A n \in DOMAIN s : s[n].tg = n,
         t \in DOMAIN s, s[t].desired = 1, l = [x \in {t} |-> 1]
  PROVE  UNION {{s[n].live : n \in {m \in DOMAIN s : s[m].tg = u /\ s[m].desired = 1}} :
                  u \in {v \in DOMAIN l : v \in DOMAIN l /\ l[v] > 0}} = {s[t].live}
<1>1. {v \in DOMAIN l : v \in DOMAIN l /\ l[v] > 0} = {t}
  OBVIOUS
<1>2. {m \in DOMAIN s : s[m].tg = t /\ s[m].desired = 1} = {t}
  OBVIOUS
<1>3. QED
  BY <1>1, <1>2

LEMMA FrontServes ==
  ASSUME ServicesOK, NEW t, Front(t)
  PROVE  Serving = {services[t].live}
BY OneServes DEF ServicesOK, Front, Runs, Serving, Behind, Receives

LEMMA FrontServesThen ==
  ASSUME ServicesOK', NEW t, Front(t)'
  PROVE  Serving' = {services'[t].live}
BY OneServes DEF ServicesOK, Front, Runs, Serving, Behind, Receives

LEMMA SetServiceGives ==
  ASSUME NEW n, NEW svc, SetService(n, svc)
  PROVE  /\ DOMAIN services' = DOMAIN services \cup {n} /\ services'[n] = svc
         /\ \A m \in DOMAIN services \ {n} : services'[m] = services[m]
         /\ UNCHANGED listener
BY DEF SetService

\* The same tasks run.
LEMMA Drains ==
  ASSUME ServicesOK, NEW t, Front(t), ServicesOK', Front(t)',
         DOMAIN services' = DOMAIN services,
         \A m \in DOMAIN services : services'[m].live = services[m].live
  PROVE  Seen
<1>1. Serving' = Serving
  BY FrontServes, FrontServesThen DEF Front, Runs
<1>2. Running' = Running
  BY DEF Running
<1>3. QED
  BY <1>1, <1>2 DEF Seen

\* A service gets its first task, or is new.
LEMMA Starts ==
  ASSUME ServicesOK, NEW t, Front(t), ServicesOK', Front(t)',
         NEW n, n # t, NEW i \in Images \cup {NoImage},
         n \in DOMAIN services => services[n].live \in {NoImage, i},
         DOMAIN services' = DOMAIN services \cup {n}, services'[n].live = i,
         \A m \in DOMAIN services \ {n} : services'[m] = services[m]
  PROVE  Seen
<1>1. Serving' = Serving
  <2>1. Serving' = {services'[t].live} /\ Serving = {services[t].live}
    BY FrontServes, FrontServesThen
  <2>2. QED
    BY <2>1 DEF Front, Runs
<1>2. CASE i = NoImage
  <2>1. Running' = Running
    BY <1>2 DEF Running
  <2>2. QED
    BY <1>1, <2>1 DEF Seen
<1>3. CASE i \in Images
  <2>1. i # NoImage
    BY <1>3, DeployAssumption DEF DeployAssumption
  <2>2. Running' = Running \cup {i}
    BY <2>1 DEF Running
  <2>3. NoDowntime!Start(i)
    BY <1>1, <2>2 DEF NoDowntime!Start
  <2>4. QED
    BY <1>3, <2>3 DEF Seen, NoDowntime!Next
<1>4. QED
  BY <1>2, <1>3

\* A service that is not the front loses its task, or goes.
LEMMA Stops ==
  ASSUME ServicesOK, NEW t, Front(t), ServicesOK', Front(t)',
         NEW n \in DOMAIN services, n # t,
         DOMAIN services \ {n} \subseteq DOMAIN services',
         DOMAIN services' \subseteq DOMAIN services,
         n \in DOMAIN services' => services'[n].live = NoImage,
         \A m \in DOMAIN services \ {n} : services'[m] = services[m]
  PROVE  Seen
<1>1. Serving' = {services[t].live} /\ Serving = {services[t].live}
  <2>1. services'[t] = services[t]
    BY DEF Front, Runs
  <2>2. QED
    BY <2>1, FrontServes, FrontServesThen
<1>. DEFINE i == services[n].live
<1>2. CASE i = NoImage \/ \E m \in DOMAIN services \ {n} : services[m].live = i
  <2>1. Running' = Running
    BY <1>2 DEF Running
  <2>2. QED
    BY <1>1, <2>1 DEF Seen
<1>3. CASE i # NoImage /\ \A m \in DOMAIN services \ {n} : services[m].live # i
  <2>1. Running' = Running \ {i}
    BY <1>3 DEF Running
  <2>2. i \notin Serving /\ i \in Images
    BY <1>1, <1>3 DEF Front, Runs, ServicesOK
  <2>3. NoDowntime!Stop(i)
    BY <1>1, <2>1, <2>2 DEF NoDowntime!Stop
  <2>4. QED
    BY <2>2, <2>3 DEF Seen, NoDowntime!Next
<1>4. QED
  BY <1>2, <1>3

\* Traffic moves to a service that runs.
LEMMA Switches ==
  ASSUME ServicesOK, NEW t, Front(t), NEW g, Runs(g),
         listener' = [x \in {g} |-> 1], UNCHANGED services
  PROVE  ServicesOK' /\ Front(g)' /\ Seen
<1>1. ServicesOK' /\ Front(g)'
  BY DEF ServicesOK, Front, Runs
<1>2. Serving' = {services[g].live}
  BY <1>1, FrontServesThen
<1>3. Running' = Running /\ services[g].live \in Running /\ services[g].live \in Images
  BY DEF Running, Runs, ServicesOK
<1>4. NoDowntime!Switch(services[g].live)
  BY <1>2, <1>3 DEF NoDowntime!Switch
<1>5. QED
  BY <1>1, <1>3, <1>4 DEF Seen, NoDowntime!Next

LEMMA NothingSeen ==
  ASSUME UNCHANGED << services, listener >>
  PROVE  /\ Seen
         /\ ServicesOK => ServicesOK'
         /\ HasFront => HasFront'
         /\ \A t : (Front(t)' <=> Front(t)) /\ (Runs(t)' <=> Runs(t))
BY DEF Seen, Serving, Running, Behind, Receives, ServicesOK, HasFront, Front, Runs

-----------------------------------------------------------------------------
(***************************************************************************)
(* The driver and the strategy.                                            *)
(***************************************************************************)

\* A step that changes nothing in AWS and nothing the driver knows.
LEMMA Unseen ==
  ASSUME BInv, UNCHANGED << driver, aws >>, Place', stage' = stage \/ stage' = "stable",
         pc' # "create service"
  PROVE  BInv' /\ Seen
<1>1. UNCHANGED << services, listener >>
  BY DEF aws
<1>2. Green'
  BY <1>1, NothingSeen DEF BInv, Green, driver, green, greenName, Runs
<1>3. QED
  BY <1>1, <1>2, NothingSeen DEF BInv, HasFront

\* The operations of a blue/green deployment, and the stages they lead to.
Leads == [CreateGreen |-> "created", HealthCheck |-> "checked",
          SwitchTraffic |-> "switched", DestroyBlue |-> "stable"]

LEMMA LeadsReaches ==
  ASSUME NEW op \in DOMAIN Leads
  PROVE  /\ op \in DOMAIN Reaches /\ Reaches[op] = Leads[op]
         /\ op \notin {"CreateCanary", "PromoteCanary", "DestroyCanary"}
BY DEF Leads, Reaches

LEMMA OnBegin ==
  ASSUME NEW op \in DOMAIN Leads, NEW q, q # "idle", NEW image, NEW percent,
         Begin(op, q, image, percent), Advance
  PROVE  /\ pc = "idle" /\ pc' = q /\ call'.op = op /\ call'.image = image
         /\ stage' = stage /\ UNCHANGED << driver, aws >>
BY LeadsReaches DEF Begin, Advance

LEMMA OnThen ==
  ASSUME call.op \in DOMAIN Leads, NEW q, q # "idle", Then(q), Advance
  PROVE  pc' = q /\ call' = call /\ stage' = stage
BY LeadsReaches DEF Then, Advance

LEMMA OnSuccess ==
  ASSUME call.op \in DOMAIN Leads, Return(TRUE), Advance
  PROVE  pc' = "idle" /\ stage' = Leads[call.op]
<1>1. pc' = "idle" /\ result'.op = call.op /\ result'.ok
  BY DEF Return, ReturnImage
<1>2. QED
  BY <1>1, LeadsReaches DEF Advance

LEMMA OnError ==
  ASSUME call.op \in DOMAIN Leads, Return(FALSE), Advance
  PROVE  pc' = "idle" /\ stage' = stage
<1>1. pc' = "idle" /\ result'.op = call.op /\ ~result'.ok
  BY DEF Return, ReturnImage
<1>2. QED
  BY <1>1, LeadsReaches DEF Advance

\* Starting an operation that belongs to the stage.
LEMMA BeginKeeps ==
  ASSUME BInv, Advance, NEW op, NEW q, NEW image, Begin(op, q, image, 0),
         \/ stage = "stable" /\ op = "CreateGreen" /\ q = "register" /\ image \in Images
         \/ stage = "created" /\ op = "HealthCheck" /\ q = "describe active"
         \/ stage = "checked" /\ op = "SwitchTraffic" /\ q = "switch"
         \/ stage = "switched" /\ op = "DestroyBlue" /\ q = "drain blue"
  PROVE  BInv' /\ Seen
<1>1. op \in DOMAIN Leads /\ q \notin {"idle", "create service"}
  BY DEF Leads
<1>2. /\ pc' = q /\ call'.op = op /\ call'.image = image
      /\ stage' = stage /\ UNCHANGED << driver, aws >>
  BY <1>1, OnBegin
<1>3. Place'
  BY <1>2 DEF Place
<1>4. QED
  BY <1>1, <1>2, <1>3, Unseen

LEMMA CallKeeps ==
  ASSUME BlueGreen, BInv, Call, Advance
  PROVE  BInv' /\ Seen
<1>1. stage \in {"stable", "created", "checked", "switched"}
  BY DEF BInv, Place
<1>2. \/ stage = "stable" /\ \E image \in Images : CreateGreen(image)
      \/ stage = "created" /\ HealthCheck
      \/ stage = "checked" /\ SwitchTraffic
      \/ stage = "switched" /\ DestroyBlue
  BY <1>1 DEF Call, BlueGreen
<1>3. CASE stage = "stable" /\ \E image \in Images : CreateGreen(image)
  BY <1>3, BeginKeeps DEF CreateGreen
<1>4. CASE stage = "created" /\ HealthCheck
  BY <1>4, BeginKeeps DEF HealthCheck
<1>5. CASE stage = "checked" /\ Begin("SwitchTraffic", "switch", NoImage, 0)
  BY <1>5, BeginKeeps
<1>6. CASE stage = "checked" /\ Answer("SwitchTraffic", FALSE)
  <2>1. /\ UNCHANGED << driver, aws >> /\ pc' = "idle"
        /\ result'.op = "SwitchTraffic" /\ ~result'.ok
    BY <1>6 DEF Answer
  <2>2. stage' = stage
    BY <2>1 DEF Advance
  <2>3. Place'
    BY <1>6, <2>1, <2>2 DEF Place
  <2>4. QED
    BY <2>1, <2>2, <2>3, Unseen
<1>7. CASE stage = "switched" /\ DestroyBlue
  BY <1>7, BeginKeeps DEF DestroyBlue
<1>8. QED
  BY <1>2, <1>3, <1>4, <1>5, <1>6, <1>7 DEF SwitchTraffic

LEMMA RegisterKeeps ==
  ASSUME BInv, RegisterTaskDefinition, Advance
  PROVE  BInv' /\ Seen
<1>1. /\ call.op = "CreateGreen" /\ call.image \in Images /\ stage = "stable"
      /\ call.op \in DOMAIN Leads
  BY DEF BInv, Place, RegisterTaskDefinition, Leads
<1>2. UNCHANGED << driver, aws >>
  BY DEF RegisterTaskDefinition, Request
<1>3. Then("create target group") \/ Return(FALSE)
  BY <1>1 DEF RegisterTaskDefinition, Request
<1>4. /\ stage' = stage /\ pc' # "create service"
      /\ pc' = "idle" \/ (pc' = "create target group" /\ call' = call)
  <2>1. CASE Then("create target group")
    <3>1. pc' = "create target group" /\ call' = call /\ stage' = stage
      BY <1>1, <2>1, OnThen
    <3>2. QED
      BY <3>1
  <2>2. CASE Return(FALSE)
    BY <1>1, <2>2, OnError
  <2>3. QED
    BY <1>3, <2>1, <2>2
<1>5. Place'
  BY <1>1, <1>4 DEF Place
<1>6. QED
  BY <1>2, <1>4, <1>5, Unseen

LEMMA CreateTargetGroupKeeps ==
  ASSUME BInv, CreateTargetGroup, Advance
  PROVE  BInv' /\ Seen
<1>1. /\ call.op = "CreateGreen" /\ call.image \in Images /\ stage = "stable"
      /\ call.op \in DOMAIN Leads /\ newName = greenName
  BY DEF BInv, Place, CreateTargetGroup, newName, greenName, Leads
<1>2. UNCHANGED << services, listener, serviceName, greenServiceName >>
  BY DEF CreateTargetGroup, Request, aws
<1>3. \/ Then("create service") /\ greenTGARN' = greenName
      \/ Return(FALSE)
  BY <1>1 DEF CreateTargetGroup, Request
<1>4. /\ stage' = "stable" /\ Place'
      /\ pc' = "create service" => greenTGARN' = greenName
  BY <1>1, <1>3, OnThen, OnError DEF Place
<1>5. Green'
  BY <1>2, <1>4 DEF BInv, Green, greenName
<1>6. QED
  BY <1>2, <1>4, <1>5, NothingSeen DEF BInv, HasFront

LEMMA CreateServiceKeeps ==
  ASSUME BInv, CreateService, Advance
  PROVE  BInv' /\ Seen
<1>1. /\ call.op = "CreateGreen" /\ call.image \in Images /\ stage = "stable"
      /\ call.op \in DOMAIN Leads /\ newName = greenName /\ greenTGARN = greenName
  BY DEF BInv, Place, Green, CreateService, newName, greenName, Leads
<1>. DEFINE svc == [image |-> call.image, live |-> NoImage, desired |-> 1,
                    failed |-> FALSE, tg |-> newName]
<1>2. /\ svc.image = call.image /\ svc.live = NoImage /\ svc.desired = 1 /\ svc.tg = greenName
  BY <1>1
<1>3. UNCHANGED << serviceName, greenTGARN >>
  BY DEF CreateService
<1>4. /\ \/ UNCHANGED << services, listener >>
         \/ ~Exists(greenName) /\ SetService(greenName, svc)
      /\ \/ /\ ~Exists(greenName) /\ SetService(greenName, svc)
            /\ Return(TRUE) /\ greenServiceName' = greenName
         \/ Return(FALSE) /\ UNCHANGED greenServiceName
  BY <1>1 DEF CreateService, Request, aws
<1>. HIDE DEF svc
<1>5. ServicesOK' /\ HasFront' /\ Seen
  <2>1. CASE UNCHANGED << services, listener >>
    BY <2>1, NothingSeen DEF BInv, HasFront
  <2>2. CASE ~Exists(greenName) /\ SetService(greenName, svc)
    <3>1. /\ DOMAIN services' = DOMAIN services \cup {greenName} /\ services'[greenName] = svc
          /\ \A m \in DOMAIN services \ {greenName} : services'[m] = services[m]
          /\ listener' = listener /\ greenName \notin DOMAIN services
      BY <2>2, SetServiceGives DEF Exists
    <3>2. ServicesOK'
      BY <1>1, <1>2, <3>1 DEF BInv, ServicesOK
    <3>3. PICK t : Front(t)
      BY DEF BInv, HasFront
    <3>4. Front(t)' /\ t # greenName
      BY <3>1, <3>3 DEF Front, Runs
    <3>5. Seen
      BY <1>2, <3>1, <3>2, <3>3, <3>4, Starts DEF BInv, HasFront
    <3>6. QED
      BY <3>2, <3>4, <3>5 DEF HasFront
  <2>3. QED
    BY <1>4, <2>1, <2>2
<1>6. /\ pc' = "idle"
      /\ stage' = "stable" \/ (/\ stage' = "created" /\ greenServiceName' = greenName
                              /\ greenName \in DOMAIN services' /\ services'[greenName] = svc)
  <2>1. CASE Return(TRUE) /\ SetService(greenName, svc) /\ greenServiceName' = greenName
    <3>1. pc' = "idle" /\ stage' = "created"
      BY <1>1, <2>1, OnSuccess DEF Leads
    <3>2. greenName \in DOMAIN services' /\ services'[greenName] = svc
      BY <2>1, SetServiceGives
    <3>3. QED
      BY <2>1, <3>1, <3>2
  <2>2. CASE Return(FALSE)
    BY <1>1, <2>2, OnError
  <2>3. QED
    BY <1>4, <2>1, <2>2
<1>7. Place'
  BY <1>6 DEF Place
<1>8. Green'
  BY <1>1, <1>2, <1>3, <1>6 DEF BInv, Green, greenName
<1>9. QED
  BY <1>5, <1>7, <1>8 DEF BInv, HasFront

\* The active service is green, and healthy means that green runs a task.
LEMMA DescribeKeeps ==
  ASSUME BInv, DescribeActive, Advance
  PROVE  BInv' /\ Seen
<1>1. call.op = "HealthCheck" /\ stage = "created" /\ call.op \in DOMAIN Leads
  BY DEF BInv, Place, DescribeActive, Leads
<1>2. UNCHANGED << driver, aws >>
  BY DEF DescribeActive, Request
<1>3. Return(FALSE) \/ (Return(TRUE) /\ IsHealthy(activeService))
  BY DEF DescribeActive, Request, IsHealthy
<1>4. /\ pc' = "idle"
      /\ stage' = "created" \/ (stage' = "checked" /\ IsHealthy(activeService))
  <2>1. CASE Return(FALSE)
    BY <1>1, <2>1, OnError
  <2>2. CASE Return(TRUE) /\ IsHealthy(activeService)
    BY <1>1, <2>2, OnSuccess DEF Leads
  <2>3. QED
    BY <1>3, <2>1, <2>2
<1>5. /\ greenServiceName = greenName /\ greenTGARN = greenName
      /\ greenName \in DOMAIN services /\ services[greenName].desired = 1
      /\ serviceName \in Seq({"svc", "green"})
  BY <1>1 DEF BInv, Green
<1>6. activeService = greenName
  BY <1>5, GreenIsAnother DEF activeService
<1>7. IsHealthy(activeService) => Runs(greenName)
  BY <1>5, <1>6 DEF IsHealthy, Runs
<1>8. Place' /\ pc' # "create service"
  BY <1>4 DEF Place
<1>9. /\ UNCHANGED << services, listener, serviceName, greenServiceName, greenTGARN >>
      /\ Runs(greenName)' <=> Runs(greenName)
  BY <1>2 DEF aws, driver, green, greenName, Runs
<1>10. Green'
  BY <1>4, <1>5, <1>7, <1>8, <1>9 DEF Green, greenName
<1>11. QED
  BY <1>8, <1>9, <1>10, NothingSeen DEF BInv, HasFront

LEMMA SwitchKeeps ==
  ASSUME BInv, SwitchListener, Advance
  PROVE  BInv' /\ Seen
<1>1. call.op = "SwitchTraffic" /\ stage = "checked" /\ call.op \in DOMAIN Leads
  BY DEF BInv, Place, SwitchListener, Leads
<1>2. /\ greenServiceName = greenName /\ greenTGARN = greenName /\ Runs(greenName)
      /\ greenName \in DOMAIN services /\ services[greenName].desired = 1
      /\ serviceName \in Seq({"svc", "green"})
  BY <1>1 DEF BInv, Green
<1>3. UNCHANGED << serviceName, greenServiceName, greenTGARN >>
  BY DEF SwitchListener, driver, green
<1>4. /\ \/ UNCHANGED << services, listener >>
         \/ listener' = [t \in {greenName} |-> 1] /\ UNCHANGED services
      /\ \/ /\ listener' = [t \in {greenName} |-> 1] /\ UNCHANGED services
            /\ Return(TRUE)
         \/ Return(FALSE)
  BY <1>2 DEF SwitchListener, Request, ModifyListener, aws
<1>5. ServicesOK' /\ HasFront' /\ Seen /\ UNCHANGED services
  <2>1. CASE UNCHANGED << services, listener >>
    BY <2>1, NothingSeen DEF BInv, HasFront
  <2>2. CASE listener' = [t \in {greenName} |-> 1] /\ UNCHANGED services
    BY <1>2, <2>2, Switches DEF BInv, HasFront
  <2>3. QED
    BY <1>4, <2>1, <2>2
<1>6. /\ pc' = "idle"
      /\ \/ stage' = "checked"
         \/ stage' = "switched" /\ listener' = [t \in {greenName} |-> 1]
  <2>1. CASE Return(TRUE) /\ listener' = [t \in {greenName} |-> 1]
    BY <1>1, <2>1, OnSuccess DEF Leads
  <2>2. CASE Return(FALSE)
    BY <1>1, <2>2, OnError
  <2>3. QED
    BY <1>4, <2>1, <2>2
<1>7. Place'
  BY <1>6 DEF Place
<1>8. Green'
  BY <1>2, <1>3, <1>5, <1>6 DEF Green, greenName, Runs
<1>9. QED
  BY <1>5, <1>7, <1>8 DEF BInv, HasFront

\* After the switch green is the front, and what happens to blue is not seen.
LEMMA AfterSwitch ==
  ASSUME BInv, stage = "switched"
  PROVE  /\ Front(greenName) /\ greenName # serviceName /\ greenName # None
         /\ greenServiceName = greenName /\ greenTGARN = greenName
         /\ greenName \in Seq({"svc", "green"})
<1>1. /\ serviceName \in Seq({"svc", "green"}) /\ Runs(greenName)
      /\ greenServiceName = greenName /\ greenTGARN = greenName
      /\ listener = [x \in {greenName} |-> 1]
  BY DEF BInv, Green
<1>2. QED
  BY <1>1, GreenIsAnother DEF Front

\* What a request to blue does, and it changes nothing else.
BlueStep ==
  \/ UNCHANGED << services, listener >>
  \/ Exists(serviceName) /\ Drain(serviceName)
  \/ Exists(serviceName) /\ DeleteService(serviceName)

LEMMA BlueGoes ==
  ASSUME BInv, stage = "switched", BlueStep
  PROVE  /\ ServicesOK' /\ HasFront' /\ Seen
         /\ greenName \in DOMAIN services' /\ services'[greenName] = services[greenName]
         /\ UNCHANGED listener
<1>. PICK t : t = greenName
  OBVIOUS
<1>1. Front(t) /\ t # serviceName /\ ServicesOK /\ t \in DOMAIN services
  BY AfterSwitch DEF BInv, Front, Runs
<1>. SUFFICES /\ ServicesOK' /\ Front(t)' /\ Seen
              /\ t \in DOMAIN services' /\ services'[t] = services[t]
              /\ UNCHANGED listener
  BY DEF HasFront
<1>2. CASE UNCHANGED << services, listener >>
  BY <1>1, <1>2, NothingSeen
<1>3. CASE Exists(serviceName) /\ Drain(serviceName)
  <2>1. /\ UNCHANGED listener /\ DOMAIN services' = DOMAIN services
        /\ \A m \in DOMAIN services \ {serviceName} : services'[m] = services[m]
        /\ services'[serviceName].tg = services[serviceName].tg
        /\ services'[serviceName].image = services[serviceName].image
        /\ services'[serviceName].live = services[serviceName].live
    BY <1>3 DEF Exists, Drain, SetService
  <2>2. ServicesOK' /\ Front(t)'
    BY <1>1, <2>1 DEF ServicesOK, Front, Runs
  <2>3. Seen
    BY <1>1, <2>1, <2>2, Drains
  <2>4. QED
    BY <1>1, <2>1, <2>2, <2>3
<1>4. CASE Exists(serviceName) /\ DeleteService(serviceName)
  <2>1. /\ UNCHANGED listener /\ serviceName \in DOMAIN services
        /\ DOMAIN services' = DOMAIN services \ {serviceName}
        /\ \A m \in DOMAIN services \ {serviceName} : services'[m] = services[m]
    BY <1>4 DEF Exists, DeleteService
  <2>2. ServicesOK' /\ Front(t)'
    BY <1>1, <2>1 DEF ServicesOK, Front, Runs
  <2>3. Seen
    BY <1>1, <2>1, <2>2, Stops
  <2>4. QED
    BY <1>1, <2>1, <2>2, <2>3
<1>5. QED
  BY <1>2, <1>3, <1>4 DEF BlueStep

\* A step of DestroyBlue: the driver goes on or gives up, or it promotes green.
LEMMA DestroyStepKeeps ==
  ASSUME BInv, Advance, stage = "switched", call.op = "DestroyBlue",
         BlueStep,
         \/ Then("delete blue") /\ UNCHANGED driver
         \/ Then("delete blue group") /\ UNCHANGED driver
         \/ Return(FALSE) /\ UNCHANGED driver
         \/ Return(TRUE) /\ Promote
  PROVE  BInv' /\ Seen
<1>1. call.op \in DOMAIN Leads /\ Leads[call.op] = "stable"
  <2>1. "DestroyBlue" \in DOMAIN Leads /\ Leads["DestroyBlue"] = "stable"
    BY DEF Leads
  <2>2. QED
    BY <2>1
<1>2. /\ ServicesOK' /\ HasFront' /\ Seen
      /\ greenName \in DOMAIN services' /\ services'[greenName] = services[greenName]
      /\ UNCHANGED listener
  BY BlueGoes
<1>3. /\ Runs(greenName) /\ listener = [x \in {greenName} |-> 1]
      /\ serviceName \in Seq({"svc", "green"})
      /\ greenServiceName = greenName /\ greenTGARN = greenName
      /\ greenName \in Seq({"svc", "green"})
  BY AfterSwitch DEF BInv, Green
<1>4. CASE Return(TRUE) /\ Promote
  <2>1. pc' = "idle" /\ stage' = "stable"
    BY <1>1, <1>4, OnSuccess
  <2>2. serviceName' = greenName
    BY <1>3, <1>4 DEF Promote
  <2>3. Place' /\ Green'
    BY <1>3, <2>1, <2>2 DEF Place, Green
  <2>4. QED
    BY <1>2, <2>3 DEF BInv, HasFront
<1>5. ASSUME UNCHANGED driver, stage' = "switched",
             pc' \in {"idle", "delete blue", "delete blue group"},
             pc' = "idle" \/ call' = call
      PROVE  BInv' /\ Seen
  <2>1. UNCHANGED << serviceName, greenServiceName, greenTGARN >>
    BY <1>5 DEF driver, green
  <2>2. Place'
    BY <1>5 DEF Place
  <2>3. Green'
    BY <1>2, <1>3, <1>5, <2>1 DEF Green, greenName, Runs
  <2>4. QED
    BY <1>2, <2>2, <2>3 DEF BInv, HasFront
<1>6. CASE Then("delete blue") /\ UNCHANGED driver
  <2>1. pc' = "delete blue" /\ call' = call /\ stage' = stage
    BY <1>1, <1>6, OnThen
  <2>2. QED
    BY <1>5, <1>6, <2>1
<1>7. CASE Then("delete blue group") /\ UNCHANGED driver
  <2>1. pc' = "delete blue group" /\ call' = call /\ stage' = stage
    BY <1>1, <1>7, OnThen
  <2>2. QED
    BY <1>5, <1>7, <2>1
<1>8. CASE Return(FALSE) /\ UNCHANGED driver
  <2>1. pc' = "idle" /\ stage' = stage
    BY <1>1, <1>8, OnError
  <2>2. QED
    BY <1>5, <1>8, <2>1
<1>9. QED
  BY <1>4, <1>6, <1>7, <1>8

LEMMA DestroyKeeps ==
  ASSUME BInv, DrainBlue \/ DeleteBlue \/ DeleteBlueGroup, Advance
  PROVE  BInv' /\ Seen
<1>1. stage = "switched" /\ call.op = "DestroyBlue"
  BY DEF BInv, Place, DrainBlue, DeleteBlue, DeleteBlueGroup
<1>2. CASE DrainBlue
  <2>1. BlueStep /\ Then("delete blue") /\ UNCHANGED driver
    BY <1>2 DEF DrainBlue, Request, BlueStep, aws
  <2>2. QED
    BY <1>1, <2>1, DestroyStepKeeps
<1>3. CASE DeleteBlue
  <2>1. /\ BlueStep
        /\ \/ Then("delete blue group") /\ UNCHANGED driver
           \/ Return(FALSE) /\ UNCHANGED driver
           \/ Return(TRUE) /\ Promote
    BY <1>3 DEF DeleteBlue, Request, BlueStep, aws
  <2>2. QED
    BY <1>1, <2>1, DestroyStepKeeps
<1>4. CASE DeleteBlueGroup
  <2>1. /\ BlueStep
        /\ \/ Return(FALSE) /\ UNCHANGED driver
           \/ Return(TRUE) /\ Promote
    BY <1>4 DEF DeleteBlueGroup, Request, DeleteTargetGroup, BlueStep, aws
  <2>2. QED
    BY <1>1, <2>1, DestroyStepKeeps
<1>5. QED
  BY <1>2, <1>3, <1>4

\* No other request is sent in a blue/green deployment.
LEMMA ServeKeeps ==
  ASSUME BInv, Serve, Advance
  PROVE  BInv' /\ Seen
<1>1. pc \in {"idle", "register", "create target group", "create service", "describe active",
              "switch", "drain blue", "delete blue", "delete blue group"}
  BY DEF BInv, Place
<1>2. \/ RegisterTaskDefinition \/ CreateTargetGroup \/ CreateService
      \/ DescribeActive \/ SwitchListener \/ DrainBlue \/ DeleteBlue \/ DeleteBlueGroup
  BY <1>1 DEF Serve, UpdateService, DescribeStable, RouteListener, GetMetricStatistics,
              DescribeCanary, RestoreListener, DrainCanary, DeleteCanary, DeleteCanaryGroup
<1>3. QED
  BY <1>2, RegisterKeeps, CreateTargetGroupKeeps, CreateServiceKeeps, DescribeKeeps,
     SwitchKeeps, DestroyKeeps

-----------------------------------------------------------------------------
(***************************************************************************)
(* ECS and the process around the driver.                                  *)
(***************************************************************************)

\* The front has started its task and wants it: a rollout is another service's.
LEMMA RolloutKeeps ==
  ASSUME BInv, NEW n \in DOMAIN services, Rollout(n), UNCHANGED stage
  PROVE  BInv' /\ Seen
<1>1. PICK t : Front(t)
  BY DEF BInv, HasFront
<1>. DEFINE s == services[n]
            After(live, failed) == [image |-> s.image, live |-> live, desired |-> s.desired,
                                    failed |-> failed, tg |-> s.tg]
<1>2. ServicesOK /\ s.tg = n /\ s.image \in Images /\ s.live \in {s.image, NoImage}
  BY DEF BInv, ServicesOK
<1>3. \E live, failed :
        /\ SetService(n, After(live, failed))
        /\ \/ s.desired = 1 /\ s.live = NoImage /\ live \in {s.image, NoImage}
           \/ s.desired = 0 /\ live = NoImage
  BY <1>2 DEF Rollout
<1>4. PICK live, failed :
        /\ SetService(n, After(live, failed))
        /\ \/ s.desired = 1 /\ s.live = NoImage /\ live \in {s.image, NoImage}
           \/ s.desired = 0 /\ live = NoImage
  BY <1>3
<1>5. n # t
  BY <1>1, <1>4 DEF Front, Runs
<1>6. /\ DOMAIN services' = DOMAIN services /\ UNCHANGED listener
      /\ services'[n].tg = n /\ services'[n].image = s.image /\ services'[n].live = live
      /\ services'[n].desired = s.desired
      /\ \A m \in DOMAIN services \ {n} : services'[m] = services[m]
  BY <1>2, <1>4, SetServiceGives
<1>7. ServicesOK' /\ Front(t)'
  BY <1>1, <1>2, <1>4, <1>5, <1>6 DEF ServicesOK, Front, Runs
<1>8. Seen
  <2>1. CASE s.desired = 1
    <3>1. s.live = NoImage /\ live \in Images \cup {NoImage}
      BY <1>2, <1>4, <2>1
    <3>2. QED
      BY <1>1, <1>2, <1>5, <1>6, <1>7, <3>1, Starts
  <2>2. CASE s.desired = 0 /\ live = NoImage
    BY <1>1, <1>2, <1>5, <1>6, <1>7, <2>2, Stops
  <2>3. QED
    BY <1>4, <2>1, <2>2
<1>9. UNCHANGED << serviceName, greenServiceName, greenTGARN, pc, call, stage >>
  BY DEF Rollout, driver, green
<1>10. Place'
  BY <1>9 DEF BInv, Place
<1>11. Green'
  <2>1. \A m : m \in DOMAIN services =>
                 m \in DOMAIN services' /\ services'[m].desired = services[m].desired
    BY <1>6
  <2>2. \A m : Runs(m) =>
                 /\ m \in DOMAIN services' /\ services'[m].desired = 1
                 /\ services'[m].live # NoImage
    BY <1>2, <1>4, <1>6 DEF Runs
  <2>3. QED
    BY <1>6, <1>9, <2>1, <2>2 DEF BInv, Green, greenName, Runs
<1>12. QED
  BY <1>7, <1>8, <1>10, <1>11 DEF BInv, HasFront

\* A new driver knows nothing of green, and AWS is as it was.
LEMMA RestartKeeps ==
  ASSUME BInv, Restart, stage' = "stable"
  PROVE  BInv' /\ Seen
<1>1. /\ UNCHANGED << services, listener >> /\ pc' = "idle" /\ serviceName' = ServiceName
  BY DEF Restart, aws
<1>2. ServiceName \in Seq({"svc", "green"})
  BY DEF ServiceName
<1>3. Place' /\ Green'
  BY <1>1, <1>2 DEF Place, Green
<1>4. QED
  BY <1>1, <1>3, NothingSeen DEF BInv

LEMMA StepKeeps ==
  ASSUME BlueGreen, BInv, [StrategyNext]_svars
  PROVE  BInv' /\ Seen
<1>1. CASE Call /\ Advance
  BY <1>1, CallKeeps
<1>2. CASE Serve /\ Advance
  BY <1>2, ServeKeeps
<1>3. CASE ECSStep /\ UNCHANGED stage
  BY <1>3, RolloutKeeps DEF ECSStep
<1>4. CASE Restart /\ stage' = "stable"
  BY <1>4, RestartKeeps
<1>5. CASE UNCHANGED svars
  <2>1. /\ UNCHANGED << services, listener, serviceName, greenServiceName, greenTGARN >>
        /\ UNCHANGED << pc, call, stage, driver, aws >>
    BY <1>5 DEF svars, vars, driver, green, aws
  <2>2. Place'
    BY <2>1 DEF BInv, Place
  <2>3. Green'
    BY <2>1 DEF BInv, Green, greenName, Runs
  <2>4. QED
    BY <2>1, <2>2, <2>3, NothingSeen DEF BInv
<1>6. QED
  BY <1>1, <1>2, <1>3, <1>4, <1>5 DEF StrategyNext

LEMMA BInvHolds == ASSUME BlueGreen PROVE StrategySpec => []BInv
<1>1. StrategyInit => BInv
  BY InitBInv
<1>2. BInv /\ [StrategyNext]_svars => BInv'
  BY StepKeeps
<1>3. QED
  BY <1>1, <1>2, PTL DEF StrategySpec

-----------------------------------------------------------------------------
(***************************************************************************)
(* The theorems.                                                           *)
(***************************************************************************)

\* In blue/green deployments no request of a user is forwarded to a target
\* group without a service (SwitchTraffic, DestroyBlue and the process that
\* forgets green).
THEOREM BlueGreenServes == ASSUME BlueGreen PROVE StrategySpec => []TrafficServed
<1>1. BInv => TrafficServed
  <2>. SUFFICES ASSUME BInv PROVE TrafficServed
    OBVIOUS
  <2>1. PICK t : Front(t)
    BY DEF BInv, HasFront
  <2>2. t \in Behind(t)
    BY <2>1 DEF BInv, ServicesOK, Front, Runs, Behind
  <2>3. DOMAIN listener = {t}
    BY <2>1 DEF Front
  <2>4. QED
    BY <2>2, <2>3 DEF TrafficServed
<1>2. QED
  BY <1>1, BInvHolds, PTL

\* Blue/green deployments through the driver (CreateGreen, HealthCheck,
\* SwitchTraffic, DestroyBlue) implement Rollout: one image answers all
\* requests, traffic moves only to an image whose tasks run, and no task that
\* answers is stopped, whichever requests fail and whenever the process restarts.
THEOREM BlueGreenImplementsRollout ==
  ASSUME BlueGreen PROVE StrategySpec => ImplementsRollout
<1>1. StrategyInit => NoDowntime!Init
  <2>. SUFFICES ASSUME StrategyInit PROVE NoDowntime!Init
    OBVIOUS
  <2>. DEFINE first == [image |-> FirstImage, live |-> FirstImage, desired |-> 1,
                        failed |-> FALSE, tg |-> ServiceName]
  <2>1. first.live = FirstImage /\ first.desired = 1
    OBVIOUS
  <2>2. services = [n \in {ServiceName} |-> first] /\ listener = [t \in {ServiceName} |-> 1]
    BY DEF StrategyInit, Init
  <2>. HIDE DEF first
  <2>3. FirstImage # NoImage
    BY DeployAssumption DEF DeployAssumption
  <2>4. Front(ServiceName)
    BY <2>1, <2>2, <2>3 DEF Front, Runs
  <2>5. ServicesOK
    BY InitBInv DEF BInv
  <2>6. Serving = {FirstImage}
    BY <2>1, <2>2, <2>4, <2>5, FrontServes
  <2>7. Running = {FirstImage}
    BY <2>1, <2>2, <2>3 DEF Running
  <2>8. QED
    BY <2>6, <2>7 DEF NoDowntime!Init
<1>2. BInv /\ [StrategyNext]_svars => [NoDowntime!Next]_<< Serving, Running >>
  BY StepKeeps DEF Seen
<1>3. QED
  BY <1>1, <1>2, BInvHolds, PTL DEF StrategySpec, ImplementsRollout, NoDowntime!Spec
=============================================================================
