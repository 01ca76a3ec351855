---------------------------- MODULE DeployStrategy ----------------------------
(***************************************************************************)
(* The deployment strategies that call the driver.  They belong to the     *)
(* workflow engine (interfaces BlueGreenDriver and CanaryDriver) and not   *)
(* to this repository; the order of calls is that of the driver's tests    *)
(* (drivers/deploy_test.go:236-359).  An operation that fails is repeated  *)
(* or, for a canary, followed by DestroyCanary.                            *)
(***************************************************************************)
EXTENDS ECSDeploy

CONSTANT Strategies  \* the strategies in use: "rolling", "blue/green", "canary"

ASSUME StrategyAssumption == Strategies \subseteq {"rolling", "blue/green", "canary"}

VARIABLE stage   \* how far the deployment has come

svars == << vars, stage >>

StrategyInit == Init /\ stage = "stable"

Call ==
  \/ /\ stage = "stable"
     /\ \E image \in Images :
          \/ "rolling" \in Strategies /\ Update(image)
          \/ "blue/green" \in Strategies /\ CreateGreen(image)
          \/ "canary" \in Strategies /\ CreateCanary(image)
  \/ stage = "created" /\ HealthCheck
  \/ stage = "checked" /\ SwitchTraffic
  \/ stage = "switched" /\ DestroyBlue
  \/ stage = "canary" /\ \E percent \in Percents : RoutePercent(percent)
  \/ stage = "canary" /\ CheckMetricGate
  \/ stage \in {"canary", "ending"} /\ (PromoteCanary \/ DestroyCanary)

\* The stage a successful operation leads to.
Reaches == [CreateGreen |-> "created", HealthCheck |-> "checked",
            SwitchTraffic |-> "switched", DestroyBlue |-> "stable",
            CreateCanary |-> "canary", PromoteCanary |-> "stable",
            DestroyCanary |-> "stable"]

\* A canary that could not be created is only destroyed, and one that is
\* promoted or destroyed gets no more traffic.
Advance ==
  stage' = IF pc' = "idle" /\ result'.ok /\ result'.op \in DOMAIN Reaches
           THEN Reaches[result'.op]
           ELSE IF \/ pc' = "idle" /\ result'.op = "CreateCanary"
                   \/ pc' # "idle" /\ call'.op \in {"PromoteCanary", "DestroyCanary"}
           THEN "ending" ELSE stage

StrategyNext ==
  \/ (Call \/ Serve) /\ Advance
  \/ ECSStep /\ UNCHANGED stage
  \/ Restart /\ stage' = "stable"

StrategySpec == StrategyInit /\ [][StrategyNext]_svars

\* A request is answered, and the strategy goes on with what it has begun:
\* once traffic is switched it destroys blue, again if that failed.
FairStrategySpec ==
  /\ StrategySpec
  /\ WF_svars(Serve /\ Advance)
  /\ WF_svars(stage = "switched" /\ DestroyBlue /\ Advance)

-----------------------------------------------------------------------------
\* The images behind the target groups that get traffic.
Serving == UNION {{services[n].live : n \in Behind(t)} : t \in {u \in DOMAIN listener : Receives(u)}}

Running == {services[n].live : n \in DOMAIN services} \ {NoImage}

\* A blue/green deployment has no downtime and no mix of versions, whichever
\* requests fail and whenever the process restarts.
NoDowntime == INSTANCE Rollout WITH serving <- Serving, running <- Running
ImplementsRollout == NoDowntime!Spec

\* Every service and target group belongs to an environment the driver knows
\* (a stable group it was not configured with is not its own): a failed
\* operation leaves nothing behind that no later one would remove.
NoOrphans ==
  pc = "idle" =>
    /\ DOMAIN services \subseteq {serviceName, greenServiceName, canaryServiceName}
    /\ targetGroups \ ({ServiceName} \ {config}) \subseteq {stableTGARN, greenTGARN, canaryTGARN}

\* "DestroyBlue tears down the blue ECS service and its target group, then
\* promotes green to stable" (deploy.go:310-311): a strategy that repeats it
\* until it succeeds gets there.
BlueIsDestroyed == stage = "switched" ~> stage = "stable"
=============================================================================
