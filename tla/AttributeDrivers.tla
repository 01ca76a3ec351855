---------------------------- MODULE AttributeDrivers ----------------------------
(***************************************************************************)
(* Resources with attributes: databases (rds.go), registries (ecr.go),     *)
(* buckets (s3.go), clusters (eks.go), caches (elasticache.go), load       *)
(* balancers (alb.go), networks (vpc.go), certificates (acm.go) and APIs   *)
(* (apigateway.go).  Two attributes stand for all: one that Update can     *)
(* change, or would, and one that only Create sends:                       *)
(*                                                                         *)
(*              Varying            Fixed                                   *)
(*   rds        instance_class     engine_version                          *)
(*   ecr        lifecycle_policy   none                                    *)
(*   s3         versioning         encryption                              *)
(*   eks        version            subnet_ids                              *)
(*   elasticache node_type         description                             *)
(*   alb        idle_timeout       scheme                                  *)
(*   vpc        none               cidr                                    *)
(*   acm        none               domain_name                             *)
(*   apigw      description        protocol                                *)
(*                                                                         *)
(* Abstracted: AWS takes every value at once, and a spec that lacks what   *)
(* Create cannot do without (the password of a database).                  *)
(***************************************************************************)
EXTENDS Resource

\* What Create makes of a spec: what the spec leaves out gets a default, what
\* Create does not send (a policy, a timeout) is as AWS has it.
Defaulted ==
  [k \in Keys |->
     IF k = Varying /\ driver = "alb" THEN Present
     ELSE IF (k = Varying /\ driver \in {"ecr", "vpc", "acm"}) \/ (k = Fixed /\ driver = "ecr")
     THEN Absent
     ELSE IF spec[k] = Absent THEN Present ELSE spec[k]]

Creates(possible) ==
  /\ pc = "create"
  /\ Request(possible, Make(Defaulted), Succeed(Output(live', FALSE)), Fail)

Modified == Over([Nothing EXCEPT ![Varying] = spec[Varying]])
Modifies(possible, ok) ==
  /\ pc = "modify"
  /\ Request(possible, Give(Modified), ok, Fail)

\* The request of a Read before Update or Delete, which fail with it, and the
\* one whose answer an Update returns.
ReadsFirst(q) == pc = "read" /\ Look(exists, Goto(IF op = "Delete" THEN "remove" ELSE q), Fail)
ReadsLast     == pc = "read again" /\ Look(exists, Succeed(Output(live, FALSE)), Fail)

Removes == pc = "remove" /\ Request(exists, Remove, Succeed(NoState), Fail)

-----------------------------------------------------------------------------
(***************************************************************************)
(* Databases.                                                              *)
(***************************************************************************)

CreateDBInstance == driver = "rds" /\ Creates(~exists)
ModifyDBInstance == driver = "rds" /\ Modifies(exists, Succeed(Output(live', FALSE)))
DeleteDBInstance == driver = "rds" /\ Removes

-----------------------------------------------------------------------------
(***************************************************************************)
(* Registries.                                                             *)
(***************************************************************************)

CreateRepository     == driver = "ecr" /\ Creates(~exists)
PutLifecyclePolicy   == driver = "ecr" /\ Modifies(exists, Goto("read again"))
DescribeRepositories == driver = "ecr" /\ ReadsLast
DeleteRepository     == driver = "ecr" /\ Removes

-----------------------------------------------------------------------------
(***************************************************************************)
(* Buckets: Create sends up to three requests, Update enables versioning   *)
(* and never disables it.                                                  *)
(***************************************************************************)

AfterBucket ==
  IF spec[Varying] # Absent THEN Goto("versioning")
  ELSE IF spec[Fixed] # Absent THEN Goto("encryption")
  ELSE Succeed(Output(live', FALSE))

\* In us-east-1, where the request has no LocationConstraint, AWS accepts a
\* bucket that the account has already.
CreateBucket ==
  /\ driver = "s3" /\ pc = "create"
  /\ \E accepts \in {FALSE, exists} :
       Request(~exists \/ accepts, IF exists THEN UNCHANGED aws ELSE Make(Nothing),
               AfterBucket, Fail)

PutBucketVersioning ==
  /\ driver = "s3" /\ pc = "versioning"
  /\ Request(exists, Give(With(Varying, Present)),
             IF op = "Update" THEN Goto("read again")
             ELSE IF spec[Fixed] # Absent THEN Goto("encryption")
             ELSE Succeed(Output(live', FALSE)),
             Fail)

PutBucketEncryption ==
  /\ driver = "s3" /\ pc = "encryption"
  /\ Request(exists, Give(With(Fixed, Present)), Succeed(Output(live', FALSE)), Fail)

HeadBucket ==
  /\ driver = "s3" /\ pc = "read again"
  /\ Look(exists, Goto("location"), Fail)

\* An error counts as the region of the driver.
GetBucketLocation ==
  /\ driver = "s3" /\ pc = "location"
  /\ Look(exists, Succeed(Output(live, FALSE)), Succeed(Output(live, FALSE)))

DeleteBucket == driver = "s3" /\ Removes

-----------------------------------------------------------------------------
(***************************************************************************)
(* Clusters.  AWS refuses an update to the version a cluster has.          *)
(***************************************************************************)

CreateCluster        == driver = "eks" /\ Creates(~exists)
UpdateClusterVersion == driver = "eks" /\ Modifies(exists /\ Modified # live, Goto("read again"))
DescribeCluster      == driver = "eks" /\ ReadsLast
DeleteCluster        == driver = "eks" /\ Removes

-----------------------------------------------------------------------------
(***************************************************************************)
(* Caches.                                                                 *)
(***************************************************************************)

CreateReplicationGroup == driver = "elasticache" /\ Creates(~exists)
ModifyReplicationGroup ==
  driver = "elasticache" /\ Modifies(exists, Succeed(Output(live', FALSE)))
DeleteReplicationGroup == driver = "elasticache" /\ Removes

-----------------------------------------------------------------------------
(***************************************************************************)
(* Load balancers.  A second request with the same name and scheme finds   *)
(* the first balancer.                                                     *)
(***************************************************************************)

CreateLoadBalancer ==
  /\ driver = "alb" /\ pc = "create"
  /\ Request(exists => live[Fixed] = Defaulted[Fixed],
             IF exists THEN UNCHANGED aws ELSE Make(Defaulted),
             Succeed(Output(live', FALSE)), Fail)

DescribeLoadBalancers ==
  /\ driver = "alb"
  /\ ReadsFirst(IF spec[Varying] = Absent THEN "read again" ELSE "modify") \/ ReadsLast

ModifyLoadBalancerAttributes == driver = "alb" /\ Modifies(exists, Goto("read again"))
DeleteLoadBalancer           == driver = "alb" /\ Removes

-----------------------------------------------------------------------------
(***************************************************************************)
(* Networks, certificates and APIs have ids: Create that is repeated makes *)
(* another one, and one without a record is not seen any more.             *)
(***************************************************************************)

CreateVpc    == driver = "vpc" /\ Creates(TRUE)
DescribeVpcs == driver = "vpc" /\ (ReadsFirst("modify") \/ ReadsLast)
\* The name again.
CreateTags   == driver = "vpc" /\ Modifies(exists, Goto("read again"))
DeleteVpc    == driver = "vpc" /\ Removes

RequestCertificate == driver = "acm" /\ Creates(TRUE)
describeCert       == driver = "acm" /\ ReadsLast
DeleteCertificate  == driver = "acm" /\ Removes

CreateApi == driver = "apigw" /\ Creates(TRUE)
GetApi    == driver = "apigw" /\ ReadsFirst("modify")
UpdateApi == driver = "apigw" /\ Modifies(exists, Succeed(Output(live', FALSE)))
DeleteApi == driver = "apigw" /\ Removes
=============================================================================
