---------------------------- MODULE ResourceDrivers ----------------------------
(***************************************************************************)
(* The drivers under the engine that plans, applies, records and destroys  *)
(* a resource, and a user who edits what is asked for.                     *)
(***************************************************************************)
EXTENDS ItemDrivers, AttributeDrivers

Init ==
  /\ driver \in Drivers /\ spec \in Items(driver) /\ config \in Configs(driver, spec)
  /\ destroy = FALSE /\ current = NoState
  /\ exists = FALSE /\ live = Nothing
  /\ pc = "idle" /\ op = "none" /\ put = {} /\ drop = {} /\ dirty = FALSE
  /\ commands = MaxCommands /\ failures = MaxFailures

-----------------------------------------------------------------------------
(***************************************************************************)
(* The engine: Create without a record, else Update when Diff finds a      *)
(* change; Delete until the resource is destroyed.                         *)
(***************************************************************************)

\* The first request of Create.
FirstOfCreate ==
  CASE driver = "iam" -> "create role"  [] driver = "sg"  -> "create group"
    [] driver = "dns" -> "create zone"  [] driver = "ecs" -> "register"
    [] OTHER -> "create"

\* (faulty variant) A service needs no image.
CreateWithoutImage == current = NoState /\ ~destroy /\ Begin("Create", FirstOfCreate)

\* A service needs an image: otherwise Create fails before the first request.
Create ==
  /\ current = NoState /\ ~destroy
  /\ driver = "ecs" => spec[Image] # Absent
  /\ Begin("Create", FirstOfCreate)

\* The first request of Update; several drivers send only what the spec has.
FirstOfUpdate ==
  CASE driver = "iam" -> {"get role"} \cup (IF "other" \in config THEN {"trust"} ELSE {})
    [] driver = "sg"  -> {"read group"}
    [] driver = "dns" -> {"get zone"}
    [] driver = "ecs" -> {IF spec[Image] # Absent THEN "register" ELSE "update service"}
    [] driver \in {"alb", "vpc", "apigw"} -> {"read"}
    [] driver \in {"rds", "elasticache"} -> {"modify"}
    [] driver \in {"ecr", "eks", "s3", "acm"} ->
         {IF spec[Varying] = Absent THEN "read again"
          ELSE IF driver = "s3" THEN "versioning" ELSE "modify"}

Update ==
  /\ current # NoState /\ ~destroy /\ Diff
  /\ \E q \in FirstOfUpdate : Begin("Update", q)

FirstOfDelete ==
  CASE driver = "iam" -> "list policies"  [] driver = "sg"  -> "read group"
    [] driver = "dns" -> "get zone"       [] driver = "ecs" -> "drain service"
    [] driver \in {"alb", "vpc", "apigw"} -> "read"
    [] OTHER -> "remove"

Delete == current # NoState /\ destroy /\ Begin("Delete", FirstOfDelete)

\* An operation of the user beside the engine.
Scale ==
  /\ driver = "ecs" /\ current # NoState /\ commands > 0
  /\ pc = "idle" /\ pc' = "scale service" /\ op' = "Scale"
  /\ commands' = commands - 1
  /\ UNCHANGED << driver, spec, config, destroy, current, aws, local, dirty, failures >>

\* The user changes the spec, or asks for the end of the resource.  (external)
Edit ==
  /\ pc = "idle" /\ commands > 0 /\ ~destroy
  /\ commands' = commands - 1
  /\ \/ /\ spec' \in Items(driver) /\ config' \in Configs(driver, spec')
        /\ << spec', config' >> # << spec, config >> /\ UNCHANGED destroy
     \/ destroy' = TRUE /\ current # NoState /\ UNCHANGED << spec, config >>
  /\ UNCHANGED << driver, current, aws, pc, op, local, dirty, failures >>

\* The engine dies in the middle of an operation.  (external)
Restart ==
  /\ pc # "idle" /\ failures > 0
  /\ failures' = failures - 1
  /\ Fail
  /\ UNCHANGED << user, aws >>

Plan == Create \/ Update \/ Delete

Serve ==
  \/ CreateRole \/ UpdateAssumeRolePolicy \/ GetRole \/ ListPolicies \/ AttachRolePolicy
  \/ Attached \/ DetachRolePolicy \/ Detached \/ ListPoliciesAgain \/ ListForDelete \/ DeleteRole
  \/ CreateSecurityGroup \/ ReadGroup \/ DescribeRules \/ RevokeSecurityGroupIngress
  \/ AuthorizeSecurityGroupIngress \/ DeleteSecurityGroup
  \/ CreateHostedZone \/ GetHostedZone \/ listRecordSets \/ ChangeResourceRecordSets
  \/ DeleteHostedZone
  \/ RegisterTaskDefinition \/ CreateService \/ UpdateService \/ DrainService
  \/ DeleteService \/ ScaleService
  \/ CreateDBInstance \/ ModifyDBInstance \/ DeleteDBInstance
  \/ CreateRepository \/ PutLifecyclePolicy \/ DescribeRepositories \/ DeleteRepository
  \/ CreateBucket \/ PutBucketVersioning \/ PutBucketEncryption \/ HeadBucket
  \/ GetBucketLocation \/ DeleteBucket
  \/ CreateCluster \/ UpdateClusterVersion \/ DescribeCluster \/ DeleteCluster
  \/ CreateReplicationGroup \/ ModifyReplicationGroup \/ DeleteReplicationGroup
  \/ CreateLoadBalancer \/ DescribeLoadBalancers \/ ModifyLoadBalancerAttributes
  \/ DeleteLoadBalancer
  \/ CreateVpc \/ DescribeVpcs \/ CreateTags \/ DeleteVpc
  \/ RequestCertificate \/ describeCert \/ DeleteCertificate
  \/ CreateApi \/ GetApi \/ UpdateApi \/ DeleteApi

Next == Plan \/ Serve \/ Scale \/ Edit \/ Restart

Spec == Init /\ [][Next]_vars

\* The engine carries on with what it planned, and requests are answered.
FairSpec == Spec /\ WF_vars(Plan \/ Serve)

-----------------------------------------------------------------------------
(***************************************************************************)
(* Properties.                                                             *)
(***************************************************************************)

\* Types; a resource that does not exist has no items, a service an image, and
\* policies are attached and detached only in the middle of an operation.
TypeOK ==
  /\ driver \in Drivers /\ spec \in Items(driver) /\ live \in Items(driver)
  /\ config \in Configs(driver, spec)
  /\ {destroy, exists, dirty} \subseteq BOOLEAN
  /\ current = NoState \/ current \in [printed : Items(driver), reordered : BOOLEAN]
  /\ ~exists => live = Nothing
  /\ exists /\ driver = "ecs" => live[Image] # Absent
  /\ put \subseteq Keys /\ drop \subseteq Keys
  /\ pc = "idle" <=> op = "none"
  /\ (put # {} \/ drop # {}) => pc \in {"attach", "detach"}
  /\ commands \in 0 .. MaxCommands /\ failures \in 0 .. MaxFailures

\* What is asked for and can be changed is there; nothing else is.
Contains == \A k \in Set(spec) \cap Changeable(driver) : live[k] = spec[k]
Exact    == live = spec

\* Update never takes away or changes what is there as the spec asks (but a
\* group loses all rules for a while: sg.go:118).
KeptStay ==
  [][op = "Update" /\ driver # "sg" =>
       \A k \in Set(spec) : live[k] = spec[k] => live'[k] = live[k]]_vars

\* Unless an operation has failed half done since, the record prints only what
\* is there, also a policy that a failed list hid from Update (iam.go:175 reads
\* it again) and an item whose key was deleted from the spec; and a resource with
\* nothing to update has what the keys of the spec ask for and the driver prints,
\* a role exactly its policies.
NoSilentDrift ==
  pc = "idle" /\ current # NoState /\ ~dirty =>
    /\ \A k \in Printed(driver) : current.printed[k] \in {live[k], Absent}
    /\ "items" \in config /\ ~Diff =>
         IF driver = "iam" THEN Exact
         ELSE \A k \in Set(spec) \cap Printed(driver) : live[k] = spec[k]

\* However often requests fail, the engine gets every recorded resource to what
\* the spec asks and an update can change, again and again (an update of a group
\* that could not revoke its rules is repaired by a later one).  Zones and
\* switches may keep what nobody asks for, and so may a role or group whose spec
\* has lost all keys (helpers.go:76); a resource whose spec was put back after a
\* failed update is not seen.
Reconciled ==
  \/ current = NoState \/ destroy
  \/ dirty /\ ~Diff
  \/ IF driver \in {"iam", "sg"} THEN config # {} => Exact ELSE Contains
StaysReconciled == []<>Reconciled

\* A recorded resource that is to be destroyed goes, also when policies could
\* not be listed or detached at first: Delete may be repeated.  (A zone with
\* records never goes: route53.go:179 deletes none of them.)
Destroyed == (destroy /\ driver # "dns") ~> ~exists
=============================================================================
