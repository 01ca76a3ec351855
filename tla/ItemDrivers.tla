------------------------------- MODULE ItemDrivers ------------------------------
(***************************************************************************)
(* Resources made of a parent and items that Update reconciles: an IAM     *)
(* role and its attached policies (drivers/iam.go), a security group and   *)
(* its ingress rules (sg.go), a hosted zone and its records (route53.go),  *)
(* a container service with its image and replicas (ecs.go).               *)
(*                                                                         *)
(* Abstracted: the other parts of these resources, which are set when they *)
(* are made and never compared.                                            *)
(***************************************************************************)
EXTENDS Resource

\* Elements in a that are not in b.
diffSlice(a, b) == a \ b

-----------------------------------------------------------------------------
(***************************************************************************)
(* IAM roles.                                                              *)
(***************************************************************************)

CreateRole ==
  /\ pc = "create role"
  /\ Request(~exists, Make(Nothing),
             /\ pc' = "attach" /\ put' = Set(spec)
             /\ UNCHANGED << op, drop, destroy, current, dirty >>,
             Fail)

\* Update sends the trust policy first, if the spec has one.
UpdateAssumeRolePolicy ==
  /\ pc = "trust"
  /\ Look(exists, Goto("get role"), Fail)

\* Read is GetRole and ListAttachedRolePolicies; Update reads first and last.
GetRole ==
  /\ pc \in {"get role", "get role again"}
  /\ Look(exists, Goto(IF pc = "get role" THEN "list policies" ELSE "list policies again"), Fail)

\* (faulty variant) All policies are detached and not only the stale ones.
ListPoliciesDetachAll ==
  /\ pc = "list policies" /\ op = "Update"
  /\ Look(exists,
          /\ pc' = "attach"
          /\ put' = diffSlice(Set(spec), Set(live)) /\ drop' = Set(live)
          /\ UNCHANGED << op, destroy, current, dirty >>,
          /\ pc' = "attach" /\ put' = Set(spec)
          /\ UNCHANGED << op, drop, destroy, current, dirty >>)

\* An error of the list counts as an empty list.
ListPolicies ==
  /\ pc = "list policies" /\ op = "Update"
  /\ Look(exists,
          /\ pc' = "attach"
          /\ put' = diffSlice(Set(spec), Set(live)) /\ drop' = diffSlice(Set(live), Set(spec))
          /\ UNCHANGED << op, destroy, current, dirty >>,
          /\ pc' = "attach" /\ put' = Set(spec)
          /\ UNCHANGED << op, drop, destroy, current, dirty >>)

AttachRolePolicy ==
  /\ pc = "attach"
  /\ \E k \in put :
       Request(exists, Give(With(k, Present)),
               put' = put \ {k} /\ UNCHANGED << pc, op, drop, destroy, current, dirty >>,
               Fail)

\* Create returns what was asked for, Update goes on.
Attached ==
  /\ pc = "attach" /\ put = {}
  /\ IF op = "Create" THEN Succeed(Output(spec, FALSE)) ELSE Goto("detach")
  /\ UNCHANGED << user, aws, failures >>

\* Delete ignores errors here.
DetachRolePolicy ==
  /\ pc = "detach"
  /\ \E k \in drop :
       LET Next1 == drop' = drop \ {k} /\ UNCHANGED << pc, op, put, destroy, current, dirty >>
       IN Request(exists /\ live[k] # Absent, Give(With(k, Absent)), Next1,
                  IF op = "Delete" THEN Next1 ELSE Fail)

Detached ==
  /\ pc = "detach" /\ drop = {}
  /\ Goto(IF op = "Delete" THEN "delete role" ELSE "get role again")
  /\ UNCHANGED << user, aws, failures >>

\* (faulty variant) Update returns what was asked for.
ListPoliciesAgainAssumed ==
  /\ pc = "list policies again"
  /\ Look(exists, Succeed(Output(spec, FALSE)), Succeed(Output(spec, FALSE)))

\* The output of Update; without a list it has no policies.
ListPoliciesAgain ==
  /\ pc = "list policies again"
  /\ \E reordered \in {FALSE, Cardinality(Set(live)) > 1} :
       Look(exists, Succeed(Output(live, reordered)), Succeed(Output(Nothing, TRUE)))

\* (faulty variant) Delete does not detach the policies.
ListForDeleteOnly ==
  /\ pc = "list policies" /\ op = "Delete"
  /\ Look(exists, Goto("detach"), Goto("detach"))

ListForDelete ==
  /\ pc = "list policies" /\ op = "Delete"
  /\ Look(exists,
          pc' = "detach" /\ drop' = Set(live) /\ UNCHANGED << op, put, destroy, current, dirty >>,
          Goto("detach"))

\* A role with policies cannot be deleted.
DeleteRole ==
  /\ pc = "delete role"
  /\ Request(exists /\ live = Nothing, Remove, Succeed(NoState), Fail)

-----------------------------------------------------------------------------
(***************************************************************************)
(* Security groups.  CreateTags, whose errors are ignored, is left out.    *)
(***************************************************************************)

CreateSecurityGroup ==
  /\ pc = "create group"
  /\ Request(~exists, Make(Nothing),
             IF Set(spec) = {} THEN Succeed(Output(Nothing, FALSE)) ELSE Goto("authorize"),
             Fail)

\* Read by the recorded id, before Update and Delete.
ReadGroup ==
  /\ pc = "read group"
  /\ Look(exists, Goto(IF op = "Delete" THEN "delete group" ELSE "describe rules"), Fail)

Reapply == IF Set(spec) = {} THEN Succeed(Output(Nothing, FALSE)) ELSE Goto("authorize")

\* (faulty variant) The rules that are there are not revoked.
DescribeRulesOnly ==
  /\ pc = "describe rules"
  /\ Look(exists, Reapply, Reapply)

\* An error counts as a group without rules.
DescribeRules ==
  /\ pc = "describe rules"
  /\ Look(exists, IF live # Nothing THEN Goto("revoke") ELSE Reapply, Reapply)

\* All rules at once; errors are ignored.
RevokeSecurityGroupIngress ==
  /\ pc = "revoke"
  /\ Request(exists, Give(Nothing), Reapply, Reapply)

\* All rules at once, refused if the group has one of them.
AuthorizeSecurityGroupIngress ==
  /\ pc = "authorize"
  /\ Request(exists /\ Set(spec) \cap Set(live) = {}, Give(Over(spec)),
             Succeed(Output(Nothing, FALSE)), Fail)

DeleteSecurityGroup ==
  /\ pc = "delete group"
  /\ Request(exists, Remove, Succeed(NoState), Fail)

-----------------------------------------------------------------------------
(***************************************************************************)
(* Hosted zones.                                                           *)
(***************************************************************************)

\* The records of the spec are left to the first update.
CreateHostedZone ==
  /\ pc = "create zone"
  /\ Request(~exists, Make(Nothing), Succeed(Output(Nothing, FALSE)), Fail)

\* Read is GetHostedZone and ListResourceRecordSets, and fails with either.
GetHostedZone ==
  /\ pc \in {"get zone", "get zone again"}
  /\ Look(exists, Goto(IF pc = "get zone" THEN "list records" ELSE "list records again"), Fail)

listRecordSets ==
  /\ pc \in {"list records", "list records again"}
  /\ Look(exists,
          IF pc = "list records again" THEN Succeed(Output(live, TRUE))
          ELSE Goto(IF op = "Delete" THEN "delete zone"
                    ELSE IF Set(spec) = {} THEN "get zone again" ELSE "change"),
          Fail)

\* One batch of upserts: nothing is deleted.
ChangeResourceRecordSets ==
  /\ pc = "change"
  /\ Request(exists, Give(Over(spec)), Goto("get zone again"), Fail)

\* A zone with records cannot be deleted.
DeleteHostedZone ==
  /\ pc = "delete zone"
  /\ Request(exists /\ live = Nothing, Remove, Succeed(NoState), Fail)

-----------------------------------------------------------------------------
(***************************************************************************)
(* Container services.                                                     *)
(***************************************************************************)

\* The container a task definition runs, its environment, secrets and ports
\* abstracted.
containerDefinition(s) == s[Image]

\* Create, and Update if the spec has an image, register it first.
RegisterTaskDefinition ==
  /\ pc = "register"
  /\ Look(TRUE, Goto(IF op = "Create" THEN "create service" ELSE "update service"), Fail)

\* A spec without replicas gets one.
CreateService ==
  /\ pc = "create service"
  /\ Request(~exists,
             Make([k \in Keys |-> IF k = Image THEN containerDefinition(spec)
                                  ELSE IF spec[k] = Absent THEN Present ELSE spec[k]]),
             Succeed(Output(Nothing, FALSE)), Fail)

\* What the spec does not name stays.
UpdateService ==
  /\ pc = "update service"
  /\ Request(exists, Give(Over(spec)), Succeed(Output(Nothing, FALSE)), Fail)

\* Delete asks for no replicas first and ignores errors.
DrainService ==
  /\ pc = "drain service"
  /\ Request(exists, Give(With(Replicas, Absent)), Goto("delete service"), Goto("delete service"))

DeleteService ==
  /\ pc = "delete service"
  /\ Request(exists, Remove, Succeed(NoState), Fail)

\* Scale changes the service behind the record.
ScaleService ==
  /\ pc = "scale service"
  /\ \E replicas \in Values :
       Request(exists, Give(With(Replicas, replicas)),
               Return /\ UNCHANGED << destroy, current, dirty >>,
               Return /\ UNCHANGED << destroy, current, dirty >>)
===============================================================================
