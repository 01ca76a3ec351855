-------------------------------- MODULE Resource --------------------------------
(***************************************************************************)
(* One AWS resource, the engine's record of it, and the operation of its   *)
(* driver that is running: what the modules of the drivers have in common. *)
(* An operation is a sequence of AWS requests; the engine records what a   *)
(* successful operation returns, and nothing of one that failed.           *)
(***************************************************************************)
EXTENDS Integers, FiniteSets

CONSTANTS
  Drivers,      \* the drivers to look at, of AllDrivers
  K1, K2,       \* the items of a resource
  Values,       \* values of an item
  Present,      \* the only value of a policy, rule or switch; the default of others
  Absent,       \* no such item
  NoState,      \* the engine has no record of the resource
  MaxCommands,  \* bound on what the user does
  MaxFailures   \* bound on failed requests and deaths of the engine

Keys     == {K1, K2}
Image    == K1  \* of a container service
Replicas == K2
Varying  == K1  \* of a resource with attributes: what Update can change,
Fixed    == K2  \* and what only Create sends

WithItems      == {"iam", "sg", "dns", "ecs"}
WithAttributes == {"rds", "ecr", "s3", "eks", "elasticache", "alb", "vpc", "acm", "apigw"}
AllDrivers     == WithItems \cup WithAttributes

ASSUME ResourceAssumption ==
  /\ Drivers \subseteq AllDrivers
  /\ K1 # K2 /\ Present \in Values /\ Absent \notin Values
  /\ MaxCommands \in Nat /\ MaxFailures \in Nat

\* What an item of driver d can be: Values only where the value matters.
ItemValues(d, k) ==
  (IF d \in {"iam", "sg", "s3"} THEN {Present}
   ELSE IF (k = Varying /\ d \in {"vpc", "acm"}) \/ (k = Fixed /\ d = "ecr") THEN {}
   ELSE Values) \cup {Absent}
Items(d) == {items \in [Keys -> Values \cup {Absent}] : \A k \in Keys : items[k] \in ItemValues(d, k)}
Nothing  == [k \in Keys |-> Absent]

\* The items with a value.
Set(items) == {k \in Keys : items[k] # Absent}

\* The keys of a config: that of the items, and one that no output prints (a
\* trust policy).  The items of these drivers have a key of their own that may be
\* left out; a bucket is encrypted then.  Those of the others are the keys.
Optional      == {"iam", "sg", "dns", "s3"}
Unasked(d)    == [k \in Keys |-> IF d = "s3" /\ k = Fixed THEN Present ELSE Absent]
Configs(d, items) ==
  {c \in SUBSET {"items", "other"} : "items" \in c \/ (d \in Optional /\ items = Unasked(d))}

\* The items that Update of driver d can change.
Changeable(d) == IF d \in WithItems THEN Keys ELSE {Varying}

\* The items that outputs hold under their name in the spec.  The records of a
\* zone are printed, but in the words of AWS and with its own.
iamOutputs         == Keys       \* policy_arns
sgToOutput         == {}
r53ZoneToOutput    == {}
ecsServiceToOutput == {}
rdsDBToOutput      == Keys       \* instance_class, engine_version
ecrRepoToOutput    == {}
s3BucketToOutput   == {}
eksClusterToOutput == {Varying}  \* version
ecRGToOutput       == {Fixed}    \* description
albLBToOutput      == {Fixed}    \* scheme
vpcToOutput        == {Fixed}    \* cidr
acmCertToOutput    == {Fixed}    \* domain_name
apigwAPIToOutput   == {Fixed}    \* protocol
Printed(d) ==
  CASE d = "iam" -> iamOutputs          [] d = "sg"  -> sgToOutput
    [] d = "dns" -> r53ZoneToOutput     [] d = "ecs" -> ecsServiceToOutput
    [] d = "rds" -> rdsDBToOutput       [] d = "ecr" -> ecrRepoToOutput
    [] d = "s3"  -> s3BucketToOutput    [] d = "eks" -> eksClusterToOutput
    [] d = "elasticache" -> ecRGToOutput
    [] d = "alb" -> albLBToOutput       [] d = "vpc" -> vpcToOutput
    [] d = "acm" -> acmCertToOutput     [] d = "apigw" -> apigwAPIToOutput

VARIABLES
  driver,    \* the driver of the resource
  spec,      \* the items the user asks for
  config,    \* the keys that the spec has
  destroy,   \* the user wants the resource destroyed
  current,   \* the engine's record: the output of the last success, or NoState
  exists,    \* AWS: the parent exists
  live,      \* AWS: its items
  pc,        \* the request that is sent next
  op,        \* the operation that is running
  put,       \* IAM: policies the operation still has to attach
  drop,      \* IAM: policies it still has to detach
  dirty,     \* an operation has ended half done since the last success
  commands, failures

aws   == << exists, live >>
local == << put, drop >>
user  == << driver, spec, config, commands >>
vars  == << user, destroy, current, aws, pc, op, local, dirty, failures >>

-----------------------------------------------------------------------------
\* What a driver prints of the items; the policies that AWS lists may come in
\* another order than those of the spec.
Output(items, order) ==
  [printed |-> [k \in Keys |-> IF k \in Printed(driver) THEN items[k] ELSE Absent],
   reordered |-> order]

\* diffOutputs: a key of the spec that the output has not, or that prints
\* another text.  A key that the spec has not is not compared, so that what it
\* once asked for stays.  The records of a zone include its own.
Diff ==
  \/ "other" \in config
  \/ "items" \in config /\ driver = "iam" /\ current # Output(spec, FALSE)
  \/ "items" \in config /\ driver \in {"sg", "dns", "s3"}
  \/ /\ driver \notin Optional
     /\ \E k \in Set(spec) : k \notin Printed(driver) \/ current.printed[k] # spec[k]

Begin(o, q) ==
  /\ pc = "idle" /\ pc' = q /\ op' = o
  /\ UNCHANGED << user, destroy, current, aws, local, dirty, failures >>

Goto(q) == pc' = q /\ UNCHANGED << op, local, destroy, current, dirty >>

Return == pc' = "idle" /\ op' = "none" /\ put' = {} /\ drop' = {}

Succeed(output) ==
  /\ Return
  /\ current' = output /\ dirty' = FALSE
  /\ destroy' = (destroy /\ output # NoState)

Fail == Return /\ dirty' = TRUE /\ UNCHANGED << destroy, current >>

\* AWS refuses a request that is not possible; any request may fail in transit,
\* carried out or not.  (external)
Request(possible, effect, ok, error) ==
  /\ \/ possible /\ effect /\ ok /\ UNCHANGED failures
     \/ ~possible /\ UNCHANGED aws /\ error /\ UNCHANGED failures
     \/ /\ failures > 0
        /\ failures' = failures - 1
        /\ UNCHANGED aws \/ (possible /\ effect)
        /\ error
  /\ UNCHANGED user

Look(possible, ok, error) == Request(possible, UNCHANGED aws, ok, error)

\* What AWS does.  (external)
Make(items)  == exists' = TRUE /\ live' = items
Remove       == exists' = FALSE /\ live' = Nothing
Give(items)  == live' = items /\ UNCHANGED exists
With(k, v)   == [j \in Keys |-> IF j = k THEN v ELSE live[j]]
Over(items)  == [k \in Keys |-> IF items[k] # Absent THEN items[k] ELSE live[k]]
=============================================================================
