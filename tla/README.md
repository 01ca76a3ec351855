# Verification of workflow-plugin-aws

TLA+ models of the stateful parts of `workflow-plugin-aws`, TLC configurations
that check them on small instances, and TLAPS proofs about the state store and
its lock, the provider and the rest of the plugin process. Paths below are those of the repository.

`PROJECT.json` lists the components, the runs, a mutant for every checked
property, the lines every definition stands for, the findings, the hazards and
the theorems.

## The system

The plugin is a process beside the workflow engine, which calls it over gRPC.

| Part | Source | State | Operations |
|---|---|---|---|
| S3 state store | `internal/statebackend/s3.go` | a record object and a lock object per resource, in one bucket | GetState, SaveState, ListStates, DeleteState, Lock, Unlock |
| State backend server | `internal/statebackend_server.go` | the store, under a mutex | Configure and the state RPCs |
| Provider | `provider/provider.go` | configuration, drivers, clients, `initialized`, under an RWMutex | Initialize, Close, Plan, Destroy, Status, DetectDrift, Import, driver lookup |
| Job runner | `provider/runner.go` | none of its own; ECS tasks and logs | RunJob, JobStatus, JobLogs |
| Ownership | `provider/ownership.go` | resource tags | GetOwner, SetOwner, ListOwners by pages |
| Region lister | `internal/region_lister.go` | none | ListRegions |
| ECS deployment driver | `drivers/deploy.go` | names and target groups of stable, green and canary, in memory | blue/green and canary operations |
| Auto Scaling driver | `drivers/autoscaling_group.go` | scalable target and policies in AWS | Create, Read, Update, Delete, Diff |
| Drivers of items | `drivers/iam.go`, `sg.go`, `route53.go`, `ecs.go` | a parent with policies, rules, records, replicas in AWS | Create, Read, Update, Delete, Diff, Scale |
| Drivers of attributes | `drivers/rds.go`, `ecr.go`, `s3.go`, `eks.go`, `elasticache.go`, `alb.go`; by id `vpc.go`, `acm.go`, `apigateway.go` | one AWS resource each | Create, Read, Update, Delete, Diff |
| Mock driver | `provider/mock_driver.go` | resources in memory | the same |
| Credential registry | `internal/credref`, `internal/modules/aws_credentials.go` | credentials by name, process-wide | Register, Resolve |
| AWS configuration | `internal/awscreds` | none; a session of STS | BuildAWSConfig |
| Storage module | `internal/modules/storage_s3.go` | an S3 client between Start and Stop, under a mutex | Start, Stop, Put, Get, Delete |
| Steps | `internal/steps` | the credentials (upload) or the config (download) they were created with | Execute |
| Requirement mapper | `internal/iacserver_mapper.go` | none | MapRequirements |

The engine plans with Diff against what it has recorded, applies the plan
through the drivers, and keeps its records in the state store under the store's
lock. gRPC handlers run concurrently; several hosts share a bucket and nothing
else. The engine, the hosts and the deployment strategies are not in this
repository: they appear as environments that use the interfaces as the
repository's tests and comments do.

What is hard here:

* **Every AWS request may fail after it was carried out.** An operation is
  several requests, nothing is rolled back, and the SDK repeats a request that
  got no answer.
* **The lock is an object in a bucket.** It is advisory, has no owner and no
  expiry; Unlock looks first and deletes later.
* **Listings are not atomic.** Pages are taken while others write.
* **Transient state in memory.** A restart forgets green and canary.
* **Records are what an operation returned, not what AWS has.**
* **Handlers work on what they read before they gave the lock back.**
* **Names are resolved at different times.** A storage module and an upload step
  resolve credentials when they are created, a download step when it runs.
* **A role's session is frozen** in the client that was made with it.

What makes each part correct is stated in its module under "Properties".

## Modules

| Module | Models | Notes |
|---|---|---|
| `S3StateStore` | s3.go behind the state RPCs | every HTTP request is a step; lost requests, SDK retries, crashes; arbitrary callers |
| `StateSession` | hosts that lock, read, save or delete, unlock | extends `S3StateStore` and constrains only when a call is made |
| `ExclusiveLock` | an atomic lock per resource that only its owner releases | abstract specification that `StateSession` implements |
| `StateSessionProofs` | theorems | the store under arbitrary callers and under hosts |
| `ECSDeploy` | deploy.go with ECS, ELB and the rollout of tasks | every request is a step; any order of operations; restarts |
| `DeployStrategy` | rolling, blue/green and canary strategies | extends `ECSDeploy`; the order of `drivers/deploy_test.go` |
| `Rollout` | what users of a service see | abstract specification: one version serves, and it is running |
| `ECSDeployProofs`, `BlueGreenProofs`, `StrategyProofs` | theorems | any operations in any order; blue/green alone; all strategies |
| `AutoScaling` | autoscaling_group.go under Plan, Import and Destroy of provider.go | the engine records only successes; specs change |
| `AutoScalingProofs` | theorems | without hypotheses, and with one page |
| `Resource` | one resource, its record in the engine, requests, Diff, outputs | what the next three share |
| `ItemDrivers` | iam.go, sg.go, route53.go, ecs.go | operations of several requests; ignored errors |
| `AttributeDrivers` | the nine other drivers | one or two requests per operation |
| `ResourceDrivers` | the engine over all of these: Create, Update, Delete, edits, Scale, restarts | composes the two |
| `ResourceDriversProofs` | theorems | all thirteen drivers |
| `Provider` | provider.go, runner.go, ownership.go, region_lister.go, mock_driver.go, concurrent handlers | the RWMutex, in-flight handlers, ECS task, pages of logs and of owners |
| `ProviderProofs` | theorems | what the provider is and what it answers |
| `Process` | what the handlers of the rest of the process have in common | arrival and end of a call, failed requests |
| `Storage` | credref, awscreds, the storage module, the two steps | the registry, the module's mutex, STS |
| `StateBackend` | statebackend_server.go with several locations of a store | Configure beside hosts that lock and unlock |
| `RequirementMapper` | iacserver_mapper.go | operators: accepted requirements, the derived collector |
| `PluginProcess` | the process beside its provider | composes the last three |
| `PluginProcessProofs` | theorems | identities, the mapper, locks across Configure, sessions of roles |
| `MC...` | instances for TLC | |

State and actions keep the names of the code. In `S3StateStore`, `pc[c]` is the
request a call sends next, `arg[c]` its arguments, `listing[c]` the local
variables of ListStates, `records` and `locks` the two kinds of objects.
GetState, SaveState, ListStates, DeleteState, Lock and Unlock begin a call;
GetObject, PutState, ListPage, ListGet, HeadState, RemoveState, PutLock,
HeadLock and RemoveLock carry out its requests. In `ECSDeploy` the six name
fields of the driver are variables and `Request` gives every request its three
outcomes: accepted, refused by AWS, failed in transit (carried out or not).
`AutoScaling` and `Resource` use the same form; `current` is the engine's record
and `dirty` says that an operation ended half done since. In `ItemDrivers` and
`AttributeDrivers` every action is named for its AWS request. In `Provider` a
step under `writer = None` is a section between RLock and RUnlock, and `call[t]`
holds what a handler took out of it. In `PluginProcess` an action with the name
of a method is its first step, `mutex[i]` the mutex of a storage module, and
`stopped` and `moved`, in `AutoScaling` `applied`, and in `S3StateStore` `mover`
are observers that no guard reads.

Definitions marked *(faulty variant)* are not used by any specification: they
are the bugs that the mutants in `PROJECT.json` put in place of the definition
after them, to show that each property can fail.

### Abstractions

* A record is its ID, status and a revision; S3 keys are numbers in listing
  order; the JSON is left out. `sanitizeID` is a constant function, so that two
  IDs may share a name; the runs use an injective one.
* Names of services are sequences of parts, target group ARNs the name they were
  made from; task counts are 0 or 1. AWS is assumed to accept the target group
  and its service although the code gives neither VPC nor listener.
* A policy is its name, what the fingerprint prints of it, and what it does not;
  a spec has its policies at places 1, 2, ..., and a role_arn or none, of which
  AWS keeps the one it has. A log event is its place and whether it has a message;
  the chunk EOF is the successful reply.
* A resource of `Resource` has two items: two policies, rules or records, image
  and replicas, or one attribute that Update can change and one that only Create
  sends (`AttributeDrivers` lists them). Of outputs only the items count that
  hold a key of the spec. A spec also says which keys it has (`config`): that of
  the items may be missing where the code has a default for it, and one more
  stands for keys that no output prints. AWS takes a value at once.
* An AWS account with its clients is a *world*; of a resource only its existence
  and its owner matter to `Provider`.
* Credentials are what they identify: whose keys, role or profile, and the region.
  A client is the same, and the session of a role a number that STS counts up.
* In `StateBackend` a store is where its objects are (endpoint, bucket and prefix
  together), and all calls are about one resource: `S3StateStore` models the store's requests one by one, and records. The host
  that locks is the one that unlocks.
* A collector is what the string of its configuration declares and refers to:
  exporters, pipelines, variables, ports.
* Storage, state and mapper of `PluginProcess` share no variable. A behaviour
  therefore spends its calls on one of them (`Budgets`), and the proofs are for
  any mixture.

## What the runs check

| Run | Question | Bounds |
|---|---|---|
| `s3_calls` | Is a listing complete, but for what it could not read, and free of duplicates while another caller saves, deletes and locks? | 2 callers, 2 resources, pages of 2 keys (4 keys, so there are two pages and pages without a record), one lost request or body of an answer, one SDK retry |
| `sessions` | Do sessions exclude each other and lose no update, is the store an `ExclusiveLock` that nobody but its owner releases, are locks given back and refused only when owned? | 2 hosts, 2 resources, 3 revisions, 2 losses, 1 crash, no SDK retry |
| `session_retry` | (violation) the same with an SDK retry | 1 loss, 2 attempts |
| `ecs_bluegreen` | Does blue/green implement `Rollout`: is one version served, and is it running? | 3 images, 3 failures, with or without effect, or restarts, 2 generations of names, a configured group or none |
| `ecs_failures` | Is traffic served, is nothing orphaned, does a switched deployment end, for all strategies? | 2 images, 2 failures without effect of every request but the two of the findings, a configured group or none |
| `ecs_any_calls` | Are promotion and removal of a canary complete after any sequence of operations? | 2 images, 1 failure, with or without effect, or restart |
| `ecs_destroy_canary` | (violation) does DestroyCanary take the traffic away first? | 1 failure |
| `ecs_retry_destroy_blue` | (violation) does DestroyBlue end when it is repeated? | 1 failure |
| `asg_engine` | Does the engine's reconciliation end with AWS as the spec says, deleting only what it must? What does a plan without an action say of AWS? | 14 specs that differ also in roles and in details no fingerprint prints, 2 targets, 3 commands of the user, 2 failures, 1 restart |
| `resources` | Does every resource get to what the spec asks and go when it is destroyed, although requests fail and drivers ignore some errors? Is what the record prints there? Does what stays stay during an update? | 13 drivers, 2 items, 2 values, keys of the spec given or not, 2 commands of the user, 2 failures or restarts |
| `provider` | Do concurrent handlers see one configuration, and does none but an Initialize that asks STS keep the lock? Are logs, listings of owners and verdicts true? | 2 handlers, of which one or both initialize and close, 4 calls, 2 accounts, bad credentials and mock, lists of 1 or 3 resources, 2 owners, 1 failure, 2 log events |
| `plugin_process` | Does everyone who names a credentials module use the same credentials, with sessions as new as can be? Does Configure take nobody's lock away? Is what the mapper accepts served? Does every call end? | 2 handlers; 6 calls of modules and steps, 8 of the state server or 1 of the mapper; 1 failure, 5 inputs and 4 configs of credentials, 2 locations of the store, all sets of up to two of 45 requirements |

The bounds are small because each hazard needs two actors and one or two faults:
a lock changes hands between two hosts; a page boundary needs three keys; a
half-done operation needs one failure and a second one to disturb its
repetition; a Stop overtakes one Start; a Close waits behind one Initialize; a
store moves with one Configure. CHECK_DEADLOCK is off in `asg_engine`, `resources`, `provider` and
`plugin_process`, where the user may be content and all calls answered, and
every other model may also stop only where the code does.

### Fairness

* `FairSessionSpec`: the next request of a call is sent and answered (a handler
  has its own goroutine; losses are bounded), and a host in a session unlocks in
  the end. Nothing makes a host begin one.
* `FairStrategySpec`: requests are answered, and a strategy that switched traffic
  calls DestroyBlue again until it succeeds.
* `FairSpec` of `AutoScaling`: a plan that has an action is applied.
* `FairSpec` of `ResourceDrivers`: the same, and requests are answered.
* `FairSpec` of `Provider`: only taking a lock that is free (`TakesLock`). No
  request is ever answered for sure, neither one of a driver nor that of
  Initialize to STS, for which the code has no timeout and during which it keeps
  the write lock. `LockIsFree` therefore says that whoever waits for the lock for
  ever waits for *such* an Initialize, and not for a handler that talks to AWS.
* `FairSpec` of `PluginProcess`: the steps of a call that arrived. A step that
  waits for a mutex is not enabled; that it is again, in the end, is the
  question of `CallsEnd`.

### Findings

1. `session_retry`: Unlock deletes the lock object unconditionally
   (`s3.go:378`). The answer of DeleteObject is lost, another host locks, the
   SDK repeats the DeleteObject: two hosts hold the lock.
2. `ecs_destroy_canary`: DestroyCanary ignores the error of ModifyListener
   (`deploy.go:513`) and deletes the service that still gets traffic.
3. `ecs_retry_destroy_blue`: DestroyBlue that failed at DeleteTargetGroup cannot
   get past DeleteService again (`deploy.go:319`); green is never promoted.

Further differences met while modelling, for which there is no run:

* ListStates skips an object it cannot read and succeeds (`s3.go:287`, `:290-294`),
  while the interface says that it "returns all state records" (`s3.go:60`). An
  answer whose body breaks off is enough: the SDK repeats requests, not the
  reading of a body. `ListExact` says that nothing else is missing, and that no
  more is skipped than was lost.
* CreateGreen does not register the target group with the listener
  (`deploy.go:229-230` says so).
* CurrentImage answers with the image of the task definition, which need not be
  "currently running" (`deploy.go:186`).
* `sanitizeID` maps different IDs to one name (`s3.go:73`).
* A PutObject with If-None-Match that the SDK repeats is refused by its own first
  attempt (`s3.go:346`): Lock fails and the lock stays.
* Every Configure makes a new store, although the store is said to come with "the
  guard that builds it once" (`statebackend_server.go:32-33`). This is
  harmless as long as no session sees its store move (`SessionsSurviveConfigure`);
  after a Configure with another endpoint, bucket or prefix the Unlock of a
  session goes there, its lock stays, and another host may get the new one.
* The credential registry forgets no name (`registry.go:31`): a configuration
  cannot be loaded twice into one process, although modules can be stopped.
* A started storage module keeps the session of its role until Stop, also when it
  has expired (`awscreds.go:145`).
* Signals and backends have a default only if *no* accepted requirement names one,
  and all signals are combined with all backends (`iacserver_mapper.go:155-185`).
  A requirement for traces in Loki alone is accepted and gets no pipeline
  (`:211-223`, `:252-255`); a collector for nothing else has none at all, and
  such a collector does not start. `MapperCovers` says exactly when.
* SetOwner takes a TagResources that lists its resource among the failed ones for
  a success (`ownership.go:65`).
* ListRegions asks AWS also in mock mode (`region_lister.go:48`).
* The fingerprint of a policy leaves out the bounds of step adjustments
  (`autoscaling_group.go:418`), though its comment (`:237-238`) claims otherwise;
  a change of one is never applied. Neither is a change of role_arn, which Create
  and Update send (`:78`, `:168`) and neither the output nor Diff (`:263`) knows.
  Of both `NoSilentDrift` says only that what was applied last stays.
* Diff compares the keys that the spec has (`helpers.go:76`). A role without
  policy_arns any more keeps its policies, a security group its rules, a zone its
  records, and no plan finds anything to update; `NoSilentDrift` and
  `Reconciled` say what holds of specs that keep the key.
* Initialize asks STS under the provider's lock (`provider.go:88`, `:142`,
  `awscreds.go:137`), without a timeout: while STS does not answer nothing else
  gets in, Close included. It also changes the region before it can fail
  (`provider.go:96`); no handler reads that region.
* desiredPolicyNames says that malformed entries are skipped
  (`autoscaling_group.go:462`); one of them makes the list empty.
* Undoing an edit after a failed Update of a scaling target leaves AWS half
  changed: Diff compares with the old record and finds nothing to do. (`dirty`
  in `NoSilentDrift` stands for this.)
* Deregistering a target whose answer was lost makes every later Delete fail.
* Delete of a zone leaves its records, and AWS refuses it (`route53.go:179`).
* Items that Diff compares and outputs do not print (rules, replicas, image,
  node_type, lifecycle_policy), or that Update never sends (cidr, scheme,
  engine_version), are planned as a change on every plan. A cluster that differs
  in such a key is updated to the version it has, which AWS refuses.
* Create of a network, certificate or API whose answer is lost makes a second
  one; one of the other kinds that fails half way is refused for ever.
* DetectDrift reports every failed Read as drift of "existence"
  (`provider.go:405-411`).
* A task without an exit code that is still deprovisioning is reported as failed
  (`runner.go:348-351`) and may be reported as succeeded later.

## What is proved

All proofs are for any values of the constants that satisfy the assumptions of
the modules, which TLC evaluates in the runs: any number of hosts, handlers,
resources, modules and stores, of losses, crashes and calls. Each proof has a
lemma per action; actions that leave alone what an invariant is about share one.
Every invariant and every action property of a passing run is a theorem, some
under a hypothesis about constants that the theorem names:

| Hypothesis | Says | Theorems | Without it |
|---|---|---|---|
| `NoRepeat` | the SDK makes one attempt, or loses nothing | about locks and sessions, not `LockIsRefusedOnlyWhenOwned` | `session_retry` is the counterexample |
| `OnePage` | one page of DescribeScalingPolicies holds the policies of a target | `TargetGoesLast`, `SuccessIsExact`, `NothingDrifts` of `AutoScalingProofs` | the token is not followed (`autoscaling_group.go:433`) |
| `Repairable` | no answer is lost and "restore listener", "delete blue group" and the process do not fail | `NothingIsOrphaned`, `EveryStrategyServes` | `ecs_destroy_canary`, `ecs_retry_destroy_blue`; names forgotten by a restart |
| only blue/green | `Strategies` is no more than that | `BlueGreenProofs` | a canary is another version |

The runs of these properties choose constants that satisfy the hypotheses.

`StateSessionProofs`, the state store:

* `TypeCorrect`, `SessionTypeCorrect`: the type invariant of the store under
  arbitrary callers and under the hosts.
* `LockOwnership`: `OwnershipInv` is inductive. Mutual exclusion alone is not:
  while a host removes its lock it holds nothing and the object is still there.
  An owner of a lock object is therefore a client that holds it *or is about to
  remove it*; an object has at most one owner, is there as long as it has one,
  and a host that locks or unlocks holds no lock.
* `SessionsExcludeEachOther`: `MutualExclusion` and `LockOutlivesOthers` follow.
* `UpdatesAreNotLost`: `SessionInv` (what a session is about to replace is what
  it read) is inductive relative to `OwnershipInv`; `NoLostUpdate` follows.
* `StoreImplementsLock`: every step of the store under the hosts is an Acquire, a
  Release, an Abandon or a stutter of `ExclusiveLock`, under the mapping `ownerOf`:
  free if there is no object, the owner if there is one, abandoned otherwise.
  Release is a step of the owner, and `mover` says whose request a step was: it is
  mapped to the client whose request S3 carried out, so that a delete by another
  host, though it frees the lock as well, is no step of the abstract lock.
* `LockIsRefusedOnlyWhenOwned`: `RefusedOnlyWhenOwned` needs the converse of
  `LockOwnership`, that every lock object has an owner. It holds until the first
  loss or crash (`CalmInv`), and then, as nothing is repeated without a loss, for
  any number of attempts.
* `ListingsAreExact`: `ListExact` speaks of a listing that is over; `ListInv` says
  of one that runs what it is *done with* (`Past`: the key is not after the token,
  and not among those of the page still to be read). It has found every record it
  watches that it is done with and did not skip, and nothing else; it has skipped
  no more than was lost. Nothing is assumed of losses or the SDK. A page covers the keys between
  two tokens (`PageCovers`), so that the last one leaves nothing.

`ProviderProofs`, the provider under concurrent handlers:

* `LockExcludes`: a handler has the write lock exactly while it looks up
  credentials, and nobody reads meanwhile.
* `ProviderIsConsistent`, `JobsAreFound`: `OneConfiguration` and
  `HandleFindsTask` are inductive only together with `LockInv`, with what a
  handler took along (`CallOK`: client and configuration of a job are of one
  account) and with the fact that a mock world has the number of a call that
  has begun, so that a new one is never an old one.
* `TypesHold`: `TInv` relates the place of a handler to the shape of its call and
  its reply.
* `DestroyTellsTheTruth`: `DestroyedIsGone`, from the shape of the call.
* `VerdictIsTrue`: `VerdictTrue` needs `JobInv`: where a task is asked about
  there is one, a reported exit code is that of its container, and a stopped task
  has reported the code if its container ever ran.
* `OwnersAreListed`: `OwnersComplete` from `OwnersInv`: a listing has entries of
  what it has read and of nothing it has still to read, which is why no page
  brings a second one; what had an owner keeps one (`TagsStay`), and the client
  is the listing's own, whatever becomes of the provider.
* `LogsAreWhole`: `LogsComplete` from `LogsInv`: the sink has the messages up to
  where the reader is, in order, and the log only grows. A repeated token means
  the end because the others differ from the one before (`RepeatedAtEnd`).
* `NobodyElseAnswers` serves these three: no other step ends such a call.

`PluginProcessProofs`, the rest of the process:

* `EveryoneIsTheSame`: `IInv` adds to `OneIdentity` that a running call for a
  storage module works with what the module has, and that configs are configs;
  the step is that of Register, which never changes what a name resolves to.
* `MapperServes`: no induction is needed. `CollectorConsistent`, `CollectorServes`,
  `CollectorSatisfies` and `CollectorStarts` are facts about the mapper's five
  tables for any set of requirements. (TLC enumerates pairs.) A pair of a signal
  and a backend that accepted requirements ask for is served *if and only if* that
  backend carries the signal, and the collector has a pipeline if and only if
  there is such a pair.
* `LocksSurvive`: `SessionsSurviveConfigure` follows from `SInv`, where `Located`
  holds in any case (calls, locks and sessions are about stores that Configure
  named) and `Own` until a session sees its store move: whoever is about to
  remove a lock object owns it as well, and every session is in the store there is.
* `SessionsAreNew`: `FInv` says of a session on its way from STS what
  `FreshSessions` says of one that is used. That Stop cannot come in between
  needs the mutex: it is held exactly by the Start that builds a client.
* `TypesHold`: from the invariants of the other three.

`AutoScalingProofs`, the driver of scaling targets and policies:

* `InvariantHolds`: `IInv` needs no hypothesis. `AwsOK` is about what is live;
  `ControlOK` about which request of which operation is next; `SyncOK` about an
  operation that is half done: the target is as the spec says, nothing the spec
  names is to be deleted, policies are put in their order, and of those that were
  put the last of every name is in place. Without the order the last would not
  win, and without the last a spec that names a policy twice would break it.
* `TypesHold`, `NothingDesiredIsDeleted` (`DeletesOnlyStale`) and
  `EverythingNamedIsPut`, whatever part of the live policies was seen.
* `TargetGoesLast` (`DeregisterLast`), `SuccessIsExact` (`AppliedExactly`): with
  `PageOK` no live policy is left out.
* `NothingDrifts`: `NoSilentDrift` is not inductive: it speaks of the spec of the
  moment, and the user may undo an edit. `RecordOK` says it of *every* spec in
  which Diff finds nothing to change; it rests on `SameFingerprint`, that two
  specs with one fingerprint have the same last policy for every name. That is an
  induction over the number of policies, done with the least number of a set
  (`LeastNumber`), for which a spec holds its policies by place, and not as a
  sequence. Of the spec that was applied last (`applied`) `RecordOK` says more:
  role and details are its own too (`SyncedMatches`).

`ResourceDriversProofs`, the other thirteen drivers under the engine:

* `InvariantHolds`, `TypesHold`: every action of every driver has one of four
  shapes (`Shape`): the operation fails, succeeds with an output, goes on, or was
  a Scale. A step of that shape keeps `IInv`, so that of each action only its
  shape is to be shown. `PlacesOf` and `OpAt` say which requests an operation
  sends.
* `WhatIsAskedForStays`: `KeptStay` needs that Update never waits to detach a
  policy of the spec, whatever happened before.
* `NothingDrifts`: `NoSilentDrift` from `RecordOK`: between operations that
  succeeded the record prints what is there, but for the order of policies; while
  a role is created, what does not wait to be attached is attached. It holds
  whatever keys specs have or lose.

`ECSDeployProofs`, the driver under any sequence of operations:

* `TypesHold`: `TypeOK`; what is more than a type in it is that the listener
  forwards only to target groups that exist.
* `PromotionIsComplete`, `CanaryIsGone`: `DInv` says of every request which
  operation sends it (`Where`) and what that operation has done before
  (`Promotion`, `Removal`). That a promotion does not delete or change the
  stable service with its canary needs the names (`DriverOK`): the name of a
  canary ends in a part that no stable or green name contains. It holds for any
  number of generations, failures and restarts; TLC tries names of two parts.

`BlueGreenProofs`, blue/green deployments alone, with lost answers and restarts:

* `BlueGreenImplementsRollout`: every step is a step of `Rollout` or a stutter,
  under the mapping of `ImplementsRollout`. `BInv`: the listener forwards to one
  group, whose service wants a task and runs one (`HasFront`); what the driver
  knows of green at a stage is so (`Green`); and blue is drained and deleted only
  after a switch it knows of (`Place`). That there is a front does not depend on
  what the driver knows, which is why a restart cannot break it.
* `BlueGreenServes`: `TrafficServed` follows.

`StrategyProofs`, the three strategies one after the other, when `Repairable`:

* `NothingIsOrphaned`, `EveryStrategyServes`: `NoOrphans` says that the driver
  knows what exists between operations; `SInv` adds what it knows in the middle
  of one: services and target groups are *exactly* the known ones and the one it
  never gets to know (`ServicesOK`, `GroupsOK`), the canary's and green's names
  come from the stable one (`NamesOK`), and each stage has its part of them
  (`StageOK`). `TrafficOK`: whoever has traffic wants a task, and a canary
  that is being removed has none.

Only model-checked: what is temporal under fairness (LocksAreReleased,
BlueIsDestroyed, Settles, StaysReconciled, Destroyed, LockIsFree, CallsEnd), since
liveness and ENABLED are out of the prover's reach. Two definitions have the form
the proofs need. SelectSeq, as all recursion on data, is opaque to the prover:
`Chunks` of `Provider` therefore are *the* sequence whose elements are the lines of
a page in order, and the policies of `AutoScaling` are functions of places. With lost
answers or restarts nothing is said of orphans, for a target group whose creation was
answered with an error is forgotten; of traffic only with blue/green alone.

## What is not modelled

* Generated code, contracts, sizing tables, start-up, HTTP and JSON; of the gRPC
  servers the conversion of requests and answers, which is one call each.
* Objects, keys, templates, encodings and outputs of storage and steps; texts,
  image and size of a derived collector.
* Searches by name or tag in the drivers, for which the engine has the recorded
  id. The outputs of the mock driver. Out-of-band changes in AWS. Capacities
  outside 32 bits.
* The lost task of a RunTask without an answer; the network that a CreateVpc
  without an answer leaves behind (`vpc.go:46`); the owner tags of a resource that
  is destroyed, which in `Provider` stay as SetOwner wrote them; the region of an
  Initialize that failed (`provider.go:96`), which no handler reads.
* More scaling policies than fit in one page of DescribeScalingPolicies, whose
  token is not followed: `AppliedExactly` would not hold.

## Plan

What could come next, in this order:

1. Values that AWS takes with a delay, in `AttributeDrivers`: an output printed
   before the change is there.
2. Proofs: weaker hypotheses for `StrategyProofs` (a lost answer of a request that
   the next operation repeats), and what canaries keep under restarts; the steps
   towards the liveness properties that are invariants, such as that a plan with
   an action always has an operation that succeeds.

What a later module checks shares a run with one that is there, in an MC module
whose initial states choose the component, so that there is one run per question.
