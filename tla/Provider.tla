------------------------------- MODULE Provider -------------------------------
(***************************************************************************)
(* AWSProvider (provider/provider.go, provider/runner.go and the mock      *)
(* driver): one provider behind a gRPC server, whose handlers run          *)
(* concurrently.  A handler takes the provider's RWMutex only to read or   *)
(* write the provider's fields and works on what it read after it gave the *)
(* lock back; meanwhile the provider may be initialized anew or closed.    *)
(*                                                                         *)
(* Abstracted: an AWS account with the clients, drivers and ECS cluster of *)
(* a configuration is a world, and so is what one set of mock drivers      *)
(* holds; of a resource only its existence matters, and a mock world has   *)
(* the number of the Initialize that made it.  RegisterTaskDefinition only *)
(* adds a revision nobody else uses.  ListOwners' filter by type is left   *)
(* out: an ARN has one type for ever.                                      *)
(***************************************************************************)
EXTENDS Integers, Sequences, FiniteSets, SequencesExt

CONSTANTS
  Threads,      \* handlers that run at the same time
  Works,        \* which operations the handlers may serve
  Accounts,     \* AWS accounts
  BadAccount,   \* a configuration whose credentials cannot be resolved
  Mock,         \* a configuration with mode "mock"
  None,         \* nil, no thread, no task, no exit code
  Names,        \* resources
  Unknown,      \* the resources of a type without a driver, or with an ARN of none
  Owners,       \* owners of resources
  RefLists,     \* arguments of Destroy, Status, DetectDrift and Create
  MaxCalls,     \* bound on the calls
  MaxFailures,  \* bound on failed requests
  MaxLog        \* bound on the log events of a task

Configs == Accounts \cup {BadAccount, Mock}
Worlds  == Accounts \cup (1 .. MaxCalls)
Ops     == {"Initialize", "Close", "Destroy", "Status", "DetectDrift", "Create",
            "RunJob", "JobStatus", "JobLogs", "GetOwner", "SetOwner", "ListOwners",
            "ListRegions"}

ASSUME ProviderAssumption ==
  /\ Works \subseteq [Threads -> SUBSET Ops]
  /\ {BadAccount, Mock, None} \cap Accounts = {} /\ BadAccount # Mock
  /\ Accounts \cap (0 .. MaxCalls) = {} /\ None \notin Worlds \cup Owners \cup Threads \cup {0}
  /\ Unknown \subseteq Names
  /\ RefLists \subseteq Seq(Names) /\ \A refs \in RefLists : refs # << >> /\ IsInjective(refs)
  /\ None \notin [at : Nat, again : BOOLEAN]
  /\ MaxCalls \in Nat /\ MaxFailures \in Nat /\ MaxLog \in Nat

VARIABLES
  work,       \* the operations that each handler serves
  initialized, cfg, driverMap, ownershipClient, runnerClient, runnerConfig,
  writer,     \* the handler that holds the write lock
  readers,    \* the handlers that hold a read lock
  resources,  \* what exists in every world
  owners,     \* the owner tags of every account
  task,       \* the ECS task of the job, or None
  log,        \* its log events: "line", or "empty" for one without a message
  handle,     \* what RunJob returned for it, or None
  pc, call,   \* where each handler is, and its call
  reply,      \* its last reply
  calls, failures   \* how many are still to come

fields == << initialized, cfg, driverMap, ownershipClient, runnerClient, runnerConfig >>
lock   == << writer, readers >>
aws    == << resources, owners, task, log >>
budget == << work, calls, failures >>
vars   == << fields, lock, aws, handle, pc, call, reply, budget >>

NoCall == [op |-> "none"]

\* NewAWSProvider.
Init ==
  /\ work \in Works
  /\ initialized = FALSE /\ cfg = None /\ driverMap = None
  /\ ownershipClient = None /\ runnerClient = None /\ runnerConfig = None
  /\ writer = None /\ readers = {}
  /\ resources = [w \in Worlds |-> {}]
  /\ owners = [w \in Accounts |-> [n \in Names |-> None]]
  /\ task = None /\ log = << >> /\ handle = None
  /\ pc = [t \in Threads |-> "idle"]
  /\ call = [t \in Threads |-> NoCall] /\ reply = [t \in Threads |-> NoCall]
  /\ calls = MaxCalls /\ failures = MaxFailures

-----------------------------------------------------------------------------
(***************************************************************************)
(* Handlers.                                                               *)
(***************************************************************************)

\* A call arrives, whose first step is q.
Arrive(t, c, q) ==
  /\ pc[t] = "idle" /\ calls > 0 /\ c.op \in work[t]
  /\ calls' = calls - 1
  /\ pc' = [pc EXCEPT ![t] = q]
  /\ call' = [call EXCEPT ![t] = c]
  /\ reply' = [reply EXCEPT ![t] = NoCall]
  /\ UNCHANGED << work, fields, lock, aws, handle, failures >>

Goto(t, q) == pc' = [pc EXCEPT ![t] = q] /\ UNCHANGED reply

Reply(t, r) ==
  /\ pc' = [pc EXCEPT ![t] = "idle"]
  /\ call' = [call EXCEPT ![t] = NoCall]
  /\ reply' = [reply EXCEPT ![t] = r]

Error(t) == Reply(t, [op |-> call[t].op, ok |-> FALSE])

CanLock  == writer = None /\ readers = {}
CanRLock == writer = None

\* A request to AWS fails in transit.
Fails == failures > 0 /\ failures' = failures - 1 /\ UNCHANGED << work, calls >>

-----------------------------------------------------------------------------
(***************************************************************************)
(* Initialize and Close hold the write lock throughout, Initialize also    *)
(* while it waits for STS.                                                 *)
(***************************************************************************)

CallInitialize(t) == \E c \in Configs : Arrive(t, [op |-> "Initialize", config |-> c], "lock")

CallClose(t) == Arrive(t, [op |-> "Close"], "lock")

\* (faulty variant) The clients of the last configuration are kept.
InitializeMockKeepsClients(t) ==
  /\ pc[t] = "lock" /\ call[t].op = "Initialize" /\ call[t].config = Mock /\ CanLock
  /\ cfg' = Mock /\ driverMap' = calls + 1
  /\ initialized' = TRUE
  /\ Reply(t, [op |-> "Initialize", ok |-> TRUE])
  /\ UNCHANGED << ownershipClient, runnerClient, runnerConfig, lock, aws, handle, budget >>

\* A mock configuration needs no credentials.  (The number of the calls that are
\* left serves as the number of the mock world.)
InitializeMock(t) ==
  /\ pc[t] = "lock" /\ call[t].op = "Initialize" /\ call[t].config = Mock /\ CanLock
  /\ cfg' = Mock /\ driverMap' = calls + 1
  /\ ownershipClient' = None /\ runnerClient' = None /\ runnerConfig' = None
  /\ initialized' = TRUE
  /\ Reply(t, [op |-> "Initialize", ok |-> TRUE])
  /\ UNCHANGED << lock, aws, handle, budget >>

\* (faulty variant) Credentials are looked up without the lock.
InitializeRealUnlocked(t) ==
  /\ pc[t] = "lock" /\ call[t].op = "Initialize" /\ call[t].config # Mock /\ CanLock
  /\ Goto(t, "credentials")
  /\ UNCHANGED << fields, lock, aws, handle, call, budget >>

\* Credentials are looked up under the lock, at STS for a role.  (p.region has been
\* written before that can fail; no handler reads it.)
InitializeReal(t) ==
  /\ pc[t] = "lock" /\ call[t].op = "Initialize" /\ call[t].config # Mock /\ CanLock
  /\ writer' = t
  /\ Goto(t, "credentials")
  /\ UNCHANGED << fields, readers, aws, handle, call, budget >>

BuildAWSConfig(t) ==
  /\ pc[t] = "credentials"
  /\ writer' = None
  /\ LET c == call[t].config
     IN \/ /\ c = BadAccount
           /\ Error(t)
           /\ UNCHANGED fields
        \/ /\ c \in Accounts
           /\ cfg' = c /\ driverMap' = c
           /\ ownershipClient' = c /\ runnerClient' = c /\ runnerConfig' = c
           /\ initialized' = TRUE
           /\ Reply(t, [op |-> "Initialize", ok |-> TRUE])
  /\ UNCHANGED << readers, aws, handle, budget >>

Close(t) ==
  /\ pc[t] = "lock" /\ call[t].op = "Close" /\ CanLock
  /\ initialized' = FALSE
  /\ Reply(t, [op |-> "Close", ok |-> TRUE])
  /\ UNCHANGED << cfg, driverMap, ownershipClient, runnerClient, runnerConfig,
                  lock, aws, handle, budget >>

-----------------------------------------------------------------------------
(***************************************************************************)
(* Destroy, Status, DetectDrift and Create work on one resource after the  *)
(* other.  A resource is good when it was destroyed, found or created, bad *)
(* when the reply holds an error, "unknown" or a drift for it.             *)
(***************************************************************************)

CallRefs(t) ==
  \E op \in {"Destroy", "Status", "DetectDrift", "Create"} : \E refs \in RefLists :
    Arrive(t, [op |-> op, refs |-> refs, left |-> refs, world |-> None,
               good |-> {}, bad |-> {}],
           IF op = "DetectDrift" THEN "check" ELSE "lookup")

\* DetectDrift of a provider that is not initialized is an error.
ensureInitialized(t) ==
  /\ pc[t] = "check" /\ CanRLock
  /\ IF initialized THEN Goto(t, "lookup") /\ UNCHANGED call ELSE Error(t)
  /\ UNCHANGED << fields, lock, aws, handle, budget >>

\* The outcome for the next resource, and on to the one after it.
Note(t, good, bad) ==
  LET c == call[t]
      r == [op |-> c.op, ok |-> TRUE, good |-> c.good \cup good, bad |-> c.bad \cup bad]
  IN IF Len(c.left) = 1 THEN Reply(t, r)
     ELSE /\ Goto(t, "lookup")
          /\ call' = [call EXCEPT ![t].left = Tail(c.left), ![t].good = r.good, ![t].bad = r.bad]

\* Create asks for the driver without asking whether the provider is initialized.
resourceDriver(t) ==
  /\ driverMap # None
  /\ Head(call[t].left) \notin Unknown
  /\ initialized \/ call[t].op = "Create"

\* (faulty variant) The read lock is kept while the driver works.
LookupKeepsLock(t) ==
  /\ pc[t] = "lookup" /\ CanRLock
  /\ \/ /\ resourceDriver(t)
        /\ readers' = readers \cup {t}
        /\ Goto(t, "driver")
        /\ call' = [call EXCEPT ![t].world = driverMap]
     \/ /\ ~resourceDriver(t)
        /\ Note(t, {}, IF call[t].op = "DetectDrift" THEN {} ELSE {Head(call[t].left)})
        /\ UNCHANGED readers
  /\ UNCHANGED << fields, writer, aws, handle, budget >>

\* DetectDrift passes over a resource without a driver.
initializedResourceDriver(t) ==
  /\ pc[t] = "lookup" /\ CanRLock
  /\ \/ /\ resourceDriver(t)
        /\ Goto(t, "driver")
        /\ call' = [call EXCEPT ![t].world = driverMap]
     \/ /\ ~resourceDriver(t)
        /\ Note(t, {}, IF call[t].op = "DetectDrift" THEN {} ELSE {Head(call[t].left)})
  /\ UNCHANGED << fields, lock, aws, handle, budget >>

\* What the driver's Delete, Create or Read does to the resource n of world w,
\* and whether it succeeds.  A mock driver deletes what is not there and creates
\* what is there; the real ones answer with an error.
Effect(op, n, w) ==
  resources' = [resources EXCEPT ![w] = CASE op = "Destroy" -> @ \ {n}
                                          [] op = "Create"  -> @ \cup {n}
                                          [] OTHER          -> @]

Succeeds(op, n, w) ==
  \/ w \notin Accounts /\ op \in {"Destroy", "Create"}
  \/ n \in resources[w] /\ op # "Create"
  \/ n \notin resources[w] /\ op = "Create"

\* (faulty variant) Destroy takes a failed Delete for a success.
DriverCallLenient(t) ==
  /\ pc[t] = "driver"
  /\ readers' = readers \ {t}
  /\ LET n == Head(call[t].left)
         w == call[t].world
         op == call[t].op
     IN \/ /\ Succeeds(op, n, w)
           /\ Effect(op, n, w) /\ Note(t, {n}, {}) /\ UNCHANGED budget
        \/ /\ ~Succeeds(op, n, w)
           /\ Note(t, {}, {n}) /\ UNCHANGED << resources, budget >>
        \/ /\ w \in Accounts /\ Fails
           /\ Note(t, {n}, {})
           /\ UNCHANGED resources \/ (Succeeds(op, n, w) /\ Effect(op, n, w))
  /\ UNCHANGED << fields, writer, owners, task, log, handle >>

DriverCall(t) ==
  /\ pc[t] = "driver"
  /\ readers' = readers \ {t}
  /\ LET n == Head(call[t].left)
         w == call[t].world
         op == call[t].op
     IN \/ /\ Succeeds(op, n, w)
           /\ Effect(op, n, w) /\ Note(t, {n}, {}) /\ UNCHANGED budget
        \/ /\ ~Succeeds(op, n, w)
           /\ Note(t, {}, {n}) /\ UNCHANGED << resources, budget >>
        \/ /\ w \in Accounts /\ Fails
           /\ Note(t, {}, {n})
           /\ UNCHANGED resources \/ (Succeeds(op, n, w) /\ Effect(op, n, w))
  /\ UNCHANGED << fields, writer, owners, task, log, handle >>

-----------------------------------------------------------------------------
(***************************************************************************)
(* The job runner.  It does not ask whether the provider is initialized.   *)
(***************************************************************************)

CallRunner(t) ==
  \/ handle = None /\ Arrive(t, [op |-> "RunJob", client |-> None, config |-> None], "snapshot")
  \/ /\ handle # None
     /\ \E op \in {"JobStatus", "JobLogs"} :
          Arrive(t, [op |-> op, client |-> None, config |-> None,
                     read |-> 0, token |-> None, sink |-> << >>], "snapshot")

\* The client and its configuration are read under one lock; a job without an
\* image, a command or the role that Fargate needs is an error.
Snapshot(t) ==
  /\ pc[t] = "snapshot" /\ CanRLock
  /\ \/ /\ runnerClient # None
        /\ call' = [call EXCEPT ![t].client = runnerClient, ![t].config = runnerConfig]
        /\ Goto(t, IF call[t].op = "RunJob" THEN "register"
                   ELSE IF call[t].op = "JobStatus" THEN "describe" ELSE "events")
     \/ runnerClient = None /\ Error(t)
     \/ call[t].op = "RunJob" /\ Error(t)
  /\ UNCHANGED << fields, lock, aws, handle, budget >>

RegisterTaskDefinition(t) ==
  /\ pc[t] = "register"
  /\ \/ Goto(t, "run") /\ UNCHANGED << call, budget >>
     \/ Fails /\ Error(t)
  /\ UNCHANGED << fields, lock, aws, handle >>

NewTask(w) == [world |-> w, status |-> "PENDING", code |-> None, reported |-> FALSE]

\* (faulty variant) The cluster is read from the provider when the task is run.
RunTaskLateConfig(t) ==
  /\ pc[t] = "run"
  /\ \/ /\ task = None
        /\ task' = NewTask(call[t].client)
        /\ handle' = [cluster |-> runnerConfig, world |-> call[t].client]
        /\ Reply(t, [op |-> "RunJob", ok |-> TRUE])
        /\ UNCHANGED budget
     \/ Fails /\ Error(t) /\ UNCHANGED << task, handle >>
  /\ UNCHANGED << fields, lock, resources, owners, log >>

\* Accepted, or failed: no capacity, no answer.  (A task that was started without
\* an answer has no handle, and no later call finds it.)
RunTask(t) ==
  /\ pc[t] = "run"
  /\ \/ /\ task = None
        /\ task' = NewTask(call[t].client)
        /\ handle' = [cluster |-> call[t].config, world |-> call[t].client]
        /\ Reply(t, [op |-> "RunJob", ok |-> TRUE])
        /\ UNCHANGED budget
     \/ Fails /\ Error(t) /\ UNCHANGED << task, handle >>
  /\ UNCHANGED << fields, lock, resources, owners, log >>

\* (faulty variant) A missing exit code counts as 0.
awsTaskStateLenient(k) ==
  CASE k.status = "PENDING" -> "pending"
    [] k.status = "RUNNING" -> "running"
    [] k.status \in {"STOPPED", "DEACTIVATING", "DEPROVISIONING"} ->
         IF ~k.reported \/ k.code = 0 THEN "succeeded" ELSE "failed"
    [] OTHER -> "unknown"

\* The task's status is PENDING for PROVISIONING and ACTIVATING too.
awsTaskState(k) ==
  CASE k.status = "PENDING" -> "pending"
    [] k.status = "RUNNING" -> "running"
    [] k.status \in {"STOPPED", "DEACTIVATING", "DEPROVISIONING"} ->
         IF k.reported /\ k.code = 0 THEN "succeeded" ELSE "failed"
    [] OTHER -> "unknown"

\* Another account does not know the task.
DescribeTasks(t) ==
  /\ pc[t] = "describe"
  /\ \/ /\ call[t].client = handle.world
        /\ Reply(t, [op |-> "JobStatus", ok |-> TRUE, state |-> awsTaskState(task)])
        /\ UNCHANGED budget
     \/ call[t].client # handle.world /\ Error(t) /\ UNCHANGED budget
     \/ Fails /\ Error(t)
  /\ UNCHANGED << fields, lock, aws, handle >>

\* The events from m + 1 to n that have a message.
Lines(m, n) == {k \in m + 1 .. n : log[k] # "empty"}

\* s has the elements of S in their order, and once.
InOrder(s, S) == Range(s) = S /\ \A i, j \in DOMAIN s : i < j => s[i] < s[j]

\* What is written of the events from m + 1 to n: their messages, one after the other.
Chunks(m, n) == {s \in [1 .. Cardinality(Lines(m, n)) -> Lines(m, n)] : InOrder(s, Lines(m, n))}

\* (faulty variant) An empty page is taken for the end.
GetLogEventsEmptyPage(t) ==
  /\ pc[t] = "events"
  /\ LET c == call[t]
     IN \/ /\ c.client = handle.world
           /\ \E n \in c.read .. Len(log) : \E chunks \in Chunks(c.read, n) :
                LET sink == c.sink \o chunks
                IN IF n = c.read
                   THEN Reply(t, [op |-> "JobLogs", ok |-> TRUE, sink |-> sink])
                   ELSE /\ call' = [call EXCEPT ![t].read = n, ![t].token = n, ![t].sink = sink]
                        /\ Goto(t, "events")
           /\ UNCHANGED budget
        \/ c.client # handle.world /\ Error(t) /\ UNCHANGED budget
        \/ Fails /\ Error(t)
  /\ UNCHANGED << fields, lock, aws, handle >>

\* The token that is returned with a page that ends at n: only the end of the log
\* repeats the token that was sent.
NextForwardToken(c, n) ==
  IF c.token = None \/ n > c.read THEN [at |-> n, again |-> FALSE]
  ELSE IF n = Len(log) THEN c.token
  ELSE [at |-> n, again |-> ~c.token.again]

\* One page, which may be empty before the end.  The sink holds the numbers of the
\* events whose messages were written; the reply stands for the chunk EOF.
GetLogEvents(t) ==
  /\ pc[t] = "events"
  /\ LET c == call[t]
     IN \/ /\ c.client = handle.world
           /\ \E n \in c.read .. Len(log) : \E chunks \in Chunks(c.read, n) :
                LET sink  == c.sink \o chunks
                    token == NextForwardToken(c, n)
                IN IF token = c.token
                   THEN Reply(t, [op |-> "JobLogs", ok |-> TRUE, sink |-> sink])
                   ELSE /\ call' = [call EXCEPT ![t].read = n, ![t].token = token, ![t].sink = sink]
                        /\ Goto(t, "events")
           /\ UNCHANGED budget
        \/ c.client # handle.world /\ Error(t) /\ UNCHANGED budget
        \/ Fails /\ Error(t)
  /\ UNCHANGED << fields, lock, aws, handle >>

-----------------------------------------------------------------------------
(***************************************************************************)
(* Owners: tags of resources in an account.  Nothing here removes a tag;   *)
(* that AWS drops the tags of a deleted resource is left out.              *)
(***************************************************************************)

CallOwner(t) ==
  \/ \E op \in {"GetOwner", "SetOwner"}, n \in Names, o \in Owners :
       /\ op = "GetOwner" => o = CHOOSE x \in Owners : TRUE
       /\ Arrive(t, [op |-> op, name |-> n, owner |-> o, client |-> None], "owner client")
  \/ \E o \in Owners \cup {None} :
       Arrive(t, [op |-> "ListOwners", owner |-> o, client |-> None,
                  left |-> Names, listed |-> {}, before |-> {}], "owner client")

Tagged(w) == {n \in Names \ Unknown : owners[w][n] # None}

\* A reference that is not an ARN, or an empty owner, is an error.  (before is for
\* OwnersComplete.)
ownershipClientLocked(t) ==
  /\ pc[t] = "owner client" /\ CanRLock
  /\ \/ /\ initialized /\ ownershipClient # None
        /\ call' = IF call[t].op = "ListOwners"
                   THEN [call EXCEPT ![t].client = ownershipClient, ![t].before = Tagged(ownershipClient)]
                   ELSE [call EXCEPT ![t].client = ownershipClient]
        /\ Goto(t, IF call[t].op = "ListOwners" THEN "owners"
                   ELSE IF call[t].op = "SetOwner" THEN "tag" ELSE "get owner")
     \/ ~(initialized /\ ownershipClient # None) /\ Error(t)
     \/ call[t].op # "ListOwners" /\ Error(t)
  /\ UNCHANGED << fields, lock, aws, handle, budget >>

GetOwner(t) ==
  /\ pc[t] = "get owner"
  /\ \/ Reply(t, [op |-> "GetOwner", ok |-> TRUE]) /\ UNCHANGED budget
     \/ Fails /\ Error(t)
  /\ UNCHANGED << fields, lock, aws, handle >>

\* The resources that the answer of TagResources says it could not tag are not
\* looked at.
TagResources(t) ==
  /\ pc[t] = "tag"
  /\ \/ Reply(t, [op |-> "SetOwner", ok |-> TRUE]) /\ UNCHANGED budget
     \/ Fails /\ Error(t)
  /\ owners' \in {owners, [owners EXCEPT ![call[t].client][call[t].name] = call[t].owner]}
  /\ UNCHANGED << fields, lock, resources, task, log, handle >>

\* The entries of a page of ListOwners: no resource of an unknown type, only the
\* owner that was asked for.
Entries(page, w, owner) ==
  {<< n, owners[w][n] >> : n \in {m \in page \cap Tagged(w) : owner \in {None, owners[w][m]}}}

\* (faulty variant) The client is read again for every page.
GetResourcesLateClient(t) ==
  /\ pc[t] = "owners"
  /\ LET c == call[t]
     IN \/ /\ ownershipClient # None
           /\ \E page \in SUBSET c.left :
                LET listed == c.listed \cup Entries(page, ownershipClient, c.owner)
                IN \/ /\ page = c.left
                      /\ Reply(t, [op |-> "ListOwners", ok |-> TRUE, owner |-> c.owner,
                                   listed |-> listed, before |-> c.before])
                   \/ /\ page # {}
                      /\ call' = [call EXCEPT ![t].left = c.left \ page, ![t].listed = listed]
                      /\ Goto(t, "owners")
           /\ UNCHANGED budget
        \/ Fails /\ Error(t)
  /\ UNCHANGED << fields, lock, aws, handle >>

\* One page of the resources that AWS has not shown yet; a page without a token is
\* the last.
GetResources(t) ==
  /\ pc[t] = "owners"
  /\ LET c == call[t]
     IN \/ /\ \E page \in SUBSET c.left :
                LET listed == c.listed \cup Entries(page, c.client, c.owner)
                IN \/ /\ page = c.left
                      /\ Reply(t, [op |-> "ListOwners", ok |-> TRUE, owner |-> c.owner,
                                   listed |-> listed, before |-> c.before])
                   \/ /\ page # {}
                      /\ call' = [call EXCEPT ![t].left = c.left \ page, ![t].listed = listed]
                      /\ Goto(t, "owners")
           /\ UNCHANGED budget
        \/ Fails /\ Error(t)
  /\ UNCHANGED << fields, lock, aws, handle >>

\* ListRegions asks EC2 if the provider is initialized, in mock mode too, where it
\* has no credentials; if that fails, a fixed list is the answer.
ListRegions(t) ==
  Arrive(t, [op |-> "ListRegions"], "config snapshot")

AWSConfigSnapshot(t) ==
  /\ pc[t] = "config snapshot" /\ CanRLock
  /\ IF initialized
     THEN Goto(t, "regions") /\ UNCHANGED call
     ELSE Reply(t, [op |-> "ListRegions", ok |-> TRUE])
  /\ UNCHANGED << fields, lock, aws, handle, budget >>

listAWSRegions(t) ==
  /\ pc[t] = "regions"
  /\ Reply(t, [op |-> "ListRegions", ok |-> TRUE])
  /\ UNCHANGED << fields, lock, aws, handle, budget >>

-----------------------------------------------------------------------------
(***************************************************************************)
(* ECS.  (external)                                                        *)
(***************************************************************************)

After == [PENDING |-> {"RUNNING", "DEACTIVATING"}, RUNNING |-> {"DEACTIVATING"},
          DEACTIVATING |-> {"STOPPING"}, STOPPING |-> {"DEPROVISIONING"},
          DEPROVISIONING |-> {"STOPPED"}, STOPPED |-> {}]

\* The container's exit code is reported some time after it ended, a stopped
\* task has reported it; a task that never ran has none.
TaskStep ==
  /\ task # None
  /\ \E status \in After[task.status] :
       \E code \in IF task.status = "RUNNING" THEN {0, 1} ELSE {task.code} :
       \E reported \in BOOLEAN :
         /\ task.reported => reported
         /\ reported => code # None
         /\ status = "STOPPED" /\ code # None => reported
         /\ task' = [world |-> task.world, status |-> status, code |-> code, reported |-> reported]
  /\ UNCHANGED << fields, lock, resources, owners, log, handle, pc, call, reply, budget >>

WriteLog ==
  /\ task # None /\ task.status = "RUNNING" /\ Len(log) < MaxLog
  /\ \E e \in {"line", "empty"} : log' = Append(log, e)
  /\ UNCHANGED << fields, lock, resources, owners, task, handle, pc, call, reply, budget >>

\* The steps under the write lock.
Locked(t) == InitializeMock(t) \/ InitializeReal(t) \/ BuildAWSConfig(t) \/ Close(t)

\* The steps that wait for the lock, for writing or for reading.
TakesLock(t) ==
  \/ InitializeMock(t) \/ InitializeReal(t) \/ Close(t)
  \/ ensureInitialized(t) \/ initializedResourceDriver(t) \/ Snapshot(t)
  \/ ownershipClientLocked(t) \/ AWSConfigSnapshot(t)

Next ==
  \/ \E t \in Threads :
       \/ CallInitialize(t) \/ CallClose(t) \/ CallRefs(t) \/ CallRunner(t)
       \/ Locked(t)
       \/ ensureInitialized(t) \/ initializedResourceDriver(t) \/ DriverCall(t)
       \/ Snapshot(t) \/ RegisterTaskDefinition(t) \/ RunTask(t)
       \/ DescribeTasks(t) \/ GetLogEvents(t)
       \/ CallOwner(t) \/ ownershipClientLocked(t)
       \/ GetOwner(t) \/ TagResources(t) \/ GetResources(t)
       \/ ListRegions(t) \/ AWSConfigSnapshot(t) \/ listAWSRegions(t)
  \/ TaskStep \/ WriteLog

Spec == Init /\ [][Next]_vars

\* A handler takes a lock that is free for it.  No request is fair: it may hang for
\* ever, also the one to STS that Initialize waits for under the write lock.
FairSpec == Spec /\ \A t \in Threads : WF_vars(TakesLock(t))

-----------------------------------------------------------------------------
(***************************************************************************)
(* Properties.                                                             *)
(***************************************************************************)

\* Types; the lock excludes readers and other writers from a writer, and only a
\* handler that looks up credentials keeps it.
TypeOK ==
  /\ initialized \in BOOLEAN /\ cfg \in Accounts \cup {Mock, None}
  /\ driverMap \in Worlds \cup {None}
  /\ {ownershipClient, runnerClient, runnerConfig} \subseteq Accounts \cup {None}
  /\ writer \in Threads \cup {None} /\ readers \subseteq Threads
  /\ writer # None => readers = {}
  /\ \A t \in Threads : writer = t <=> pc[t] = "credentials"
  /\ \A w \in Worlds : resources[w] \subseteq Names
  /\ \A w \in Accounts, n \in Names : owners[w][n] \in Owners \cup {None}
  /\ \A t \in Threads :
       /\ pc[t] \in {"idle", "lock", "credentials", "check", "lookup", "driver", "snapshot",
                     "register", "run", "describe", "events", "owner client", "get owner",
                     "tag", "owners", "config snapshot", "regions"}
       /\ pc[t] = "idle" <=> call[t] = NoCall
       /\ reply[t].op \in Ops \cup {"none"}
       /\ pc[t] = "driver" => call[t].world \in Worlds /\ Head(call[t].left) \notin Unknown

\* Everything a handler can find in the provider comes from one configuration,
\* also after an Initialize that failed: a provider in mock mode reaches no AWS
\* account, and one that is not uses the drivers and clients of its account.
OneConfiguration ==
  initialized =>
    IF cfg = Mock
    THEN driverMap \notin Accounts /\ {ownershipClient, runnerClient, runnerConfig} = {None}
    ELSE {driverMap, ownershipClient, runnerClient, runnerConfig} = {cfg}

\* RunJob's handle names the cluster of the account in which the task runs, even
\* if the provider was initialized anew while it ran (runner.go:66-69).
HandleFindsTask == handle # None => handle.cluster = task.world

Replied(t, op) == pc[t] # "idle" /\ reply'[t].op = op /\ reply'[t].ok

\* "Destroy deletes a set of resources" (provider.go:330): what it reports as
\* destroyed was deleted from the world whose driver it had looked up.
DestroyedIsGone ==
  [][\A t \in Threads :
       (pc[t] = "driver" /\ call[t].op = "Destroy") =>
         LET n == Head(call[t].left)
             good == IF pc'[t] = "idle" THEN reply'[t].good ELSE call'[t].good
         IN pc'[t] # "driver" /\ n \in good => n \notin resources'[call[t].world]]_vars

\* A job is said to have succeeded only if its container ended with 0, and of a
\* stopped task it is said exactly then (runner.go:346-355).
VerdictTrue ==
  [][\A t \in Threads : Replied(t, "JobStatus") =>
       /\ reply'[t].state = "succeeded" => task.code = 0
       /\ task.status = "STOPPED" =>
            reply'[t].state = (IF task.code = 0 THEN "succeeded" ELSE "failed")]_vars

\* JobLogs writes the message of every event there is when it ends, once and in
\* order, whatever pages CloudWatch makes of them and while the task goes on.
LogsComplete ==
  [][\A t \in Threads : Replied(t, "JobLogs") =>
       InOrder(reply'[t].sink, Lines(0, Len(log)))]_vars

\* ListOwners reads one account to the end: every resource that had an owner when it
\* began is there once, and nothing of another owner than the one asked for, although
\* the provider is initialized for another account and owners change meanwhile.
OwnersComplete ==
  [][\A t \in Threads : Replied(t, "ListOwners") =>
       LET r == reply'[t]
       IN /\ r.owner = None => r.before \subseteq {e[1] : e \in r.listed}
          /\ \A e \in r.listed : r.owner \in {None, e[2]}
          /\ \A d, e \in r.listed : d[1] = e[1] => d = e]_vars

\* "Status does not hold the provider lock during driver Read" (the test of
\* provider_lock_test.go:43): no request of a driver, of the runner or for owners
\* keeps another handler from the lock.  Who waits for it for ever waits for an
\* Initialize whose request to STS hangs (provider.go:88, :142).
LockIsFree ==
  \A t \in Threads :
    <>[](pc[t] \in {"lock", "check", "lookup", "snapshot", "owner client", "config snapshot"})
      => <>[](\E u \in Threads : u # t /\ pc[u] = "credentials")
=============================================================================
