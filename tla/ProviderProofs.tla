---------------------------- MODULE ProviderProofs ----------------------------
(***************************************************************************)
(* The provider for any number of concurrent handlers, accounts, resources *)
(* and calls: its lock excludes, what is in it comes from one              *)
(* configuration, a job's handle names the cluster of the account in which *)
(* its task runs, and what the handlers reply is true.                     *)
(***************************************************************************)
EXTENDS Provider, FiniteSetTheorems, TLAPS

\* What the call of a handler holds where the handler is: p is a place, c a call.
CallOK(p, c) ==
  /\ p = "lock" => c.op \in {"Initialize", "Close"}
  /\ p \in {"lock", "credentials"} /\ c.op = "Initialize" => c.config \in Configs
  /\ p = "credentials" => c.op = "Initialize" /\ c.config # Mock
  /\ p \in {"snapshot", "register", "run"} => {"client", "config"} \subseteq DOMAIN c
  /\ p \in {"register", "run"} => c.client = c.config

\* The lock excludes, and a handler keeps it only over the look-up of credentials.
LockInv ==
  /\ readers = {}
  /\ writer \in Threads \cup {None}
  /\ \A t \in Threads : writer = t <=> pc[t] = "credentials"

\* What the configuration of the provider needs to stay one: a mock world has the
\* number of a call that has begun, and is no account.
ConfigInv ==
  /\ DOMAIN pc = Threads /\ DOMAIN call = Threads
  /\ calls \in 0 .. MaxCalls
  /\ \A t \in Threads : pc[t] # "idle" => calls < MaxCalls
  /\ \A t \in Threads : CallOK(pc[t], call[t])
  /\ runnerClient = runnerConfig

IInv == ConfigInv /\ LockInv /\ OneConfiguration /\ HandleFindsTask

-----------------------------------------------------------------------------
LEMMA InitIInv == Init => IInv
BY ProviderAssumption
   DEF Init, IInv, ConfigInv, LockInv, OneConfiguration, HandleFindsTask, ProviderAssumption,
       CallOK, NoCall

\* A step is one of t's alone.
StepOf(t) ==
  /\ DOMAIN pc' = Threads /\ DOMAIN call' = Threads
  /\ \A u \in Threads \ {t} : pc'[u] = pc[u] /\ call'[u] = call[u]

\* A call arrives.
LEMMA ArriveIInv ==
  ASSUME IInv, NEW t \in Threads, NEW c, NEW q, Arrive(t, c, q), CallOK(q, c), q # "credentials"
  PROVE  IInv'
<1>1. ConfigInv'
  BY ProviderAssumption DEF IInv, ConfigInv, Arrive, ProviderAssumption, fields
<1>2. LockInv'
  BY DEF IInv, LockInv, ConfigInv, Arrive, lock
<1>3. OneConfiguration' /\ HandleFindsTask'
  BY DEF IInv, OneConfiguration, HandleFindsTask, Arrive, fields, aws
<1>4. QED
  BY <1>1, <1>2, <1>3 DEF IInv

\* A call goes on or ends and changes nothing but itself and, if need be, AWS.
LEMMA QuietIInv ==
  ASSUME IInv, NEW t \in Threads, StepOf(t), pc[t] \notin {"idle", "credentials"},
         pc'[t] # "credentials", CallOK(pc'[t], call'[t]),
         UNCHANGED << fields, lock, task, handle, calls >>
  PROVE  IInv'
<1>1. ConfigInv'
  BY DEF IInv, ConfigInv, StepOf, fields
<1>2. LockInv'
  BY DEF IInv, LockInv, StepOf, lock
<1>3. OneConfiguration' /\ HandleFindsTask'
  BY DEF IInv, OneConfiguration, HandleFindsTask, fields
<1>4. QED
  BY <1>1, <1>2, <1>3 DEF IInv

\* A reply ends the call.
LEMMA ReplyEnds ==
  ASSUME ConfigInv, NEW t \in Threads, NEW r, Reply(t, r)
  PROVE  StepOf(t) /\ pc'[t] = "idle" /\ CallOK(pc'[t], call'[t])
BY DEF ConfigInv, Reply, StepOf, CallOK

\* A call goes on, with the arguments it has.
LEMMA GotoGoesOn ==
  ASSUME ConfigInv, NEW t \in Threads, NEW q, Goto(t, q), UNCHANGED call
  PROVE  StepOf(t) /\ pc'[t] = q /\ call'[t] = call[t]
BY DEF ConfigInv, Goto, StepOf

-----------------------------------------------------------------------------
\* Initialize and Close.
LEMMA InitializeMockIInv ==
  ASSUME IInv, NEW t \in Threads, InitializeMock(t)
  PROVE  IInv'
<1>1. StepOf(t) /\ pc'[t] = "idle" /\ CallOK(pc'[t], call'[t]) /\ pc[t] = "lock"
  BY ReplyEnds DEF IInv, InitializeMock
<1>2. ConfigInv'
  BY <1>1 DEF IInv, ConfigInv, InitializeMock, StepOf, budget
<1>3. LockInv'
  BY <1>1 DEF IInv, LockInv, InitializeMock, StepOf, lock
<1>4. OneConfiguration'
  <2>1. calls + 1 \in 0 .. MaxCalls
    BY ProviderAssumption DEF IInv, ConfigInv, InitializeMock, ProviderAssumption
  <2>2. calls + 1 \notin Accounts
    BY <2>1, ProviderAssumption DEF ProviderAssumption
  <2>3. QED
    BY <2>2 DEF OneConfiguration, InitializeMock
<1>5. HandleFindsTask'
  BY DEF IInv, HandleFindsTask, InitializeMock, aws
<1>6. QED
  BY <1>2, <1>3, <1>4, <1>5 DEF IInv

LEMMA InitializeRealIInv ==
  ASSUME IInv, NEW t \in Threads, InitializeReal(t)
  PROVE  IInv'
<1>1. pc[t] = "lock" /\ call[t].op = "Initialize" /\ call[t].config # Mock /\ CanLock
  BY DEF InitializeReal
<1>2. StepOf(t) /\ pc'[t] = "credentials" /\ call'[t] = call[t]
  BY GotoGoesOn DEF IInv, InitializeReal
<1>3. CallOK(pc'[t], call'[t])
  BY <1>1, <1>2 DEF IInv, ConfigInv, CallOK
<1>4. ConfigInv'
  BY <1>1, <1>2, <1>3 DEF IInv, ConfigInv, InitializeReal, StepOf, fields, budget
<1>5. LockInv'
  BY <1>1, <1>2, ProviderAssumption
     DEF IInv, LockInv, InitializeReal, CanLock, StepOf, ProviderAssumption
<1>6. OneConfiguration' /\ HandleFindsTask'
  BY DEF IInv, OneConfiguration, HandleFindsTask, InitializeReal, fields, aws
<1>7. QED
  BY <1>4, <1>5, <1>6 DEF IInv

LEMMA BuildAWSConfigIInv ==
  ASSUME IInv, NEW t \in Threads, BuildAWSConfig(t)
  PROVE  IInv'
<1>1. pc[t] = "credentials" /\ writer = t
  BY DEF IInv, LockInv, BuildAWSConfig
<1>2. StepOf(t) /\ pc'[t] = "idle" /\ CallOK(pc'[t], call'[t])
  BY ReplyEnds DEF IInv, BuildAWSConfig, Error
<1>3. ConfigInv'
  BY <1>1, <1>2 DEF IInv, ConfigInv, BuildAWSConfig, StepOf, fields, budget
<1>4. LockInv'
  BY <1>1, <1>2, ProviderAssumption
     DEF IInv, LockInv, BuildAWSConfig, StepOf, ProviderAssumption
<1>5. OneConfiguration'
  <2>1. CASE UNCHANGED fields
    BY <2>1 DEF IInv, OneConfiguration, fields
  <2>2. CASE /\ call[t].config \in Accounts /\ cfg' = call[t].config
             /\ driverMap' = cfg' /\ ownershipClient' = cfg'
             /\ runnerClient' = cfg' /\ runnerConfig' = cfg'
    <3>1. cfg' # Mock
      BY <2>2, ProviderAssumption DEF ProviderAssumption
    <3>2. QED
      BY <2>2, <3>1 DEF OneConfiguration
  <2>3. QED
    BY <2>1, <2>2 DEF BuildAWSConfig
<1>6. HandleFindsTask'
  BY DEF IInv, HandleFindsTask, BuildAWSConfig, aws
<1>7. QED
  BY <1>3, <1>4, <1>5, <1>6 DEF IInv

LEMMA CloseIInv ==
  ASSUME IInv, NEW t \in Threads, Close(t)
  PROVE  IInv'
<1>1. StepOf(t) /\ pc'[t] = "idle" /\ CallOK(pc'[t], call'[t]) /\ pc[t] = "lock"
  BY ReplyEnds DEF IInv, Close
<1>2. ConfigInv'
  BY <1>1 DEF IInv, ConfigInv, Close, StepOf, budget
<1>3. LockInv'
  BY <1>1 DEF IInv, LockInv, Close, StepOf, lock
<1>4. OneConfiguration' /\ HandleFindsTask'
  BY DEF IInv, OneConfiguration, HandleFindsTask, Close, aws
<1>5. QED
  BY <1>2, <1>3, <1>4 DEF IInv

-----------------------------------------------------------------------------
\* Calls arrive where nothing is expected of them, or with what is.
LEMMA CallsIInv ==
  ASSUME IInv, NEW t \in Threads,
         \/ CallInitialize(t) \/ CallClose(t) \/ CallRefs(t) \/ CallRunner(t)
         \/ CallOwner(t) \/ ListRegions(t)
  PROVE  IInv'
<1>1. CASE CallInitialize(t)
  <2>1. PICK c \in Configs : Arrive(t, [op |-> "Initialize", config |-> c], "lock")
    BY <1>1 DEF CallInitialize
  <2>2. CallOK("lock", [op |-> "Initialize", config |-> c])
    BY DEF CallOK
  <2>3. QED
    BY <2>1, <2>2, ArriveIInv
<1>2. CASE CallClose(t)
  <2>1. CallOK("lock", [op |-> "Close"])
    BY DEF CallOK
  <2>2. QED
    BY <1>2, <2>1, ArriveIInv DEF CallClose
<1>3. CASE CallRefs(t)
  <2>1. PICK c : Arrive(t, c, "check") \/ Arrive(t, c, "lookup")
    BY <1>3 DEF CallRefs
  <2>2. CallOK("check", c) /\ CallOK("lookup", c)
    BY DEF CallOK
  <2>3. QED
    BY <2>1, <2>2, ArriveIInv
<1>4. CASE CallRunner(t)
  <2>1. PICK c : Arrive(t, c, "snapshot") /\ {"client", "config"} \subseteq DOMAIN c
    <3>1. CASE Arrive(t, [op |-> "RunJob", client |-> None, config |-> None], "snapshot")
      BY <3>1
    <3>2. ASSUME NEW op, Arrive(t, [op |-> op, client |-> None, config |-> None,
                     read |-> 0, token |-> None, sink |-> << >>], "snapshot")
          PROVE  \E c : Arrive(t, c, "snapshot") /\ {"client", "config"} \subseteq DOMAIN c
      BY <3>2
    <3>3. QED
      BY <1>4, <3>1, <3>2 DEF CallRunner
  <2>2. CallOK("snapshot", c)
    BY <2>1 DEF CallOK
  <2>3. QED
    BY <2>1, <2>2, ArriveIInv
<1>5. CASE CallOwner(t)
  <2>1. PICK c : Arrive(t, c, "owner client")
    BY <1>5 DEF CallOwner
  <2>2. CallOK("owner client", c)
    BY DEF CallOK
  <2>3. QED
    BY <2>1, <2>2, ArriveIInv
<1>6. CASE ListRegions(t)
  <2>1. CallOK("config snapshot", [op |-> "ListRegions"])
    BY DEF CallOK
  <2>2. QED
    BY <1>6, <2>1, ArriveIInv DEF ListRegions
<1>7. QED
  BY <1>1, <1>2, <1>3, <1>4, <1>5, <1>6

-----------------------------------------------------------------------------
\* Loops over resources.
LEMMA NoteGoesOn ==
  ASSUME ConfigInv, NEW t \in Threads, NEW good, NEW bad, Note(t, good, bad)
  PROVE  StepOf(t) /\ pc'[t] \in {"idle", "lookup"} /\ CallOK(pc'[t], call'[t])
BY DEF Note, Goto, Reply, ConfigInv, StepOf, CallOK

LEMMA RefsIInv ==
  ASSUME IInv, NEW t \in Threads,
         ensureInitialized(t) \/ initializedResourceDriver(t) \/ DriverCall(t)
  PROVE  IInv'
<1>1. CASE ensureInitialized(t)
  <2>1. StepOf(t) /\ pc'[t] \in {"idle", "lookup"} /\ CallOK(pc'[t], call'[t])
    BY <1>1, ReplyEnds, GotoGoesOn DEF ensureInitialized, IInv, Error, CallOK
  <2>2. QED
    BY <1>1, <2>1, QuietIInv DEF ensureInitialized, aws, budget
<1>2. CASE initializedResourceDriver(t)
  <2>1. CASE Note(t, {}, IF call[t].op = "DetectDrift" THEN {} ELSE {Head(call[t].left)})
    <3>1. StepOf(t) /\ pc'[t] \in {"idle", "lookup"} /\ CallOK(pc'[t], call'[t])
      BY <2>1, NoteGoesOn DEF IInv
    <3>2. QED
      BY <1>2, <3>1, QuietIInv DEF initializedResourceDriver, aws, budget
  <2>2. CASE Goto(t, "driver") /\ call' = [call EXCEPT ![t].world = driverMap]
    <3>1. StepOf(t) /\ pc'[t] = "driver" /\ CallOK(pc'[t], call'[t])
      BY <2>2 DEF IInv, ConfigInv, Goto, StepOf, CallOK
    <3>2. QED
      BY <1>2, <3>1, QuietIInv DEF initializedResourceDriver, aws, budget
  <2>3. QED
    BY <1>2, <2>1, <2>2 DEF initializedResourceDriver
<1>3. CASE DriverCall(t)
  <2>1. \E good, bad : Note(t, good, bad)
    BY <1>3 DEF DriverCall
  <2>2. StepOf(t) /\ pc'[t] \in {"idle", "lookup"} /\ CallOK(pc'[t], call'[t])
    BY <2>1, NoteGoesOn DEF IInv
  <2>3. pc[t] = "driver" /\ UNCHANGED << fields, writer, task, handle, calls >>
    BY <1>3 DEF DriverCall, Fails, budget
  <2>4. UNCHANGED lock
    BY <1>3, <2>3 DEF DriverCall, IInv, LockInv, lock
  <2>5. QED
    BY <2>2, <2>3, <2>4, QuietIInv
<1>4. QED
  BY <1>1, <1>2, <1>3

-----------------------------------------------------------------------------
\* The job runner.
LEMMA SnapshotIInv ==
  ASSUME IInv, NEW t \in Threads, Snapshot(t)
  PROVE  IInv'
<1>1. pc[t] = "snapshot" /\ {"client", "config"} \subseteq DOMAIN call[t]
  BY DEF Snapshot, IInv, ConfigInv, CallOK
<1>2. CASE Error(t)
  <2>1. StepOf(t) /\ pc'[t] = "idle" /\ CallOK(pc'[t], call'[t])
    BY <1>2, ReplyEnds DEF Error, IInv
  <2>2. QED
    BY <1>1, <2>1, QuietIInv DEF Snapshot, aws, budget
<1>3. CASE /\ call' = [call EXCEPT ![t].client = runnerClient, ![t].config = runnerConfig]
           /\ Goto(t, IF call[t].op = "RunJob" THEN "register"
                      ELSE IF call[t].op = "JobStatus" THEN "describe" ELSE "events")
  <2>1. StepOf(t) /\ pc'[t] \in {"register", "describe", "events"}
    BY <1>3 DEF IInv, ConfigInv, Goto, StepOf
  <2>2. call'[t] = [call[t] EXCEPT !.client = runnerClient, !.config = runnerConfig]
    BY <1>3 DEF IInv, ConfigInv
  <2>3. call'[t].client = runnerClient /\ call'[t].config = runnerConfig
        /\ DOMAIN call'[t] = DOMAIN call[t]
    BY <1>1, <2>2
  <2>4. CallOK(pc'[t], call'[t])
    BY <1>1, <2>1, <2>3 DEF CallOK, IInv, ConfigInv
  <2>5. QED
    BY <1>1, <2>1, <2>4, QuietIInv DEF Snapshot, aws, budget
<1>4. QED
  BY <1>2, <1>3 DEF Snapshot

LEMMA RegisterIInv ==
  ASSUME IInv, NEW t \in Threads, RegisterTaskDefinition(t)
  PROVE  IInv'
<1>1. pc[t] = "register" /\ CallOK("register", call[t])
  BY DEF RegisterTaskDefinition, IInv, ConfigInv
<1>2. StepOf(t) /\ pc'[t] \in {"idle", "run"} /\ CallOK(pc'[t], call'[t])
  BY <1>1, ReplyEnds, GotoGoesOn DEF RegisterTaskDefinition, IInv, Error, CallOK
<1>3. UNCHANGED << fields, lock, task, handle, calls >>
  BY DEF RegisterTaskDefinition, Fails, aws, budget
<1>4. QED
  BY <1>1, <1>2, <1>3, QuietIInv

\* The handle is made of the client and the configuration that the call took
\* together.
LEMMA RunTaskIInv ==
  ASSUME IInv, NEW t \in Threads, RunTask(t)
  PROVE  IInv'
<1>1. pc[t] = "run" /\ call[t].client = call[t].config
  BY DEF RunTask, IInv, ConfigInv, CallOK
<1>2. StepOf(t) /\ pc'[t] = "idle" /\ CallOK(pc'[t], call'[t])
  BY ReplyEnds DEF RunTask, IInv, Error
<1>3. UNCHANGED << fields, lock, calls >>
  BY DEF RunTask, Fails, budget
<1>4. CASE UNCHANGED << task, handle >>
  BY <1>1, <1>2, <1>3, <1>4, QuietIInv
<1>5. CASE /\ task' = NewTask(call[t].client)
           /\ handle' = [cluster |-> call[t].config, world |-> call[t].client]
  <2>1. ConfigInv'
    BY <1>1, <1>2, <1>3 DEF IInv, ConfigInv, StepOf, fields
  <2>2. LockInv'
    BY <1>1, <1>2, <1>3 DEF IInv, LockInv, StepOf, lock
  <2>3. OneConfiguration'
    BY <1>3 DEF IInv, OneConfiguration, fields
  <2>4. HandleFindsTask'
    BY <1>1, <1>5 DEF HandleFindsTask, NewTask
  <2>5. QED
    BY <2>1, <2>2, <2>3, <2>4 DEF IInv
<1>6. QED
  BY <1>4, <1>5 DEF RunTask

LEMMA DescribeTasksIInv ==
  ASSUME IInv, NEW t \in Threads, DescribeTasks(t)
  PROVE  IInv'
<1>1. StepOf(t) /\ pc'[t] = "idle" /\ CallOK(pc'[t], call'[t])
  BY ReplyEnds DEF DescribeTasks, IInv, Error
<1>2. pc[t] = "describe" /\ UNCHANGED << fields, lock, task, handle, calls >>
  BY DEF DescribeTasks, Fails, aws, budget
<1>3. QED
  BY <1>1, <1>2, QuietIInv

LEMMA GetLogEventsIInv ==
  ASSUME IInv, NEW t \in Threads, GetLogEvents(t)
  PROVE  IInv'
<1>1. pc[t] = "events" /\ UNCHANGED << fields, lock, task, handle, calls >>
  BY DEF GetLogEvents, Fails, aws, budget
<1>2. CASE Error(t)
  BY <1>1, <1>2, ReplyEnds, QuietIInv DEF IInv, Error
<1>3. CASE ~Error(t)
  <2>. DEFINE sink(x)  == call[t].sink \o x
              token(n) == NextForwardToken(call[t], n)
  <2>1. PICK n, x :
          IF token(n) = call[t].token
          THEN Reply(t, [op |-> "JobLogs", ok |-> TRUE, sink |-> sink(x)])
          ELSE /\ call' = [call EXCEPT ![t].read = n, ![t].token = token(n), ![t].sink = sink(x)]
               /\ Goto(t, "events")
    BY <1>3, Zenon DEF GetLogEvents
  <2>. HIDE DEF sink, token
  <2>2. CASE token(n) = call[t].token
    BY <1>1, <2>1, <2>2, ReplyEnds, QuietIInv DEF IInv
  <2>3. CASE token(n) # call[t].token
    <3>1. StepOf(t) /\ pc'[t] = "events"
      BY <2>1, <2>3 DEF IInv, ConfigInv, Goto, StepOf
    <3>2. QED
      BY <1>1, <3>1, QuietIInv DEF CallOK
  <2>4. QED
    BY <2>2, <2>3
<1>4. QED
  BY <1>2, <1>3 DEF GetLogEvents

-----------------------------------------------------------------------------
\* Owners, regions and ECS.
LEMMA OwnersIInv ==
  ASSUME IInv, NEW t \in Threads,
         \/ ownershipClientLocked(t) \/ GetOwner(t) \/ TagResources(t) \/ GetResources(t)
         \/ AWSConfigSnapshot(t) \/ listAWSRegions(t)
  PROVE  IInv'
<1>1. UNCHANGED << fields, lock, task, handle, calls >>
      /\ pc[t] \in {"owner client", "get owner", "tag", "owners", "config snapshot", "regions"}
  BY DEF ownershipClientLocked, GetOwner, TagResources, GetResources, AWSConfigSnapshot,
         listAWSRegions, Fails, aws, budget
<1>2. CASE \E r : Reply(t, r)
  BY <1>1, <1>2, ReplyEnds, QuietIInv DEF IInv
<1>3. CASE \E q \in {"owners", "tag", "get owner", "regions"} : Goto(t, q)
  <2>1. DOMAIN call' = Threads /\ \A u \in Threads \ {t} : call'[u] = call[u]
    <3>1. CASE call' = call
      BY <3>1 DEF IInv, ConfigInv
    <3>2. CASE ownershipClientLocked(t)
      BY <3>2 DEF ownershipClientLocked, Error, Reply, IInv, ConfigInv
    <3>3. CASE GetResources(t)
      BY <3>3 DEF GetResources, Error, Reply, IInv, ConfigInv
    <3>4. CASE GetOwner(t) \/ TagResources(t) \/ listAWSRegions(t) \/ AWSConfigSnapshot(t)
      BY <3>4 DEF GetOwner, TagResources, listAWSRegions, AWSConfigSnapshot, Error, Reply,
                  IInv, ConfigInv
    <3>5. QED
      BY <3>2, <3>3, <3>4
  <2>2. StepOf(t) /\ pc'[t] \in {"owners", "tag", "get owner", "regions"}
    BY <1>3, <2>1 DEF IInv, ConfigInv, Goto, StepOf
  <2>3. QED
    BY <1>1, <2>2, QuietIInv DEF CallOK
<1>4. QED
  <2>1. CASE ownershipClientLocked(t)
    BY <1>2, <1>3, <2>1 DEF ownershipClientLocked, Error
  <2>2. CASE GetOwner(t) \/ TagResources(t) \/ listAWSRegions(t) \/ AWSConfigSnapshot(t)
    BY <1>2, <1>3, <2>2 DEF GetOwner, TagResources, listAWSRegions, AWSConfigSnapshot, Error
  <2>3. CASE GetResources(t)
    BY <1>2, <1>3, <2>3, Zenon DEF GetResources, Error
  <2>4. QED
    BY <2>1, <2>2, <2>3

\* A task stays in its account.
LEMMA EcsIInv ==
  ASSUME IInv, TaskStep \/ WriteLog
  PROVE  IInv'
<1>1. UNCHANGED << fields, lock, handle, pc, call, calls >>
  BY DEF TaskStep, WriteLog, budget
<1>2. task'.world = task.world \/ task' = task
  BY DEF TaskStep, WriteLog
<1>3. ConfigInv' /\ LockInv' /\ OneConfiguration'
  BY <1>1 DEF IInv, ConfigInv, LockInv, OneConfiguration, fields, lock
<1>4. HandleFindsTask'
  BY <1>1, <1>2 DEF IInv, HandleFindsTask
<1>5. QED
  BY <1>3, <1>4 DEF IInv

-----------------------------------------------------------------------------
LEMMA StepIInv == IInv /\ [Next]_vars => IInv'
<1>. SUFFICES ASSUME IInv, [Next]_vars PROVE IInv'
  OBVIOUS
<1>1. CASE UNCHANGED vars
  BY <1>1 DEF vars, fields, lock, aws, budget, IInv, ConfigInv, LockInv, OneConfiguration,
              HandleFindsTask
<1>2. ASSUME NEW t \in Threads, Locked(t)
      PROVE  IInv'
  BY <1>2, InitializeMockIInv, InitializeRealIInv, BuildAWSConfigIInv, CloseIInv DEF Locked
<1>3. QED
  BY <1>1, <1>2, CallsIInv, RefsIInv, SnapshotIInv, RegisterIInv, RunTaskIInv,
     DescribeTasksIInv, GetLogEventsIInv, OwnersIInv, EcsIInv
  DEF Next

\* The inductive invariant holds.
LEMMA Invariant == Spec => []IInv
BY InitIInv, StepIInv, PTL DEF Spec

\* The provider is in one configuration at a time: a provider in mock mode reaches no
\* account, and one that is not uses drivers and clients of one account only
\* (Initialize, provider.go:88-168).
THEOREM ProviderIsConsistent == Spec => []OneConfiguration
<1>1. IInv => OneConfiguration
  BY DEF IInv
<1>2. QED
  BY <1>1, Invariant, PTL

\* The handle of a job names the cluster of the account in which its task runs,
\* although the provider may be initialized anew between the requests of RunJob
\* (runner.go:65-113).
THEOREM JobsAreFound == Spec => []HandleFindsTask
<1>1. IInv => HandleFindsTask
  BY DEF IInv
<1>2. QED
  BY <1>1, Invariant, PTL

\* At most one handler is between Lock and Unlock of the provider's mutex, it is
\* looking up credentials for Initialize, and nobody reads meanwhile
\* (provider.go:88-168).
THEOREM LockExcludes == Spec => []LockInv
<1>1. IInv => LockInv
  BY DEF IInv
<1>2. QED
  BY <1>1, Invariant, PTL

-----------------------------------------------------------------------------
(***************************************************************************)
(* What the provider replies: a resource that is reported as destroyed is  *)
(* gone from the world whose driver was asked, and the verdict about a job *)
(* follows from the exit code of its container. Both rest on what a        *)
(* handler's call holds wherever it is, and so on the types of the         *)
(* specification.                                                          *)
(***************************************************************************)

\* The operations that work on one resource after the other.
RefOps == {"Destroy", "Status", "DetectDrift", "Create"}

Places == {"idle", "lock", "credentials", "check", "lookup", "driver", "snapshot", "register",
           "run", "describe", "events", "owner client", "get owner", "tag", "owners",
           "config snapshot", "regions"}

\* The call of a loop over resources.
RefCall(c) ==
  /\ {"op", "left", "world", "good", "bad"} \subseteq DOMAIN c
  /\ c.op \in RefOps /\ c.left \in Seq(Names) /\ c.good \subseteq Names /\ c.bad \subseteq Names

\* A loop has a resource left, none twice, and none of those it has dealt with.
Looping(c) ==
  /\ RefCall(c) /\ c.left # << >>
  /\ \A i, j \in 1 .. Len(c.left) : c.left[i] = c.left[j] => i = j
  /\ \A i \in 1 .. Len(c.left) : c.left[i] \notin c.good

\* Where a handler is, what its call is and what it replied last.
Shape(p, c, r) ==
  /\ p \in Places
  /\ p = "idle" => c = NoCall
  /\ p # "idle" => "op" \in DOMAIN c /\ c.op \in Ops /\ r = NoCall
  /\ r.op \in Ops \cup {"none"}
  /\ p \in {"check", "lookup", "driver"} => Looping(c)
  /\ p = "driver" => c.world \in Worlds /\ Head(c.left) \notin Unknown
  /\ p \in {"owner client", "tag"} => "owner" \in DOMAIN c
  /\ p \in {"owner client", "tag"} /\ c.op = "SetOwner" => c.owner \in Owners
  /\ p = "tag" => c.op = "SetOwner"

FieldsOK ==
  /\ initialized \in BOOLEAN /\ cfg \in Accounts \cup {Mock, None}
  /\ driverMap \in Worlds \cup {None}
  /\ {ownershipClient, runnerClient, runnerConfig} \subseteq Accounts \cup {None}

AwsOK ==
  /\ resources \in [Worlds -> SUBSET Names]
  /\ owners \in [Accounts -> [Names -> Owners \cup {None}]]

TInv ==
  /\ DOMAIN reply = Threads
  /\ \A t \in Threads : Shape(pc[t], call[t], reply[t])
  /\ FieldsOK /\ AwsOK

\* A step of t alone, with its reply.
RepliesOnly(t) ==
  /\ StepOf(t)
  /\ DOMAIN reply' = Threads
  /\ \A u \in Threads \ {t} : reply'[u] = reply[u]

LEMMA InitTInv == Init => TInv
<1>1. Shape("idle", NoCall, NoCall)
  BY DEF Shape, NoCall, Places
<1>2. Init => FieldsOK
  BY DEF Init, FieldsOK
<1>3. Init => AwsOK
  BY DEF Init, AwsOK
<1>4. QED
  BY <1>1, <1>2, <1>3 DEF Init, TInv

\* The invariant after a step of t.
LEMMA StepShape ==
  ASSUME TInv, NEW t \in Threads, RepliesOnly(t), Shape(pc'[t], call'[t], reply'[t]),
         FieldsOK', AwsOK'
  PROVE  TInv'
BY DEF TInv, RepliesOnly, StepOf

LEMMA ReplyShape ==
  ASSUME IInv, TInv, NEW t \in Threads, NEW r, Reply(t, r), r.op \in Ops
  PROVE  RepliesOnly(t) /\ pc'[t] = "idle" /\ reply'[t] = r /\ Shape(pc'[t], call'[t], reply'[t])
BY DEF IInv, ConfigInv, TInv, Reply, RepliesOnly, StepOf, Shape, Places, NoCall

\* An error is a reply to what was asked.
LEMMA ErrorShape ==
  ASSUME IInv, TInv, NEW t \in Threads, pc[t] # "idle", Error(t)
  PROVE  /\ RepliesOnly(t) /\ pc'[t] = "idle" /\ reply'[t].ok = FALSE
         /\ Shape(pc'[t], call'[t], reply'[t])
<1>1. call[t].op \in Ops
  BY DEF TInv, Shape
<1>. DEFINE r == [op |-> call[t].op, ok |-> FALSE]
<1>2. r.op \in Ops /\ r.ok = FALSE /\ Reply(t, r)
  BY <1>1 DEF Error
<1>. HIDE DEF r
<1>3. QED
  BY <1>2, ReplyShape

\* A call that goes on as it is.
LEMMA GotoShape ==
  ASSUME IInv, TInv, NEW t \in Threads, NEW q, Goto(t, q), UNCHANGED call
  PROVE  RepliesOnly(t) /\ pc'[t] = q /\ call'[t] = call[t] /\ reply'[t] = reply[t]
BY DEF IInv, ConfigInv, TInv, Goto, RepliesOnly, StepOf

-----------------------------------------------------------------------------
LEMMA ArriveTInv ==
  ASSUME IInv, TInv, NEW t \in Threads, NEW c, NEW q, Arrive(t, c, q), q # "idle",
         \A r : r = NoCall => Shape(q, c, r)
  PROVE  TInv'
<1>1. RepliesOnly(t) /\ pc'[t] = q /\ call'[t] = c /\ reply'[t] = NoCall
  BY DEF IInv, ConfigInv, TInv, Arrive, RepliesOnly, StepOf
<1>2. FieldsOK' /\ AwsOK'
  BY DEF TInv, FieldsOK, AwsOK, Arrive, fields, aws
<1>3. QED
  BY <1>1, <1>2, StepShape

\* What a handler calls for.
LEMMA CallsTInv ==
  ASSUME IInv, TInv, NEW t \in Threads,
         \/ CallInitialize(t) \/ CallClose(t) \/ CallRefs(t) \/ CallRunner(t)
         \/ CallOwner(t) \/ ListRegions(t)
  PROVE  TInv'
<1>1. CASE CallInitialize(t)
  <2>1. PICK c \in Configs : Arrive(t, [op |-> "Initialize", config |-> c], "lock")
    BY <1>1 DEF CallInitialize
  <2>2. \A r : r = NoCall => Shape("lock", [op |-> "Initialize", config |-> c], r)
    BY DEF Shape, Places, Ops, NoCall
  <2>3. QED
    BY <2>1, <2>2, ArriveTInv
<1>2. CASE CallClose(t)
  <2>1. \A r : r = NoCall => Shape("lock", [op |-> "Close"], r)
    BY DEF Shape, Places, Ops, NoCall
  <2>2. QED
    BY <1>2, <2>1, ArriveTInv DEF CallClose
<1>3. CASE CallRefs(t)
  <2>1. PICK op \in RefOps, refs \in RefLists :
          Arrive(t, [op |-> op, refs |-> refs, left |-> refs, world |-> None,
                     good |-> {}, bad |-> {}],
                 IF op = "DetectDrift" THEN "check" ELSE "lookup")
    BY <1>3 DEF CallRefs, RefOps
  <2>. DEFINE c == [op |-> op, refs |-> refs, left |-> refs, world |-> None,
                    good |-> {}, bad |-> {}]
              q == IF op = "DetectDrift" THEN "check" ELSE "lookup"
  <2>2. refs # << >> /\ refs \in Seq(Names)
        /\ \A i, j \in 1 .. Len(refs) : refs[i] = refs[j] => i = j
    BY ProviderAssumption DEF ProviderAssumption, IsInjective
  <2>3. Looping(c)
    BY <2>2 DEF Looping, RefCall
  <2>4. \A r : r = NoCall => Shape(q, c, r)
    BY <2>3 DEF Shape, Places, Ops, RefOps, NoCall
  <2>5. q # "idle"
    OBVIOUS
  <2>6. Arrive(t, c, q)
    BY <2>1
  <2>. HIDE DEF c, q
  <2>7. QED
    BY <2>4, <2>5, <2>6, ArriveTInv
<1>4. CASE CallRunner(t)
  <2>1. PICK c : Arrive(t, c, "snapshot") /\ "op" \in DOMAIN c /\ c.op \in Ops
    <3>1. ASSUME Arrive(t, [op |-> "RunJob", client |-> None, config |-> None], "snapshot")
          PROVE  \E c : Arrive(t, c, "snapshot") /\ "op" \in DOMAIN c /\ c.op \in Ops
      BY <3>1 DEF Ops
    <3>2. ASSUME NEW op \in {"JobStatus", "JobLogs"},
                 Arrive(t, [op |-> op, client |-> None, config |-> None,
                            read |-> 0, token |-> None, sink |-> << >>], "snapshot")
          PROVE  \E c : Arrive(t, c, "snapshot") /\ "op" \in DOMAIN c /\ c.op \in Ops
      BY <3>2 DEF Ops
    <3>3. QED
      BY <1>4, <3>1, <3>2 DEF CallRunner
  <2>2. \A r : r = NoCall => Shape("snapshot", c, r)
    BY <2>1 DEF Shape, Places, NoCall
  <2>3. QED
    BY <2>1, <2>2, ArriveTInv
<1>5. CASE CallOwner(t)
  <2>1. ASSUME NEW op \in {"GetOwner", "SetOwner"}, NEW n \in Names, NEW o \in Owners,
               Arrive(t, [op |-> op, name |-> n, owner |-> o, client |-> None], "owner client")
        PROVE  TInv'
    <3>. DEFINE c == [op |-> op, name |-> n, owner |-> o, client |-> None]
    <3>1. "op" \in DOMAIN c /\ "owner" \in DOMAIN c
      OBVIOUS
    <3>2. c.op \in Ops /\ c.op # "none" /\ c.owner \in Owners
      BY DEF Ops
    <3>3. Arrive(t, c, "owner client")
      BY <2>1
    <3>. HIDE DEF c
    <3>4. \A r : r = NoCall => Shape("owner client", c, r)
      BY <3>1, <3>2 DEF Shape, Places, NoCall
    <3>5. QED
      BY <3>3, <3>4, ArriveTInv
  <2>2. ASSUME NEW o \in Owners \cup {None},
               Arrive(t, [op |-> "ListOwners", owner |-> o, client |-> None,
                          left |-> Names, listed |-> {}, before |-> {}], "owner client")
        PROVE  TInv'
    <3>. DEFINE c == [op |-> "ListOwners", owner |-> o, client |-> None,
                      left |-> Names, listed |-> {}, before |-> {}]
    <3>1. "op" \in DOMAIN c /\ "owner" \in DOMAIN c /\ c.op = "ListOwners"
      OBVIOUS
    <3>2. Arrive(t, c, "owner client")
      BY <2>2
    <3>. HIDE DEF c
    <3>3. \A r : r = NoCall => Shape("owner client", c, r)
      BY <3>1 DEF Shape, Places, Ops, NoCall
    <3>4. QED
      BY <3>2, <3>3, ArriveTInv
  <2>3. QED
    BY <1>5, <2>1, <2>2 DEF CallOwner
<1>6. CASE ListRegions(t)
  <2>1. \A r : r = NoCall => Shape("config snapshot", [op |-> "ListRegions"], r)
    BY DEF Shape, Places, Ops, NoCall
  <2>2. QED
    BY <1>6, <2>1, ArriveTInv DEF ListRegions
<1>7. QED
  BY <1>1, <1>2, <1>3, <1>4, <1>5, <1>6

\* Initialize and Close.
LEMMA InitializeTInv ==
  ASSUME IInv, TInv, NEW t \in Threads, Locked(t)
  PROVE  TInv'
<1>1. CASE InitializeMock(t)
  <2>1. RepliesOnly(t) /\ Shape(pc'[t], call'[t], reply'[t])
    BY <1>1, ReplyShape DEF InitializeMock, Ops
  <2>2. calls + 1 \in 1 .. MaxCalls
    BY <1>1, ProviderAssumption DEF IInv, ConfigInv, InitializeMock, ProviderAssumption
  <2>3. FieldsOK' /\ AwsOK'
    BY <1>1, <2>2 DEF InitializeMock, TInv, FieldsOK, AwsOK, Worlds, aws
  <2>4. QED
    BY <2>1, <2>3, StepShape
<1>2. CASE InitializeReal(t)
  <2>1. RepliesOnly(t) /\ pc'[t] = "credentials" /\ call'[t] = call[t] /\ reply'[t] = reply[t]
    BY <1>2, GotoShape DEF InitializeReal
  <2>2. Shape(pc'[t], call'[t], reply'[t])
    BY <1>2, <2>1 DEF InitializeReal, TInv, Shape, Places
  <2>3. FieldsOK' /\ AwsOK'
    BY <1>2 DEF InitializeReal, TInv, FieldsOK, AwsOK, fields, aws
  <2>4. QED
    BY <2>1, <2>2, <2>3, StepShape
<1>3. CASE BuildAWSConfig(t)
  <2>1. RepliesOnly(t) /\ Shape(pc'[t], call'[t], reply'[t])
    BY <1>3, ReplyShape, ErrorShape DEF BuildAWSConfig, Ops
  <2>2. FieldsOK' /\ AwsOK'
    BY <1>3 DEF BuildAWSConfig, TInv, FieldsOK, AwsOK, Worlds, fields, aws
  <2>3. QED
    BY <2>1, <2>2, StepShape
<1>4. CASE Close(t)
  <2>1. RepliesOnly(t) /\ Shape(pc'[t], call'[t], reply'[t])
    BY <1>4, ReplyShape DEF Close, Ops
  <2>2. FieldsOK' /\ AwsOK'
    BY <1>4 DEF Close, TInv, FieldsOK, AwsOK, aws
  <2>3. QED
    BY <2>1, <2>2, StepShape
<1>5. QED
  BY <1>1, <1>2, <1>3, <1>4 DEF Locked

-----------------------------------------------------------------------------
\* Loops over resources: a resource that was dealt with is not left any more.
LEMMA NoteShape ==
  ASSUME IInv, TInv, NEW t \in Threads, pc[t] \in {"lookup", "driver"},
         NEW good \in SUBSET {Head(call[t].left)}, NEW bad \in SUBSET {Head(call[t].left)},
         Note(t, good, bad)
  PROVE  /\ RepliesOnly(t) /\ Shape(pc'[t], call'[t], reply'[t])
         /\ pc'[t] \in {"idle", "lookup"}
         /\ pc'[t] = "idle" => /\ reply'[t].op = call[t].op
                               /\ reply'[t].good = call[t].good \cup good
         /\ pc'[t] = "lookup" => /\ reply'[t] = NoCall
                                 /\ call'[t].good = call[t].good \cup good
<1>. DEFINE c == call[t]
            r == [op |-> c.op, ok |-> TRUE, good |-> c.good \cup good, bad |-> c.bad \cup bad]
            d == [c EXCEPT !.left = Tail(c.left), !.good = r.good, !.bad = r.bad]
<1>1. Looping(c) /\ c.op \in Ops /\ reply[t] = NoCall
  BY DEF TInv, Shape
<1>2. c.left \in Seq(Names) /\ c.left # << >> /\ c.good \subseteq Names /\ c.bad \subseteq Names
  BY <1>1 DEF Looping, RefCall
<1>3. Len(c.left) \in Nat /\ Len(c.left) >= 1 /\ Head(c.left) = c.left[1] /\ Head(c.left) \in Names
  BY <1>2
<1>4. r.op = c.op /\ r.good = c.good \cup good /\ r.bad = c.bad \cup bad
  OBVIOUS
<1>5. CASE Len(c.left) = 1
  <2>1. Reply(t, r)
    BY <1>5 DEF Note
  <2>2. c.op \in Ops /\ r.op \in Ops
    BY <1>1, <1>4
  <2>. HIDE DEF r
  <2>3. RepliesOnly(t) /\ pc'[t] = "idle" /\ reply'[t] = r /\ Shape(pc'[t], call'[t], reply'[t])
    BY <2>1, <2>2, ReplyShape
  <2>4. QED
    BY <2>3, <1>4
<1>6. CASE Len(c.left) # 1
  <2>1. Goto(t, "lookup") /\ call' = [call EXCEPT ![t] = d]
    BY <1>6 DEF Note, IInv, ConfigInv
  <2>2. call'[t] = d
    BY <2>1 DEF IInv, ConfigInv
  <2>3. Tail(c.left) \in Seq(Names) /\ Len(Tail(c.left)) = Len(c.left) - 1
        /\ \A i \in 1 .. Len(c.left) - 1 : Tail(c.left)[i] = c.left[i + 1]
    BY <1>2
  <2>4. RefCall(d) /\ d.left = Tail(c.left) /\ d.good = c.good \cup good /\ d.op = c.op
    <3>1. r.good \in SUBSET Names /\ r.bad \in SUBSET Names
      BY <1>2, <1>3, <1>4
    <3>2. RefCall(c)
      BY <1>1 DEF Looping
    <3>. HIDE DEF r, c
    <3>3. DOMAIN d = DOMAIN c
      OBVIOUS
    <3>4. d.left = Tail(c.left) /\ d.good = r.good /\ d.bad = r.bad
      BY <3>2 DEF RefCall
    <3>5. d.op = c.op
      BY <3>2 DEF RefCall
    <3>. HIDE DEF d
    <3>6. QED
      BY <1>4, <2>3, <3>1, <3>2, <3>3, <3>4, <3>5 DEF RefCall
  <2>. HIDE DEF d, r
  <2>5. Looping(d)
    <3>1. Len(d.left) = Len(c.left) - 1 /\ d.left # << >>
      <4>1. Len(d.left) = Len(c.left) - 1
        BY <2>3, <2>4
      <4>2. d.left = << >> => Len(d.left) = 0
        OBVIOUS
      <4>3. QED
        BY <4>1, <4>2, <1>3, <1>6
    <3>2. \A i \in 1 .. Len(d.left) : d.left[i] = c.left[i + 1]
      BY <2>3, <2>4, <3>1
    <3>3. \A i, j \in 1 .. Len(d.left) : d.left[i] = d.left[j] => i = j
      <4>. SUFFICES ASSUME NEW i \in 1 .. Len(d.left), NEW j \in 1 .. Len(d.left),
                           d.left[i] = d.left[j]
                    PROVE  i = j
        OBVIOUS
      <4>1. i + 1 \in 1 .. Len(c.left) /\ j + 1 \in 1 .. Len(c.left)
        BY <1>3, <3>1
      <4>2. c.left[i + 1] = c.left[j + 1]
        BY <3>2
      <4>3. QED
        BY <1>1, <4>1, <4>2 DEF Looping
    <3>4. \A i \in 1 .. Len(d.left) : d.left[i] \notin d.good
      <4>. SUFFICES ASSUME NEW i \in 1 .. Len(d.left)
                    PROVE  d.left[i] \notin d.good
        OBVIOUS
      <4>1. i + 1 \in 1 .. Len(c.left) /\ 1 \in 1 .. Len(c.left) /\ i + 1 # 1
        BY <1>3, <3>1
      <4>2. d.left[i] = c.left[i + 1] /\ c.left[i + 1] \notin c.good /\ c.left[i + 1] # c.left[1]
        BY <1>1, <3>2, <4>1 DEF Looping
      <4>3. QED
        BY <1>3, <2>4, <4>2
    <3>5. QED
      BY <2>4, <3>1, <3>3, <3>4 DEF Looping
  <2>6. RepliesOnly(t) /\ pc'[t] = "lookup" /\ reply'[t] = reply[t]
    BY <2>1 DEF IInv, ConfigInv, TInv, Goto, RepliesOnly, StepOf
  <2>7. "op" \in DOMAIN d
    BY <2>4 DEF RefCall
  <2>8. Shape("lookup", d, NoCall)
    BY <1>1, <2>4, <2>5, <2>7 DEF Shape, Places, NoCall
  <2>9. QED
    BY <1>1, <2>2, <2>4, <2>6, <2>8
<1>7. QED
  BY <1>5, <1>6

\* A handler that changes neither the provider nor AWS.
LEMMA QuietTInv ==
  ASSUME TInv, NEW t \in Threads, RepliesOnly(t), Shape(pc'[t], call'[t], reply'[t]),
         UNCHANGED fields, UNCHANGED aws
  PROVE  TInv'
BY StepShape DEF TInv, FieldsOK, AwsOK, fields, aws

\* What a driver that answers or fails does to a loop.
LEMMA DriverNotes ==
  ASSUME NEW t \in Threads, DriverCall(t)
  PROVE  \E good, bad \in SUBSET {Head(call[t].left)} : Note(t, good, bad)
<1>1. {} \in SUBSET {Head(call[t].left)} /\ {Head(call[t].left)} \in SUBSET {Head(call[t].left)}
  OBVIOUS
<1>2. QED
  BY <1>1 DEF DriverCall

LEMMA RefsTInv ==
  ASSUME IInv, TInv, NEW t \in Threads,
         ensureInitialized(t) \/ initializedResourceDriver(t) \/ DriverCall(t)
  PROVE  TInv'
<1>1. CASE ensureInitialized(t)
  <2>1. pc[t] = "check" /\ UNCHANGED << fields, aws >>
    BY <1>1 DEF ensureInitialized
  <2>2. CASE Error(t)
    BY <2>1, <2>2, ErrorShape, QuietTInv
  <2>3. CASE Goto(t, "lookup") /\ UNCHANGED call
    <3>1. RepliesOnly(t) /\ pc'[t] = "lookup" /\ call'[t] = call[t] /\ reply'[t] = reply[t]
      BY <2>3, GotoShape
    <3>2. Shape(pc'[t], call'[t], reply'[t])
      BY <2>1, <3>1 DEF TInv, Shape, Places
    <3>3. QED
      BY <2>1, <3>1, <3>2, QuietTInv
  <2>4. QED
    BY <1>1, <2>2, <2>3 DEF ensureInitialized
<1>2. CASE initializedResourceDriver(t)
  <2>1. pc[t] = "lookup" /\ UNCHANGED << fields, aws >>
    BY <1>2 DEF initializedResourceDriver
  <2>2. CASE Note(t, {}, IF call[t].op = "DetectDrift" THEN {} ELSE {Head(call[t].left)})
    BY <2>1, <2>2, NoteShape, QuietTInv
  <2>3. CASE /\ resourceDriver(t) /\ Goto(t, "driver")
             /\ call' = [call EXCEPT ![t].world = driverMap]
    <3>. DEFINE c == call[t]
                d == [c EXCEPT !.world = driverMap]
    <3>1. Looping(c) /\ c.op \in Ops /\ reply[t] = NoCall
      BY <2>1 DEF TInv, Shape
    <3>2. call'[t] = d
      BY <2>3 DEF IInv, ConfigInv
    <3>3. RefCall(c)
      BY <3>1 DEF Looping
    <3>4. DOMAIN d = DOMAIN c
      OBVIOUS
    <3>5. d.world = driverMap /\ d.left = c.left /\ d.good = c.good /\ d.bad = c.bad
      BY <3>3 DEF RefCall
    <3>6. d.op = c.op
      BY <3>3 DEF RefCall
    <3>7. driverMap \in Worlds /\ Head(c.left) \notin Unknown
      BY <2>3 DEF TInv, FieldsOK, resourceDriver
    <3>8. RepliesOnly(t) /\ pc'[t] = "driver" /\ reply'[t] = reply[t]
      BY <2>3 DEF IInv, ConfigInv, TInv, Goto, RepliesOnly, StepOf
    <3>. HIDE DEF d
    <3>9. Looping(d)
      BY <3>1, <3>4, <3>5, <3>6 DEF Looping, RefCall
    <3>10. "op" \in DOMAIN d
      BY <3>3, <3>4 DEF RefCall
    <3>11. Shape("driver", d, NoCall)
      BY <3>1, <3>5, <3>6, <3>7, <3>9, <3>10 DEF Shape, Places, NoCall
    <3>12. QED
      BY <2>1, <3>1, <3>2, <3>8, <3>11, QuietTInv
  <2>4. QED
    BY <1>2, <2>2, <2>3 DEF initializedResourceDriver
<1>3. CASE DriverCall(t)
  <2>1. pc[t] = "driver" /\ UNCHANGED << fields, owners, task >>
    BY <1>3 DEF DriverCall
  <2>2. RepliesOnly(t) /\ Shape(pc'[t], call'[t], reply'[t])
    BY <1>3, <2>1, DriverNotes, NoteShape
  <2>3. Looping(call[t])
    BY <2>1 DEF TInv, Shape
  <2>4. Head(call[t].left) \in Names
    BY <2>3 DEF Looping, RefCall
  <2>5. resources' = resources \/ Effect(call[t].op, Head(call[t].left), call[t].world)
    BY <1>3 DEF DriverCall
  <2>6. resources' \in [Worlds -> SUBSET Names]
    BY <2>4, <2>5 DEF TInv, AwsOK, Effect
  <2>7. FieldsOK' /\ AwsOK'
    BY <2>1, <2>6 DEF TInv, FieldsOK, AwsOK, fields
  <2>8. QED
    BY <2>2, <2>7, StepShape
<1>4. QED
  BY <1>1, <1>2, <1>3

-----------------------------------------------------------------------------
\* The job runner.
LEMMA RunnerTInv ==
  ASSUME IInv, TInv, NEW t \in Threads,
         Snapshot(t) \/ RegisterTaskDefinition(t) \/ RunTask(t) \/ DescribeTasks(t)
  PROVE  TInv'
<1>1. CASE Snapshot(t)
  <2>1. pc[t] = "snapshot" /\ UNCHANGED << fields, aws >>
        /\ "op" \in DOMAIN call[t] /\ call[t].op \in Ops /\ reply[t] = NoCall
    BY <1>1 DEF Snapshot, TInv, Shape
  <2>2. CASE Error(t)
    BY <2>1, <2>2, ErrorShape, QuietTInv
  <2>3. CASE /\ call' = [call EXCEPT ![t].client = runnerClient, ![t].config = runnerConfig]
             /\ Goto(t, IF call[t].op = "RunJob" THEN "register"
                        ELSE IF call[t].op = "JobStatus" THEN "describe" ELSE "events")
    <3>1. call'[t] = [call[t] EXCEPT !.client = runnerClient, !.config = runnerConfig]
      BY <2>3 DEF IInv, ConfigInv
    <3>2. "op" \in DOMAIN call'[t] /\ call'[t].op = call[t].op
      BY <2>1, <3>1
    <3>3. RepliesOnly(t) /\ pc'[t] \in {"register", "describe", "events"} /\ reply'[t] = reply[t]
      BY <2>3 DEF IInv, ConfigInv, TInv, Goto, RepliesOnly, StepOf
    <3>4. Shape(pc'[t], call'[t], reply'[t])
      <4>1. NoCall.op = "none"
        BY DEF NoCall
      <4>2. reply'[t] = NoCall
        BY <2>1, <3>3
      <4>3. QED
        BY <2>1, <3>2, <3>3, <4>1, <4>2 DEF Shape, Places
    <3>5. QED
      BY <2>1, <3>3, <3>4, QuietTInv
  <2>4. QED
    BY <1>1, <2>2, <2>3 DEF Snapshot
<1>2. CASE RegisterTaskDefinition(t)
  <2>1. pc[t] = "register" /\ UNCHANGED << fields, aws >>
    BY <1>2 DEF RegisterTaskDefinition
  <2>2. CASE Error(t)
    BY <2>1, <2>2, ErrorShape, QuietTInv
  <2>3. CASE Goto(t, "run") /\ UNCHANGED call
    <3>1. RepliesOnly(t) /\ pc'[t] = "run" /\ call'[t] = call[t] /\ reply'[t] = reply[t]
      BY <2>3, GotoShape
    <3>2. Shape(pc'[t], call'[t], reply'[t])
      BY <2>1, <3>1 DEF TInv, Shape, Places
    <3>3. QED
      BY <2>1, <3>1, <3>2, QuietTInv
  <2>4. QED
    BY <1>2, <2>2, <2>3 DEF RegisterTaskDefinition
<1>3. CASE RunTask(t)
  <2>1. pc[t] = "run" /\ UNCHANGED << fields, resources, owners >>
    BY <1>3 DEF RunTask
  <2>2. RepliesOnly(t) /\ Shape(pc'[t], call'[t], reply'[t])
    BY <1>3, <2>1, ReplyShape, ErrorShape DEF RunTask, Ops
  <2>3. FieldsOK' /\ AwsOK'
    BY <2>1 DEF TInv, FieldsOK, AwsOK, fields
  <2>4. QED
    BY <2>2, <2>3, StepShape
<1>4. CASE DescribeTasks(t)
  <2>1. pc[t] = "describe" /\ UNCHANGED << fields, aws >>
    BY <1>4 DEF DescribeTasks
  <2>2. CASE Error(t)
    BY <2>1, <2>2, ErrorShape, QuietTInv
  <2>3. CASE Reply(t, [op |-> "JobStatus", ok |-> TRUE, state |-> awsTaskState(task)])
    <3>1. RepliesOnly(t) /\ Shape(pc'[t], call'[t], reply'[t])
      BY <2>3, ReplyShape DEF Ops
    <3>2. QED
      BY <2>1, <3>1, QuietTInv
  <2>4. QED
    BY <1>4, <2>2, <2>3 DEF DescribeTasks
<1>5. QED
  BY <1>1, <1>2, <1>3, <1>4

LEMMA GetLogEventsTInv ==
  ASSUME IInv, TInv, NEW t \in Threads, GetLogEvents(t)
  PROVE  TInv'
<1>1. pc[t] = "events" /\ UNCHANGED << fields, aws >>
      /\ "op" \in DOMAIN call[t] /\ call[t].op \in Ops /\ reply[t] = NoCall
  BY DEF GetLogEvents, TInv, Shape
<1>2. CASE Error(t)
  BY <1>1, <1>2, ErrorShape, QuietTInv
<1>3. CASE ~Error(t)
  <2>. DEFINE sink(x)  == call[t].sink \o x
              token(n) == NextForwardToken(call[t], n)
              r(x)     == [op |-> "JobLogs", ok |-> TRUE, sink |-> sink(x)]
  <2>1. PICK n, x :
          IF token(n) = call[t].token
          THEN Reply(t, r(x))
          ELSE /\ call' = [call EXCEPT ![t].read = n, ![t].token = token(n), ![t].sink = sink(x)]
               /\ Goto(t, "events")
    BY <1>3, Zenon DEF GetLogEvents
  <2>2. r(x).op \in Ops
    BY DEF Ops
  <2>. HIDE DEF sink, token, r
  <2>3. CASE token(n) = call[t].token
    BY <1>1, <2>1, <2>2, <2>3, ReplyShape, QuietTInv
  <2>4. CASE token(n) # call[t].token
    <3>1. call'[t] = [call[t] EXCEPT !.read = n, !.token = token(n), !.sink = sink(x)]
      BY <2>1, <2>4 DEF IInv, ConfigInv
    <3>2. "op" \in DOMAIN call'[t] /\ call'[t].op = call[t].op
      BY <1>1, <3>1
    <3>3. RepliesOnly(t) /\ pc'[t] = "events" /\ reply'[t] = reply[t]
      BY <2>1, <2>4 DEF IInv, ConfigInv, TInv, Goto, RepliesOnly, StepOf
    <3>4. Shape(pc'[t], call'[t], reply'[t])
      BY <1>1, <3>2, <3>3 DEF Shape, Places, NoCall
    <3>5. QED
      BY <1>1, <3>3, <3>4, QuietTInv
  <2>5. QED
    BY <2>3, <2>4
<1>4. QED
  BY <1>2, <1>3 DEF GetLogEvents

-----------------------------------------------------------------------------
\* Owners and regions.
LEMMA OwnershipTInv ==
  ASSUME IInv, TInv, NEW t \in Threads, ownershipClientLocked(t)
  PROVE  TInv'
<1>1. pc[t] = "owner client" /\ UNCHANGED << fields, aws >>
  BY DEF ownershipClientLocked
<1>2. "op" \in DOMAIN call[t] /\ "owner" \in DOMAIN call[t] /\ call[t].op \in Ops
      /\ reply[t] = NoCall /\ (call[t].op = "SetOwner" => call[t].owner \in Owners)
  BY <1>1 DEF TInv, Shape
<1>3. CASE Error(t)
  BY <1>1, <1>3, ErrorShape, QuietTInv
<1>4. CASE ~Error(t)
  <2>1. /\ call' = IF call[t].op = "ListOwners"
                   THEN [call EXCEPT ![t].client = ownershipClient,
                                     ![t].before = Tagged(ownershipClient)]
                   ELSE [call EXCEPT ![t].client = ownershipClient]
        /\ Goto(t, IF call[t].op = "ListOwners" THEN "owners"
                   ELSE IF call[t].op = "SetOwner" THEN "tag" ELSE "get owner")
    BY <1>4, Zenon DEF ownershipClientLocked
  <2>2. "op" \in DOMAIN call'[t] /\ "owner" \in DOMAIN call'[t]
        /\ call'[t].op = call[t].op /\ call'[t].owner = call[t].owner
    <3>1. CASE call[t].op = "ListOwners"
      <4>1. call'[t] = [call[t] EXCEPT !.client = ownershipClient,
                                       !.before = Tagged(ownershipClient)]
        BY <2>1, <3>1 DEF IInv, ConfigInv
      <4>2. QED
        BY <1>2, <4>1
    <3>2. CASE call[t].op # "ListOwners"
      <4>1. call'[t] = [call[t] EXCEPT !.client = ownershipClient]
        BY <2>1, <3>2 DEF IInv, ConfigInv
      <4>2. QED
        BY <1>2, <4>1
    <3>3. QED
      BY <3>1, <3>2
  <2>3. DOMAIN call' = Threads /\ \A u \in Threads \ {t} : call'[u] = call[u]
    BY <2>1 DEF IInv, ConfigInv
  <2>4. RepliesOnly(t) /\ reply'[t] = reply[t]
        /\ pc'[t] = IF call[t].op = "ListOwners" THEN "owners"
                    ELSE IF call[t].op = "SetOwner" THEN "tag" ELSE "get owner"
    BY <2>1, <2>3 DEF IInv, ConfigInv, TInv, Goto, RepliesOnly, StepOf
  <2>5. Shape(pc'[t], call'[t], reply'[t])
    <3>1. NoCall.op = "none"
      BY DEF NoCall
    <3>2. QED
      BY <1>2, <2>2, <2>4, <3>1 DEF Shape, Places
  <2>6. QED
    BY <1>1, <2>4, <2>5, QuietTInv
<1>5. QED
  BY <1>3, <1>4

LEMMA GetResourcesTInv ==
  ASSUME IInv, TInv, NEW t \in Threads, GetResources(t)
  PROVE  TInv'
<1>1. pc[t] = "owners" /\ UNCHANGED << fields, aws >>
      /\ "op" \in DOMAIN call[t] /\ call[t].op \in Ops /\ reply[t] = NoCall
  BY DEF GetResources, TInv, Shape
<1>2. CASE Error(t)
  BY <1>1, <1>2, ErrorShape, QuietTInv
<1>3. CASE ~Error(t)
  <2>. DEFINE listed(p) == call[t].listed \cup Entries(p, call[t].client, call[t].owner)
              r(p)      == [op |-> "ListOwners", ok |-> TRUE, owner |-> call[t].owner,
                            listed |-> listed(p), before |-> call[t].before]
  <2>1. PICK page :
          \/ Reply(t, r(page))
          \/ /\ call' = [call EXCEPT ![t].left = call[t].left \ page, ![t].listed = listed(page)]
             /\ Goto(t, "owners")
    BY <1>3, Zenon DEF GetResources
  <2>2. r(page).op \in Ops
    BY DEF Ops
  <2>. HIDE DEF listed, r
  <2>3. CASE Reply(t, r(page))
    BY <1>1, <2>2, <2>3, ReplyShape, QuietTInv
  <2>4. CASE /\ call' = [call EXCEPT ![t].left = call[t].left \ page, ![t].listed = listed(page)]
             /\ Goto(t, "owners")
    <3>1. call'[t] = [call[t] EXCEPT !.left = call[t].left \ page, !.listed = listed(page)]
      BY <2>4 DEF IInv, ConfigInv
    <3>2. "op" \in DOMAIN call'[t] /\ call'[t].op = call[t].op
      BY <1>1, <3>1
    <3>3. RepliesOnly(t) /\ pc'[t] = "owners" /\ reply'[t] = reply[t]
      BY <2>4 DEF IInv, ConfigInv, TInv, Goto, RepliesOnly, StepOf
    <3>4. Shape(pc'[t], call'[t], reply'[t])
      BY <1>1, <3>2, <3>3 DEF Shape, Places, NoCall
    <3>5. QED
      BY <1>1, <3>3, <3>4, QuietTInv
  <2>5. QED
    BY <2>1, <2>3, <2>4
<1>4. QED
  BY <1>2, <1>3

LEMMA OwnersTInv ==
  ASSUME IInv, TInv, NEW t \in Threads,
         GetOwner(t) \/ TagResources(t) \/ AWSConfigSnapshot(t) \/ listAWSRegions(t)
  PROVE  TInv'
<1>1. CASE GetOwner(t) \/ listAWSRegions(t)
  <2>1. pc[t] \in {"get owner", "regions"} /\ UNCHANGED << fields, aws >>
    BY <1>1 DEF GetOwner, listAWSRegions
  <2>2. RepliesOnly(t) /\ Shape(pc'[t], call'[t], reply'[t])
    BY <1>1, <2>1, ReplyShape, ErrorShape DEF GetOwner, listAWSRegions, Ops
  <2>3. QED
    BY <2>1, <2>2, QuietTInv
<1>2. CASE AWSConfigSnapshot(t)
  <2>1. pc[t] = "config snapshot" /\ UNCHANGED << fields, aws >>
    BY <1>2 DEF AWSConfigSnapshot
  <2>2. CASE Goto(t, "regions") /\ UNCHANGED call
    <3>1. RepliesOnly(t) /\ pc'[t] = "regions" /\ call'[t] = call[t] /\ reply'[t] = reply[t]
      BY <2>2, GotoShape
    <3>2. Shape(pc'[t], call'[t], reply'[t])
      BY <2>1, <3>1 DEF TInv, Shape, Places
    <3>3. QED
      BY <2>1, <3>1, <3>2, QuietTInv
  <2>3. CASE Reply(t, [op |-> "ListRegions", ok |-> TRUE])
    <3>1. RepliesOnly(t) /\ Shape(pc'[t], call'[t], reply'[t])
      BY <2>3, ReplyShape DEF Ops
    <3>2. QED
      BY <2>1, <3>1, QuietTInv
  <2>4. QED
    BY <1>2, <2>2, <2>3 DEF AWSConfigSnapshot
<1>3. CASE TagResources(t)
  <2>1. pc[t] = "tag" /\ UNCHANGED << fields, resources, task >>
    BY <1>3 DEF TagResources
  <2>2. RepliesOnly(t) /\ Shape(pc'[t], call'[t], reply'[t])
    BY <1>3, <2>1, ReplyShape, ErrorShape DEF TagResources, Ops
  <2>3. call[t].owner \in Owners
    BY <2>1 DEF TInv, Shape
  <2>4. owners' \in [Accounts -> [Names -> Owners \cup {None}]]
    BY <1>3, <2>3 DEF TagResources, TInv, AwsOK
  <2>5. FieldsOK' /\ AwsOK'
    BY <2>1, <2>4 DEF TInv, FieldsOK, AwsOK, fields
  <2>6. QED
    BY <2>2, <2>5, StepShape
<1>4. QED
  BY <1>1, <1>2, <1>3

LEMMA EcsTInv ==
  ASSUME TInv, TaskStep \/ WriteLog
  PROVE  TInv'
<1>1. UNCHANGED << fields, resources, owners, pc, call, reply >>
  BY DEF TaskStep, WriteLog
<1>2. FieldsOK' /\ AwsOK'
  BY <1>1 DEF TInv, FieldsOK, AwsOK, fields
<1>3. QED
  BY <1>1, <1>2 DEF TInv

LEMMA StepTInv == IInv /\ TInv /\ [Next]_vars => TInv'
<1>. SUFFICES ASSUME IInv, TInv, [Next]_vars PROVE TInv'
  OBVIOUS
<1>1. CASE UNCHANGED vars
  BY <1>1 DEF vars, fields, aws, TInv, FieldsOK, AwsOK
<1>2. QED
  BY <1>1, CallsTInv, InitializeTInv, RefsTInv, RunnerTInv, GetLogEventsTInv, OwnershipTInv,
     GetResourcesTInv, OwnersTInv, EcsTInv
  DEF Next

LEMMA TypeInvariant == Spec => []TInv
BY InitTInv, StepTInv, Invariant, PTL DEF Spec

\* The types of the provider, of what is in AWS and of every handler, at every step.
THEOREM TypesHold == Spec => []TypeOK
<1>1. ASSUME IInv, TInv PROVE TypeOK
  <2>1. /\ initialized \in BOOLEAN /\ cfg \in Accounts \cup {Mock, None}
        /\ driverMap \in Worlds \cup {None}
        /\ {ownershipClient, runnerClient, runnerConfig} \subseteq Accounts \cup {None}
        /\ \A w \in Worlds : resources[w] \subseteq Names
        /\ \A w \in Accounts, n \in Names : owners[w][n] \in Owners \cup {None}
    BY <1>1 DEF TInv, FieldsOK, AwsOK
  <2>2. /\ writer \in Threads \cup {None} /\ readers \subseteq Threads
        /\ writer # None => readers = {}
        /\ \A t \in Threads : writer = t <=> pc[t] = "credentials"
    BY <1>1 DEF IInv, LockInv
  <2>3. ASSUME NEW t \in Threads
        PROVE  /\ pc[t] \in Places
               /\ pc[t] = "idle" <=> call[t] = NoCall
               /\ reply[t].op \in Ops \cup {"none"}
               /\ pc[t] = "driver" => call[t].world \in Worlds /\ Head(call[t].left) \notin Unknown
    <3>1. Shape(pc[t], call[t], reply[t])
      BY <1>1 DEF TInv
    <3>2. NoCall.op \notin Ops
      BY DEF NoCall, Ops
    <3>3. QED
      BY <3>1, <3>2 DEF Shape
  <2>4. QED
    BY <2>1, <2>2, <2>3 DEF TypeOK, Places
<1>2. QED
  BY <1>1, Invariant, TypeInvariant, PTL

-----------------------------------------------------------------------------
(***************************************************************************)
(* Replies.                                                                *)
(***************************************************************************)

\* A step of the handler t, which is not the answer of a driver or of DescribeTasks.
OtherStep(t) ==
  \/ CallInitialize(t) \/ CallClose(t) \/ CallRefs(t) \/ CallRunner(t) \/ Locked(t)
  \/ ensureInitialized(t) \/ initializedResourceDriver(t)
  \/ Snapshot(t) \/ RegisterTaskDefinition(t) \/ RunTask(t) \/ GetLogEvents(t)
  \/ CallOwner(t) \/ ownershipClientLocked(t) \/ GetOwner(t) \/ TagResources(t) \/ GetResources(t)
  \/ ListRegions(t) \/ AWSConfigSnapshot(t) \/ listAWSRegions(t)

StepBy(t) == OtherStep(t) \/ DriverCall(t) \/ DescribeTasks(t)

\* One handler does not move another.
LEMMA OthersStay ==
  ASSUME IInv, TInv, NEW t \in Threads, NEW u \in Threads, u # t, StepBy(u)
  PROVE  pc'[t] = pc[t] /\ call'[t] = call[t] /\ reply'[t] = reply[t]
BY DEF StepBy, OtherStep, CallInitialize, CallClose, CallRefs, CallRunner, CallOwner, ListRegions,
       Locked, ensureInitialized, initializedResourceDriver, DriverCall, Snapshot,
       RegisterTaskDefinition, RunTask, DescribeTasks, GetLogEvents, ownershipClientLocked,
       GetOwner, TagResources, GetResources, AWSConfigSnapshot, listAWSRegions, InitializeMock,
       InitializeReal, BuildAWSConfig, Close, Arrive, Goto, Reply, Error, Note,
       IInv, ConfigInv, TInv

\* So a handler that moves does a step of its own.
LEMMA Mover ==
  ASSUME IInv, TInv, [Next]_vars, NEW t \in Threads,
         pc'[t] # pc[t] \/ call'[t] # call[t] \/ reply'[t] # reply[t]
  PROVE  StepBy(t)
<1>1. PICK u \in Threads : StepBy(u)
  BY DEF Next, StepBy, OtherStep, TaskStep, WriteLog, vars
<1>2. QED
  BY <1>1, OthersStay

\* A resource is left by the driver's answer only.
LEMMA DriverAnswers ==
  ASSUME IInv, TInv, [Next]_vars, NEW t \in Threads, pc[t] = "driver", pc'[t] # "driver"
  PROVE  DriverCall(t)
BY Mover
   DEF StepBy, OtherStep, CallInitialize, CallClose, CallRefs, CallRunner, CallOwner, ListRegions,
       Locked, ensureInitialized, initializedResourceDriver, Snapshot,
       RegisterTaskDefinition, RunTask, DescribeTasks, GetLogEvents, ownershipClientLocked,
       GetOwner, TagResources, GetResources, AWSConfigSnapshot, listAWSRegions, InitializeMock,
       InitializeReal, BuildAWSConfig, Close, Arrive

\* A resource that Destroy reports as destroyed is gone from the world whose driver
\* it had looked up, although other handlers create resources and the provider may
\* have been initialized anew meanwhile (provider.go:330-352).
THEOREM DestroyTellsTheTruth == Spec => DestroyedIsGone
<1>1. ASSUME IInv, TInv, [Next]_vars,
             NEW t \in Threads, pc[t] = "driver", call[t].op = "Destroy", pc'[t] # "driver",
             Head(call[t].left) \in (IF pc'[t] = "idle" THEN reply'[t].good ELSE call'[t].good)
      PROVE  Head(call[t].left) \notin resources'[call[t].world]
  <2>. DEFINE n == Head(call[t].left)
              w == call[t].world
  <2>1. DriverCall(t)
    BY <1>1, DriverAnswers
  <2>2. Looping(call[t]) /\ w \in Worlds /\ resources \in [Worlds -> SUBSET Names]
    BY <1>1 DEF TInv, Shape, AwsOK
  <2>3. n \notin call[t].good
    <3>1. 1 \in 1 .. Len(call[t].left) /\ n = call[t].left[1]
      BY <2>2 DEF Looping, RefCall
    <3>2. QED
      BY <2>2, <3>1 DEF Looping
  <2>4. ~Note(t, {}, {n})
    <3>1. ASSUME Note(t, {}, {n})
          PROVE  FALSE
      <4>1. {} \in SUBSET {n} /\ {n} \in SUBSET {n}
        OBVIOUS
      <4>2. /\ pc'[t] \in {"idle", "lookup"}
            /\ pc'[t] = "idle" => reply'[t].good = call[t].good \cup {}
            /\ pc'[t] = "lookup" => call'[t].good = call[t].good \cup {}
        BY <1>1, <3>1, <4>1, NoteShape
      <4>3. QED
        BY <1>1, <2>3, <4>2
    <3>2. QED
      BY <3>1
  <2>5. Effect("Destroy", n, w)
    BY <1>1, <2>1, <2>4 DEF DriverCall
  <2>6. QED
    BY <2>2, <2>5 DEF Effect
<1>2. IInv /\ TInv /\ [Next]_vars =>
        [\A t \in Threads :
           (pc[t] = "driver" /\ call[t].op = "Destroy") =>
             LET n == Head(call[t].left)
                 good == IF pc'[t] = "idle" THEN reply'[t].good ELSE call'[t].good
             IN pc'[t] # "driver" /\ n \in good => n \notin resources'[call[t].world]]_vars
  BY <1>1
<1>3. QED
  BY <1>2, Invariant, TypeInvariant, PTL DEF Spec, DestroyedIsGone

-----------------------------------------------------------------------------
(***************************************************************************)
(* The verdict about a job.                                                *)
(***************************************************************************)

\* A stopped task has reported its exit code, if its container ever ran.
TaskOK ==
  /\ task.reported => task.code # None
  /\ task.status = "STOPPED" /\ task.code # None => task.reported

\* There is a task where one is asked about.
JobInv ==
  /\ handle # None => TaskOK
  /\ \A t \in Threads :
       pc[t] = "describe" \/ (pc[t] = "snapshot" /\ call[t].op # "RunJob") => TaskOK

LEMMA StepJobInv == IInv /\ TInv /\ JobInv /\ [Next]_vars => JobInv'
<1>. SUFFICES ASSUME IInv, TInv, JobInv, [Next]_vars PROVE JobInv'
  OBVIOUS
<1>1. task' = task \/ TaskOK'
  <2>1. ASSUME NEW t \in Threads, RunTask(t) PROVE task' = task \/ TaskOK'
    BY <2>1 DEF RunTask, NewTask, TaskOK
  <2>2. ASSUME TaskStep PROVE TaskOK'
    BY <2>2 DEF TaskStep, TaskOK
  <2>3. ASSUME NEW t \in Threads, StepBy(t), ~RunTask(t) PROVE task' = task
    BY <2>3 DEF StepBy, OtherStep, CallInitialize, CallClose, CallRefs, CallRunner, CallOwner,
       ListRegions, Locked, ensureInitialized, initializedResourceDriver, DriverCall, Snapshot,
       RegisterTaskDefinition, DescribeTasks, GetLogEvents, ownershipClientLocked,
       GetOwner, TagResources, GetResources, AWSConfigSnapshot, listAWSRegions, InitializeMock,
       InitializeReal, BuildAWSConfig, Close, Arrive, aws
  <2>4. QED
    BY <2>1, <2>2, <2>3 DEF Next, StepBy, OtherStep, WriteLog, vars, aws
<1>2. TaskOK => TaskOK'
  BY <1>1 DEF TaskOK
<1>3. handle' = handle \/ TaskOK'
  <2>1. ASSUME NEW t \in Threads, RunTask(t) PROVE handle' = handle \/ TaskOK'
    BY <2>1 DEF RunTask, NewTask, TaskOK
  <2>2. ASSUME NEW t \in Threads, StepBy(t), ~RunTask(t) PROVE handle' = handle
    BY <2>2 DEF StepBy, OtherStep, CallInitialize, CallClose, CallRefs, CallRunner, CallOwner,
       ListRegions, Locked, ensureInitialized, initializedResourceDriver, DriverCall, Snapshot,
       RegisterTaskDefinition, DescribeTasks, GetLogEvents, ownershipClientLocked,
       GetOwner, TagResources, GetResources, AWSConfigSnapshot, listAWSRegions, InitializeMock,
       InitializeReal, BuildAWSConfig, Close, Arrive
  <2>3. QED
    BY <2>1, <2>2 DEF Next, StepBy, OtherStep, TaskStep, WriteLog, vars
<1>4. ASSUME NEW t \in Threads,
             pc'[t] = "describe" \/ (pc'[t] = "snapshot" /\ call'[t].op # "RunJob")
      PROVE  TaskOK'
  <2>1. CASE pc'[t] = pc[t] /\ call'[t] = call[t]
    BY <1>2, <1>4, <2>1 DEF JobInv
  <2>2. CASE CallRunner(t)
    <3>1. handle # None
      <4>1. ASSUME Arrive(t, [op |-> "RunJob", client |-> None, config |-> None], "snapshot")
            PROVE  FALSE
        BY <1>4, <4>1 DEF Arrive, IInv, ConfigInv
      <4>2. QED
        BY <2>2, <4>1 DEF CallRunner
    <3>2. QED
      BY <1>2, <3>1 DEF JobInv
  <2>3. CASE Snapshot(t)
    BY <1>2, <1>4, <2>3 DEF Snapshot, Goto, Error, Reply, IInv, ConfigInv, JobInv
  <2>4. CASE StepBy(t) /\ ~CallRunner(t) /\ ~Snapshot(t)
    <3>1. pc'[t] \notin {"describe", "snapshot"}
      BY <2>4 DEF StepBy, OtherStep, CallInitialize, CallClose, CallRefs, CallOwner,
         ListRegions, Locked, ensureInitialized, initializedResourceDriver, DriverCall,
         RegisterTaskDefinition, RunTask, DescribeTasks, GetLogEvents, ownershipClientLocked,
         GetOwner, TagResources, GetResources, AWSConfigSnapshot, listAWSRegions, InitializeMock,
         InitializeReal, BuildAWSConfig, Close, Arrive, Goto, Reply, Error, Note, IInv, ConfigInv
    <3>2. QED
      BY <1>4, <3>1
  <2>5. QED
    BY <2>1, <2>2, <2>3, <2>4, Mover
<1>5. QED
  BY <1>2, <1>3, <1>4 DEF JobInv

LEMMA JobInvariant == Spec => []JobInv
<1>1. Init => JobInv
  BY DEF Init, JobInv
<1>2. QED
  BY <1>1, StepJobInv, Invariant, TypeInvariant, PTL DEF Spec

\* Nothing but the answer of DescribeTasks says how a job ended, and nothing but a page
\* of GetResources or GetLogEvents ends a listing of owners or the logs.
LEMMA NobodyElseAnswers ==
  ASSUME IInv, TInv, NEW t \in Threads, OtherStep(t) \/ DriverCall(t),
         NEW op \in {"JobStatus", "ListOwners", "JobLogs"}, Replied(t, op),
         GetResources(t) => op # "ListOwners", GetLogEvents(t) => op # "JobLogs"
  PROVE  FALSE
<1>1. pc[t] # "idle" /\ reply'[t].op = op /\ reply'[t].ok /\ reply[t] = NoCall
  BY DEF Replied, TInv, Shape
<1>2. reply'[t] # NoCall
  BY <1>1 DEF NoCall
<1>3. ~Error(t)
  <2>1. ASSUME Error(t) PROVE FALSE
    BY <1>1, <2>1, ErrorShape
  <2>2. QED
    BY <2>1
<1>4. ASSUME pc[t] \in {"lookup", "driver"},
             NEW good \in SUBSET {Head(call[t].left)}, NEW bad \in SUBSET {Head(call[t].left)},
             Note(t, good, bad)
      PROVE  FALSE
  <2>1. call[t].op \in RefOps
    BY <1>4 DEF TInv, Shape, Looping, RefCall
  <2>2. reply'[t] = NoCall \/ reply'[t].op = call[t].op
    BY <1>4, NoteShape
  <2>3. QED
    BY <1>1, <1>2, <2>1, <2>2 DEF RefOps
<1>5. CASE DriverCall(t)
  BY <1>4, <1>5, DriverNotes DEF DriverCall
<1>6. CASE initializedResourceDriver(t)
  <2>1. ~Note(t, {}, IF call[t].op = "DetectDrift" THEN {} ELSE {Head(call[t].left)})
    BY <1>4, <1>6 DEF initializedResourceDriver
  <2>2. reply' = reply
    BY <1>6, <2>1 DEF initializedResourceDriver, Goto
  <2>3. QED
    BY <1>1, <1>2, <2>2
<1>7. CASE CallInitialize(t) \/ CallClose(t) \/ CallRefs(t) \/ CallRunner(t) \/ CallOwner(t)
           \/ ListRegions(t)
  BY <1>1, <1>7 DEF CallInitialize, CallClose, CallRefs, CallRunner, CallOwner, ListRegions, Arrive
<1>8. CASE Locked(t)
  BY <1>1, <1>2, <1>3, <1>8 DEF Locked, InitializeMock, InitializeReal, BuildAWSConfig, Close,
     Reply, Goto, TInv
<1>9. ASSUME NEW q, Goto(t, q)
      PROVE  FALSE
  BY <1>1, <1>2, <1>9 DEF Goto
<1>10. ASSUME NEW r, Reply(t, r)
       PROVE  r.op = op
  BY <1>1, <1>10 DEF Reply, TInv
<1>11. CASE ensureInitialized(t) \/ Snapshot(t) \/ RegisterTaskDefinition(t)
            \/ ownershipClientLocked(t)
  BY <1>3, <1>9, <1>11 DEF ensureInitialized, Snapshot, RegisterTaskDefinition,
     ownershipClientLocked
<1>12. CASE RunTask(t) \/ GetOwner(t) \/ TagResources(t) \/ AWSConfigSnapshot(t) \/ listAWSRegions(t)
  <2>1. \E o \in {"RunJob", "GetOwner", "SetOwner", "ListRegions"} :
          Reply(t, [op |-> o, ok |-> TRUE])
    BY <1>3, <1>9, <1>12, Zenon
       DEF RunTask, GetOwner, TagResources, AWSConfigSnapshot, listAWSRegions
  <2>2. PICK o \in {"RunJob", "GetOwner", "SetOwner", "ListRegions"} :
          Reply(t, [op |-> o, ok |-> TRUE])
    BY <2>1
  <2>. DEFINE r == [op |-> o, ok |-> TRUE]
  <2>3. Reply(t, r) /\ r.op = o
    BY <2>2
  <2>. HIDE DEF r
  <2>4. QED
    BY <1>10, <2>3
<1>13. CASE GetLogEvents(t)
  <2>1. \E s : Reply(t, [op |-> "JobLogs", ok |-> TRUE, sink |-> s])
    BY <1>3, <1>9, <1>13, Zenon DEF GetLogEvents
  <2>2. QED
    BY <1>10, <1>13, <2>1
<1>14. CASE GetResources(t)
  <2>1. \E o, l, b : Reply(t, [op |-> "ListOwners", ok |-> TRUE, owner |-> o,
                               listed |-> l, before |-> b])
    BY <1>3, <1>9, <1>14, Zenon DEF GetResources
  <2>2. QED
    BY <1>10, <1>14, <2>1
<1>15. QED
  BY <1>5, <1>6, <1>7, <1>8, <1>11, <1>12, <1>13, <1>14 DEF OtherStep

\* The answer of DescribeTasks.
LEMMA JobStatusReply ==
  ASSUME TInv, NEW t \in Threads, DescribeTasks(t), ~Error(t)
  PROVE  reply'[t].op = "JobStatus" /\ reply'[t].state = awsTaskState(task)
<1>1. reply'[t] = [op |-> "JobStatus", ok |-> TRUE, state |-> awsTaskState(task)]
  BY DEF DescribeTasks, Reply, TInv
<1>2. QED
  BY <1>1

\* A job is said to have succeeded only if its container ended with 0, and of a stopped
\* task the verdict is final, whenever it is asked about and although the exit code is
\* reported some time after the container ended (runner.go:346-355).
THEOREM VerdictIsTrue == Spec => VerdictTrue
<1>1. ASSUME IInv, TInv, JobInv, [Next]_vars, NEW t \in Threads, Replied(t, "JobStatus")
      PROVE  /\ reply'[t].state = "succeeded" => task.code = 0
             /\ task.status = "STOPPED" =>
                  reply'[t].state = (IF task.code = 0 THEN "succeeded" ELSE "failed")
  <2>1. reply'[t] # reply[t] /\ pc[t] # "idle" /\ reply'[t].ok
    <3>1. NoCall.op # "JobStatus"
      BY DEF NoCall
    <3>2. QED
      BY <1>1, <3>1 DEF Replied, TInv, Shape
  <2>2. DescribeTasks(t)
    BY <1>1, <2>1, Mover, NobodyElseAnswers DEF StepBy
  <2>3. ~Error(t)
    <3>1. ASSUME Error(t) PROVE FALSE
      BY <1>1, <2>1, <3>1, ErrorShape
    <3>2. QED
      BY <3>1
  <2>5. reply'[t].state = awsTaskState(task)
    BY <1>1, <2>2, <2>3, JobStatusReply
  <2>6. TaskOK
    BY <1>1, <2>2 DEF JobInv, DescribeTasks
  <2>7. None # 0
    BY ProviderAssumption DEF ProviderAssumption
  <2>8. QED
    BY <2>5, <2>6, <2>7 DEF awsTaskState, TaskOK
<1>2. IInv /\ TInv /\ JobInv /\ [Next]_vars =>
        [\A t \in Threads : Replied(t, "JobStatus") =>
           /\ reply'[t].state = "succeeded" => task.code = 0
           /\ task.status = "STOPPED" =>
                reply'[t].state = (IF task.code = 0 THEN "succeeded" ELSE "failed")]_vars
  BY <1>1
<1>3. QED
  BY <1>2, Invariant, TypeInvariant, JobInvariant, PTL DEF Spec, VerdictTrue

-----------------------------------------------------------------------------
(***************************************************************************)
(* Listings of owners.                                                     *)
(***************************************************************************)

\* A listing that has not read anything yet.
Starting(c) ==
  /\ DOMAIN c = {"op", "owner", "client", "left", "listed", "before"}
  /\ c.left = Names /\ c.listed = {}

\* What a listing has of the owners o of its account: of what had an owner when it
\* began, everything that it has not still to read; and of every resource at most one
\* entry, of the owner it was asked for.
Listing(c, o) ==
  /\ DOMAIN c = {"op", "owner", "client", "left", "listed", "before"}
  /\ c.client \in Accounts
  /\ c.before \subseteq Names \ Unknown
  /\ \A n \in c.before :
       /\ o[c.client][n] # None
       /\ n \in c.left \/ (c.owner = None => \E e \in c.listed : e[1] = n)
  /\ \A e \in c.listed : e[1] \notin c.left /\ c.owner \in {None, e[2]}
  /\ \A d, e \in c.listed : d[1] = e[1] => d = e

\* What it has with one more page.
With(c, page) == c.listed \cup Entries(page, c.client, c.owner)

OwnersInv ==
  \A t \in Threads :
    /\ pc[t] = "owner client" /\ call[t].op = "ListOwners" => Starting(call[t])
    /\ pc[t] = "owners" => Listing(call[t], owners)

\* Nothing removes a tag.
LEMMA TagsStay ==
  ASSUME IInv, TInv, [Next]_vars, NEW w \in Accounts, NEW n \in Names, owners[w][n] # None
  PROVE  owners'[w][n] # None
<1>1. ASSUME NEW t \in Threads, TagResources(t) PROVE owners'[w][n] # None
  <2>1. call[t].owner \in Owners
    BY <1>1 DEF TagResources, TInv, Shape
  <2>2. call[t].owner # None
    BY <2>1, ProviderAssumption DEF ProviderAssumption
  <2>3. owners \in [Accounts -> [Names -> Owners \cup {None}]]
    BY DEF TInv, AwsOK
  <2>4. QED
    BY <1>1, <2>2, <2>3 DEF TagResources
<1>2. ASSUME NEW t \in Threads, StepBy(t), ~TagResources(t) PROVE owners' = owners
  BY <1>2 DEF StepBy, OtherStep, CallInitialize, CallClose, CallRefs, CallRunner, CallOwner,
     ListRegions, Locked, ensureInitialized, initializedResourceDriver, DriverCall, Snapshot,
     RegisterTaskDefinition, RunTask, DescribeTasks, GetLogEvents, ownershipClientLocked,
     GetOwner, GetResources, AWSConfigSnapshot, listAWSRegions, InitializeMock,
     InitializeReal, BuildAWSConfig, Close, Arrive, aws
<1>3. QED
  BY <1>1, <1>2 DEF Next, StepBy, OtherStep, TaskStep, WriteLog, vars, aws

\* Tags that others write leave a listing what it is.
LEMMA ListingStays ==
  ASSUME IInv, TInv, [Next]_vars, NEW c, Listing(c, owners)
  PROVE  Listing(c, owners')
BY TagsStay DEF Listing

\* A page adds what is tagged in it.
LEMMA PageIsListed ==
  ASSUME NEW c, Listing(c, owners), NEW page \in SUBSET c.left
  PROVE  /\ \A n \in c.before :
              n \in c.left \ page \/ (c.owner = None => \E e \in With(c, page) : e[1] = n)
         /\ \A e \in With(c, page) : e[1] \notin c.left \ page /\ c.owner \in {None, e[2]}
         /\ \A d, e \in With(c, page) : d[1] = e[1] => d = e
<1>. DEFINE new    == Entries(page, c.client, c.owner)
            listed == With(c, page)
<1>1. ASSUME NEW e \in new
      PROVE  /\ e[1] \in page /\ e = << e[1], owners[c.client][e[1]] >>
             /\ c.owner \in {None, e[2]}
  <2>1. PICK n \in page \cap Tagged(c.client) :
          e = << n, owners[c.client][n] >> /\ c.owner \in {None, owners[c.client][n]}
    BY DEF Entries
  <2>2. e[1] = n /\ e[2] = owners[c.client][n]
    BY <2>1
  <2>3. QED
    BY <2>1, <2>2
<1>2. ASSUME NEW n \in c.before, n \in page, c.owner = None
      PROVE  \E e \in new : e[1] = n
  <2>1. n \in page \cap Tagged(c.client)
    BY <1>2 DEF Listing, Tagged
  <2>2. << n, owners[c.client][n] >> \in new
    BY <1>2, <2>1 DEF Entries
  <2>3. << n, owners[c.client][n] >>[1] = n
    OBVIOUS
  <2>4. QED
    BY <2>2, <2>3
<1>3. listed = c.listed \cup new
  BY DEF With
<1>. HIDE DEF new, listed
<1>4. ASSUME NEW n \in c.before
      PROVE  n \in c.left \ page \/ (c.owner = None => \E e \in listed : e[1] = n)
  BY <1>2, <1>3 DEF Listing
<1>5. ASSUME NEW e \in listed
      PROVE  e[1] \notin c.left \ page /\ c.owner \in {None, e[2]}
  BY <1>1, <1>3 DEF Listing
<1>6. ASSUME NEW d \in listed, NEW e \in listed, d[1] = e[1]
      PROVE  d = e
  <2>1. CASE d \in c.listed /\ e \in c.listed
    BY <1>6, <2>1 DEF Listing
  <2>2. CASE d \in new /\ e \in new
    <3>1. d = << d[1], owners[c.client][d[1]] >> /\ e = << e[1], owners[c.client][e[1]] >>
      BY <1>1, <2>2
    <3>2. QED
      BY <1>6, <3>1
  <2>3. CASE d \in c.listed /\ e \in new
    BY <1>1, <1>6, <2>3 DEF Listing
  <2>4. CASE d \in new /\ e \in c.listed
    BY <1>1, <1>6, <2>4 DEF Listing
  <2>5. QED
    BY <1>3, <2>1, <2>2, <2>3, <2>4
<1>7. QED
  BY <1>4, <1>5, <1>6 DEF listed

\* A page of GetResources is followed by another one, or it is the last.
LEMMA PageOrEnd ==
  ASSUME IInv, TInv, NEW t \in Threads, GetResources(t), ~Error(t)
  PROVE  \E page \in SUBSET call[t].left :
           \/ /\ page = call[t].left
              /\ Reply(t, [op |-> "ListOwners", ok |-> TRUE, owner |-> call[t].owner,
                           listed |-> With(call[t], page), before |-> call[t].before])
           \/ /\ call' = [call EXCEPT ![t].left = call[t].left \ page,
                                      ![t].listed = With(call[t], page)]
              /\ Goto(t, "owners")
BY Zenon DEF GetResources, With

\* A listing begins.
LEMMA ListingBegins ==
  ASSUME IInv, TInv, OwnersInv, NEW t \in Threads, ownershipClientLocked(t), pc'[t] = "owners"
  PROVE  Listing(call'[t], owners)
<1>1. pc[t] = "owner client" /\ call[t].op = "ListOwners" /\ ownershipClient # None
      /\ call' = [call EXCEPT ![t].client = ownershipClient,
                              ![t].before = Tagged(ownershipClient)]
  <2>1. ~Error(t)
    BY DEF Error, Reply, IInv, ConfigInv
  <2>2. /\ ownershipClient # None /\ pc[t] = "owner client"
        /\ call' = IF call[t].op = "ListOwners"
                   THEN [call EXCEPT ![t].client = ownershipClient,
                                     ![t].before = Tagged(ownershipClient)]
                   ELSE [call EXCEPT ![t].client = ownershipClient]
        /\ Goto(t, IF call[t].op = "ListOwners" THEN "owners"
                   ELSE IF call[t].op = "SetOwner" THEN "tag" ELSE "get owner")
    BY <2>1, Zenon DEF ownershipClientLocked
  <2>3. call[t].op = "ListOwners"
    BY <2>2 DEF Goto, IInv, ConfigInv
  <2>4. QED
    BY <2>2, <2>3
<1>2. ownershipClient \in Accounts
  BY <1>1 DEF TInv, FieldsOK
<1>3. Starting(call[t])
  BY <1>1 DEF OwnersInv
<1>. DEFINE c == call'[t]
<1>4. c = [call[t] EXCEPT !.client = ownershipClient, !.before = Tagged(ownershipClient)]
  BY <1>1 DEF IInv, ConfigInv
<1>5. /\ DOMAIN c = {"op", "owner", "client", "left", "listed", "before"}
      /\ c.client = ownershipClient /\ c.before = Tagged(ownershipClient)
      /\ c.left = Names /\ c.listed = {}
  BY <1>3, <1>4 DEF Starting
<1>. HIDE DEF c
<1>6. Listing(c, owners)
  BY <1>2, <1>5 DEF Listing, Tagged
<1>7. QED
  BY <1>6 DEF c

\* A listing goes on.
LEMMA ListingGoesOn ==
  ASSUME IInv, TInv, OwnersInv, NEW t \in Threads, GetResources(t), pc'[t] = "owners"
  PROVE  Listing(call'[t], owners)
<1>1. pc[t] = "owners" /\ Listing(call[t], owners)
  BY DEF GetResources, OwnersInv
<1>2. ~Error(t) /\ \A r : ~Reply(t, r)
  BY DEF Error, Reply, IInv, ConfigInv
<1>3. PICK page \in SUBSET call[t].left :
        call' = [call EXCEPT ![t].left = call[t].left \ page, ![t].listed = With(call[t], page)]
  BY <1>2, PageOrEnd
<1>. DEFINE c == call[t]
            d == call'[t]
<1>4. d = [c EXCEPT !.left = c.left \ page, !.listed = With(c, page)]
  BY <1>3 DEF IInv, ConfigInv
<1>5. DOMAIN c = {"op", "owner", "client", "left", "listed", "before"}
  BY <1>1 DEF Listing
<1>6. Listing(c, owners) /\ page \in SUBSET c.left
  BY <1>1
<1>. HIDE DEF c, d
<1>7. /\ DOMAIN d = DOMAIN c /\ d.client = c.client /\ d.before = c.before /\ d.owner = c.owner
      /\ d.left = c.left \ page /\ d.listed = With(c, page)
  BY <1>4, <1>5
<1>8. Listing(d, owners)
  BY <1>5, <1>6, <1>7, PageIsListed DEF Listing
<1>9. QED
  BY <1>8 DEF d

\* A call of ListOwners has read nothing yet.
LEMMA ListOwnersStarts ==
  ASSUME IInv, TInv, NEW t \in Threads, CallOwner(t), call'[t].op = "ListOwners"
  PROVE  Starting(call'[t])
<1>1. ASSUME NEW op \in {"GetOwner", "SetOwner"}, NEW n, NEW o, NEW q,
             Arrive(t, [op |-> op, name |-> n, owner |-> o, client |-> None], q)
      PROVE  FALSE
  <2>1. call'[t] = [op |-> op, name |-> n, owner |-> o, client |-> None]
    BY <1>1 DEF Arrive, IInv, ConfigInv
  <2>2. call'[t].op = op
    BY <2>1
  <2>3. QED
    BY <2>2
<1>2. PICK o : Arrive(t, [op |-> "ListOwners", owner |-> o, client |-> None,
                          left |-> Names, listed |-> {}, before |-> {}], "owner client")
  BY <1>1, Zenon DEF CallOwner
<1>3. call'[t] = [op |-> "ListOwners", owner |-> o, client |-> None,
                  left |-> Names, listed |-> {}, before |-> {}]
  BY <1>2 DEF Arrive, IInv, ConfigInv
<1>4. QED
  BY <1>3 DEF Starting

LEMMA StepOwnersInv == IInv /\ TInv /\ OwnersInv /\ [Next]_vars => OwnersInv'
<1>. SUFFICES ASSUME IInv, TInv, OwnersInv, [Next]_vars, NEW t \in Threads
              PROVE  /\ pc'[t] = "owner client" /\ call'[t].op = "ListOwners" => Starting(call'[t])
                     /\ pc'[t] = "owners" => Listing(call'[t], owners')
  BY DEF OwnersInv, Starting, Listing
<1>1. CASE pc'[t] = pc[t] /\ call'[t] = call[t]
  BY <1>1, ListingStays DEF OwnersInv
<1>2. CASE CallOwner(t)
  <2>1. pc'[t] = "owner client"
    BY <1>2 DEF CallOwner, Arrive, IInv, ConfigInv
  <2>2. QED
    BY <1>2, <2>1, ListOwnersStarts
<1>3. CASE ownershipClientLocked(t)
  <2>1. pc'[t] # "owner client"
    BY <1>3 DEF ownershipClientLocked, Error, Reply, Goto, IInv, ConfigInv
  <2>2. QED
    BY <1>3, <2>1, ListingBegins, ListingStays
<1>4. CASE GetResources(t)
  <2>1. pc'[t] # "owner client"
    BY <1>4 DEF GetResources, Error, Reply, Goto, IInv, ConfigInv
  <2>2. QED
    BY <1>4, <2>1, ListingGoesOn, ListingStays
<1>5. CASE StepBy(t) /\ ~CallOwner(t) /\ ~ownershipClientLocked(t) /\ ~GetResources(t)
  <2>1. pc'[t] \notin {"owner client", "owners"}
    BY <1>5 DEF StepBy, OtherStep, CallInitialize, CallClose, CallRefs, CallRunner,
       ListRegions, Locked, ensureInitialized, initializedResourceDriver, DriverCall, Snapshot,
       RegisterTaskDefinition, RunTask, DescribeTasks, GetLogEvents,
       GetOwner, TagResources, AWSConfigSnapshot, listAWSRegions, InitializeMock,
       InitializeReal, BuildAWSConfig, Close, Arrive, Goto, Reply, Error, Note, IInv, ConfigInv
  <2>2. QED
    BY <2>1
<1>6. QED
  BY <1>1, <1>2, <1>3, <1>4, <1>5, Mover

LEMMA OwnersInvariant == Spec => []OwnersInv
<1>1. Init => OwnersInv
  BY DEF Init, OwnersInv
<1>2. QED
  BY <1>1, StepOwnersInv, Invariant, TypeInvariant, PTL DEF Spec

\* A listing of owners has everything that had an owner in its account when it began,
\* once, and nothing of another owner than the one it was asked for, although other
\* handlers write tags between its pages and the provider may be initialized for
\* another account meanwhile (ownership.go:74-114).
THEOREM OwnersAreListed == Spec => OwnersComplete
<1>1. ASSUME IInv, TInv, OwnersInv, [Next]_vars, NEW t \in Threads, Replied(t, "ListOwners")
      PROVE  LET r == reply'[t]
             IN /\ r.owner = None => r.before \subseteq {e[1] : e \in r.listed}
                /\ \A e \in r.listed : r.owner \in {None, e[2]}
                /\ \A d, e \in r.listed : d[1] = e[1] => d = e
  <2>1. reply'[t] # reply[t] /\ pc[t] # "idle" /\ reply'[t].ok
    <3>1. NoCall.op # "ListOwners"
      BY DEF NoCall
    <3>2. QED
      BY <1>1, <3>1 DEF Replied, TInv, Shape
  <2>2. ~Error(t)
    <3>1. ASSUME Error(t) PROVE FALSE
      BY <1>1, <2>1, <3>1, ErrorShape
    <3>2. QED
      BY <3>1
  <2>3. GetResources(t)
    <3>1. StepBy(t)
      BY <1>1, <2>1, Mover
    <3>2. ~DescribeTasks(t)
      BY <1>1, <2>2, JobStatusReply DEF Replied
    <3>3. QED
      BY <1>1, <3>1, <3>2, NobodyElseAnswers DEF StepBy
  <2>4. Listing(call[t], owners)
    BY <1>1, <2>3 DEF GetResources, OwnersInv
  <2>5. PICK page \in SUBSET call[t].left :
          \/ /\ page = call[t].left
             /\ Reply(t, [op |-> "ListOwners", ok |-> TRUE, owner |-> call[t].owner,
                          listed |-> With(call[t], page), before |-> call[t].before])
          \/ Goto(t, "owners")
    BY <1>1, <2>2, <2>3, PageOrEnd
  <2>6. page = call[t].left
        /\ reply'[t] = [op |-> "ListOwners", ok |-> TRUE, owner |-> call[t].owner,
                        listed |-> With(call[t], page), before |-> call[t].before]
    BY <1>1, <2>1, <2>5 DEF Reply, Goto, TInv
  <2>7. /\ reply'[t].owner = call[t].owner /\ reply'[t].listed = With(call[t], page)
        /\ reply'[t].before = call[t].before
    BY <2>6
  <2>8. /\ \A n \in call[t].before :
             call[t].owner = None => \E e \in With(call[t], page) : e[1] = n
        /\ \A e \in With(call[t], page) : call[t].owner \in {None, e[2]}
        /\ \A d, e \in With(call[t], page) : d[1] = e[1] => d = e
    BY <2>4, <2>6, PageIsListed
  <2>9. QED
    BY <2>7, <2>8
<1>2. IInv /\ TInv /\ OwnersInv /\ [Next]_vars =>
        [\A t \in Threads : Replied(t, "ListOwners") =>
           LET r == reply'[t]
           IN /\ r.owner = None => r.before \subseteq {e[1] : e \in r.listed}
              /\ \A e \in r.listed : r.owner \in {None, e[2]}
              /\ \A d, e \in r.listed : d[1] = e[1] => d = e]_vars
  BY <1>1
<1>3. QED
  BY <1>2, Invariant, TypeInvariant, OwnersInvariant, PTL DEF Spec, OwnersComplete

-----------------------------------------------------------------------------
(***************************************************************************)
(* Logs.                                                                   *)
(***************************************************************************)

\* What a reader of the log l has written of it: the messages up to where it has read,
\* with a token that does not point further.
Reading(c, l) ==
  /\ DOMAIN c = {"op", "client", "config", "read", "token", "sink"}
  /\ c.read \in 0 .. Len(l)
  /\ c.token = None \/ c.token \in [at : 0 .. c.read, again : BOOLEAN]
  /\ c.sink \in Seq(Nat) /\ InOrder(c.sink, {k \in 1 .. c.read : l[k] # "empty"})

LogsInv ==
  /\ log \in Seq({"line", "empty"})
  /\ \A t \in Threads :
       pc[t] = "events" \/ (pc[t] = "snapshot" /\ call[t].op # "RunJob") => Reading(call[t], log)

\* One part in order after another is the whole in order.
LEMMA InOrderConcat ==
  ASSUME NEW k \in Nat, NEW m \in Nat, NEW n \in Nat, k <= m, m <= n,
         NEW s \in Seq(Nat), NEW u \in Seq(Nat),
         InOrder(s, Lines(k, m)), InOrder(u, Lines(m, n))
  PROVE  s \o u \in Seq(Nat) /\ InOrder(s \o u, Lines(k, n))
<1>. DEFINE w == s \o u
            p == Len(s)
            q == Len(u)
<1>1. w \in Seq(Nat)
  OBVIOUS
<1>2. /\ p \in Nat /\ q \in Nat
      /\ DOMAIN s = 1 .. p /\ DOMAIN u = 1 .. q /\ DOMAIN w = 1 .. p + q
      /\ \A i \in 1 .. p : w[i] = s[i]
      /\ \A i \in 1 .. p + q : i > p => w[i] = u[i - p]
  OBVIOUS
<1>. HIDE DEF w, p, q
<1>3. \A i \in 1 .. p + q : i \in 1 .. p \/ (i > p /\ i - p \in 1 .. q)
  BY <1>2
<1>4. \A i \in 1 .. q : i + p \in 1 .. p + q /\ i + p > p /\ (i + p) - p = i
  BY <1>2
<1>5. 1 .. p \subseteq 1 .. p + q
  BY <1>2
<1>6. Lines(k, n) = Lines(k, m) \cup Lines(m, n)
  BY DEF Lines
<1>7. /\ \A i \in 1 .. p : s[i] \in Lines(k, m)
      /\ \A i \in 1 .. q : u[i] \in Lines(m, n)
  BY <1>2 DEF InOrder, Range
<1>8. Range(w) = Lines(k, n)
  <2>1. ASSUME NEW i \in 1 .. p + q PROVE w[i] \in Lines(k, n)
    BY <1>2, <1>3, <1>6, <1>7
  <2>2. ASSUME NEW x \in Lines(k, m) PROVE \E i \in 1 .. p + q : w[i] = x
    <3>1. PICK i \in 1 .. p : x = s[i]
      BY <1>2 DEF InOrder, Range
    <3>2. QED
      BY <1>2, <1>5, <3>1
  <2>3. ASSUME NEW x \in Lines(m, n) PROVE \E i \in 1 .. p + q : w[i] = x
    <3>1. PICK i \in 1 .. q : x = u[i]
      BY <1>2 DEF InOrder, Range
    <3>2. i + p \in 1 .. p + q /\ w[i + p] = u[i]
      BY <1>2, <1>4
    <3>3. QED
      BY <3>1, <3>2
  <2>4. QED
    BY <1>2, <1>6, <2>1, <2>2, <2>3, Zenon DEF Range
<1>9. ASSUME NEW i \in 1 .. p + q, NEW j \in 1 .. p + q, i < j
      PROVE  w[i] < w[j]
  <2>1. CASE j \in 1 .. p
    <3>1. i \in 1 .. p
      BY <1>2, <1>9, <2>1
    <3>2. QED
      BY <1>2, <1>9, <2>1, <3>1 DEF InOrder
  <2>2. CASE i > p
    <3>1. j > p /\ i - p \in 1 .. q /\ j - p \in 1 .. q /\ i - p < j - p
      BY <1>2, <1>9, <2>2
    <3>2. u[i - p] < u[j - p]
      BY <1>2, <3>1 DEF InOrder
    <3>3. QED
      BY <1>2, <2>2, <3>1, <3>2
  <2>3. CASE i \in 1 .. p /\ j > p
    <3>1. w[i] \in Lines(k, m) /\ w[j] \in Lines(m, n)
      BY <1>2, <1>3, <1>7, <2>3
    <3>2. QED
      BY <3>1 DEF Lines
  <2>4. QED
    BY <1>3, <2>1, <2>2, <2>3
<1>10. QED
  BY <1>1, <1>2, <1>8, <1>9 DEF InOrder, w

\* What is written from the start of the log.
LEMMA FromTheStart ==
  ASSUME NEW n PROVE Lines(0, n) = {k \in 1 .. n : log[k] # "empty"}
<1>1. 0 + 1 = 1
  OBVIOUS
<1>2. QED
  BY <1>1, Zenon DEF Lines

\* The log only grows.
LEMMA LogGrows ==
  ASSUME IInv, TInv, LogsInv, [Next]_vars
  PROVE  /\ log' \in Seq({"line", "empty"}) /\ Len(log') >= Len(log)
         /\ \A k \in 1 .. Len(log) : log'[k] = log[k]
         /\ \A t \in Threads : StepBy(t) => log' = log
<1>1. ASSUME NEW t \in Threads, StepBy(t) PROVE log' = log
  BY <1>1 DEF StepBy, OtherStep, CallInitialize, CallClose, CallRefs, CallRunner, CallOwner,
     ListRegions, Locked, ensureInitialized, initializedResourceDriver, DriverCall, Snapshot,
     RegisterTaskDefinition, RunTask, DescribeTasks, GetLogEvents, ownershipClientLocked,
     GetOwner, TagResources, GetResources, AWSConfigSnapshot, listAWSRegions, InitializeMock,
     InitializeReal, BuildAWSConfig, Close, Arrive, aws
<1>2. log' = log \/ \E e \in {"line", "empty"} : log' = Append(log, e)
  BY <1>1 DEF Next, StepBy, OtherStep, TaskStep, WriteLog, vars, aws
<1>3. log \in Seq({"line", "empty"})
  BY DEF LogsInv
<1>4. CASE log' = log
  BY <1>1, <1>3, <1>4
<1>5. ASSUME NEW e \in {"line", "empty"}, log' = Append(log, e)
      PROVE  /\ log' \in Seq({"line", "empty"}) /\ Len(log') >= Len(log)
             /\ \A k \in 1 .. Len(log) : log'[k] = log[k]
  BY <1>3, <1>5
<1>6. QED
  BY <1>1, <1>2, <1>4, <1>5

\* So what was read of it stays what it is.
LEMMA ReadingStays ==
  ASSUME IInv, TInv, LogsInv, [Next]_vars, NEW t \in Threads,
         call'[t] = call[t], Reading(call[t], log)
  PROVE  Reading(call'[t], log')
<1>. DEFINE c == call[t]
<1>1. c.read \in 0 .. Len(log) /\ Len(log) \in Nat /\ Len(log') \in Nat
  BY LogGrows DEF Reading, LogsInv
<1>2. {k \in 1 .. c.read : log'[k] # "empty"} = {k \in 1 .. c.read : log[k] # "empty"}
  BY <1>1, LogGrows
<1>3. c.read \in 0 .. Len(log')
  BY <1>1, LogGrows
<1>4. Reading(c, log')
  BY <1>2, <1>3 DEF Reading
<1>5. QED
  BY <1>4

\* A page ends further on, or at the end of the log: only there the token is repeated.
LEMMA RepeatedAtEnd ==
  ASSUME LogsInv, NEW c, Reading(c, log), NEW n \in c.read .. Len(log)
  PROVE  /\ NextForwardToken(c, n) = c.token => n = Len(log)
         /\ NextForwardToken(c, n) \in [at : 0 .. n, again : BOOLEAN]
<1>1. c.read \in Nat /\ Len(log) \in Nat /\ n \in Nat /\ c.read <= n /\ n <= Len(log)
  BY DEF Reading, LogsInv
<1>2. c.token = None \/ (c.token.at \in 0 .. c.read /\ c.token.again \in BOOLEAN
                         /\ c.token = [at |-> c.token.at, again |-> c.token.again])
  BY DEF Reading
<1>3. n \in 0 .. n
  BY <1>1
<1>. DEFINE far == [at |-> n, again |-> FALSE]
            alt == [at |-> n, again |-> ~c.token.again]
<1>4. CASE c.token = None \/ n > c.read
  <2>1. NextForwardToken(c, n) = far
    BY <1>4 DEF NextForwardToken
  <2>2. far \in [at : 0 .. n, again : BOOLEAN] /\ far \in [at : Nat, again : BOOLEAN]
        /\ far.at = n
    BY <1>1, <1>3
  <2>3. far # None
    BY <2>2, ProviderAssumption DEF ProviderAssumption
  <2>. HIDE DEF far
  <2>4. far # c.token
    <3>1. CASE c.token = None
      BY <2>3, <3>1
    <3>2. CASE c.token # None
      BY <1>1, <1>2, <1>4, <2>2, <3>2
    <3>3. QED
      BY <3>1, <3>2
  <2>5. QED
    BY <2>1, <2>2, <2>4
<1>5. CASE c.token # None /\ ~(n > c.read) /\ n = Len(log)
  <2>1. NextForwardToken(c, n) = c.token
    BY <1>5 DEF NextForwardToken
  <2>2. c.read = n
    BY <1>1, <1>5
  <2>3. QED
    BY <1>5, <2>1, <2>2 DEF Reading
<1>6. CASE c.token # None /\ ~(n > c.read) /\ n # Len(log)
  <2>1. NextForwardToken(c, n) = alt
    BY <1>6 DEF NextForwardToken
  <2>2. alt \in [at : 0 .. n, again : BOOLEAN]
    BY <1>2, <1>3, <1>6
  <2>3. alt.again # c.token.again
    BY <1>2, <1>6
  <2>. HIDE DEF alt
  <2>4. alt # c.token
    BY <2>3
  <2>5. QED
    BY <2>1, <2>2, <2>4
<1>7. QED
  BY <1>4, <1>5, <1>6

\* What is written with one more page is what there is up to its end.
LEMMA ChunksFollow ==
  ASSUME LogsInv, NEW c, Reading(c, log), NEW n \in c.read .. Len(log), NEW s \in Chunks(c.read, n)
  PROVE  c.sink \o s \in Seq(Nat) /\ InOrder(c.sink \o s, Lines(0, n))
<1>1. /\ c.read \in Nat /\ n \in Nat /\ 0 <= c.read /\ c.read <= n /\ 0 \in Nat
      /\ c.sink \in Seq(Nat) /\ InOrder(c.sink, Lines(0, c.read))
  <2>1. Lines(0, c.read) = {k \in 1 .. c.read : log[k] # "empty"}
    BY FromTheStart
  <2>2. /\ c.sink \in Seq(Nat) /\ InOrder(c.sink, {k \in 1 .. c.read : log[k] # "empty"})
        /\ c.read \in 0 .. Len(log) /\ Len(log) \in Nat
    BY DEF Reading, LogsInv
  <2>3. c.read \in Nat /\ n \in Nat /\ 0 <= c.read /\ c.read <= n /\ 0 \in Nat
    BY <2>2
  <2>4. QED
    BY <2>1, <2>2, <2>3
<1>2. s \in Seq(Nat) /\ InOrder(s, Lines(c.read, n))
  <2>1. Lines(c.read, n) \subseteq c.read + 1 .. n /\ Lines(c.read, n) \subseteq Nat
    BY <1>1 DEF Lines
  <2>2. Cardinality(Lines(c.read, n)) \in Nat
    <3>1. c.read + 1 \in Int /\ n \in Int
      BY <1>1
    <3>2. IsFiniteSet(c.read + 1 .. n)
      BY <3>1, FS_Interval
    <3>3. QED
      BY <2>1, <3>2, FS_Subset, FS_CardinalityType
  <2>3. s \in [1 .. Cardinality(Lines(c.read, n)) -> Lines(c.read, n)]
        /\ InOrder(s, Lines(c.read, n))
    BY DEF Chunks
  <2>4. s \in [1 .. Cardinality(Lines(c.read, n)) -> Nat]
    BY <2>1, <2>3
  <2>5. QED
    BY <2>2, <2>3, <2>4
<1>3. QED
  BY <1>1, <1>2, InOrderConcat

\* What a page of GetLogEvents is followed by.
LEMMA EventsOrEnd ==
  ASSUME NEW t \in Threads, GetLogEvents(t), ~Error(t)
  PROVE  \E n \in call[t].read .. Len(log) : \E chunks \in Chunks(call[t].read, n) :
           \/ /\ NextForwardToken(call[t], n) = call[t].token
              /\ Reply(t, [op |-> "JobLogs", ok |-> TRUE, sink |-> call[t].sink \o chunks])
           \/ /\ call' = [call EXCEPT ![t].read = n, ![t].token = NextForwardToken(call[t], n),
                                      ![t].sink = call[t].sink \o chunks]
              /\ Goto(t, "events")
BY Zenon DEF GetLogEvents

\* The reading goes on.
LEMMA ReadingGoesOn ==
  ASSUME IInv, TInv, LogsInv, NEW t \in Threads, GetLogEvents(t), pc'[t] = "events"
  PROVE  Reading(call'[t], log)
<1>1. pc[t] = "events" /\ Reading(call[t], log)
  BY DEF GetLogEvents, LogsInv
<1>2. ~Error(t) /\ \A r : ~Reply(t, r)
  BY DEF Error, Reply, IInv, ConfigInv
<1>3. PICK n \in call[t].read .. Len(log) : \E chunks \in Chunks(call[t].read, n) :
        call' = [call EXCEPT ![t].read = n, ![t].token = NextForwardToken(call[t], n),
                             ![t].sink = call[t].sink \o chunks]
  BY <1>2, EventsOrEnd
<1>4. PICK chunks \in Chunks(call[t].read, n) :
        call' = [call EXCEPT ![t].read = n, ![t].token = NextForwardToken(call[t], n),
                             ![t].sink = call[t].sink \o chunks]
  BY <1>3
<1>. DEFINE c     == call[t]
            d     == call'[t]
            token == NextForwardToken(c, n)
            sink  == c.sink \o chunks
<1>5. d = [c EXCEPT !.read = n, !.token = token, !.sink = sink]
  BY <1>4 DEF IInv, ConfigInv
<1>6. DOMAIN c = {"op", "client", "config", "read", "token", "sink"}
  BY <1>1 DEF Reading
<1>7. token \in [at : 0 .. n, again : BOOLEAN]
  BY <1>1, <1>3, RepeatedAtEnd
<1>8. sink \in Seq(Nat) /\ InOrder(sink, Lines(0, n))
  BY <1>1, <1>3, <1>4, ChunksFollow
<1>9. n \in 0 .. Len(log)
  BY <1>1, <1>3 DEF Reading, LogsInv
<1>. HIDE DEF c, d, token, sink
<1>10. DOMAIN d = DOMAIN c /\ d.read = n /\ d.token = token /\ d.sink = sink
  BY <1>5, <1>6
<1>11. Reading(d, log)
  BY <1>6, <1>7, <1>8, <1>9, <1>10, FromTheStart DEF Reading
<1>12. QED
  BY <1>11 DEF d

\* A reader that has not read anything yet has written nothing.
LEMMA ReadingStarts ==
  ASSUME IInv, TInv, LogsInv, NEW t \in Threads, CallRunner(t), call'[t].op # "RunJob"
  PROVE  Reading(call'[t], log)
<1>1. ASSUME Arrive(t, [op |-> "RunJob", client |-> None, config |-> None], "snapshot")
      PROVE  FALSE
  <2>1. call'[t] = [op |-> "RunJob", client |-> None, config |-> None]
    BY <1>1 DEF Arrive, IInv, ConfigInv
  <2>2. call'[t].op = "RunJob"
    BY <2>1
  <2>3. QED
    BY <2>2
<1>2. PICK op : Arrive(t, [op |-> op, client |-> None, config |-> None,
                           read |-> 0, token |-> None, sink |-> << >>], "snapshot")
  BY <1>1, Zenon DEF CallRunner
<1>. DEFINE c == call'[t]
<1>3. c = [op |-> op, client |-> None, config |-> None,
           read |-> 0, token |-> None, sink |-> << >>]
  BY <1>2 DEF Arrive, IInv, ConfigInv
<1>4. /\ DOMAIN c = {"op", "client", "config", "read", "token", "sink"}
      /\ c.read = 0 /\ c.token = None /\ c.sink = << >>
  BY <1>3
<1>. HIDE DEF c
<1>5. Len(log) \in Nat
  BY DEF LogsInv
<1>6. InOrder(<< >>, {k \in 1 .. 0 : log[k] # "empty"})
  <2>1. {k \in 1 .. 0 : log[k] # "empty"} = {}
    OBVIOUS
  <2>2. Range(<< >>) = {} /\ DOMAIN << >> = {}
    BY DEF Range
  <2>3. QED
    BY <2>1, <2>2 DEF InOrder
<1>7. Reading(c, log)
  BY <1>4, <1>5, <1>6 DEF Reading
<1>8. QED
  BY <1>7 DEF c

\* The snapshot of the provider changes only the client of the reader.
LEMMA ReadingAfterSnapshot ==
  ASSUME IInv, TInv, LogsInv, NEW t \in Threads, Snapshot(t), pc'[t] = "events"
  PROVE  Reading(call'[t], log)
<1>1. /\ pc[t] = "snapshot"
      /\ call' = [call EXCEPT ![t].client = runnerClient, ![t].config = runnerConfig]
      /\ Goto(t, IF call[t].op = "RunJob" THEN "register"
                 ELSE IF call[t].op = "JobStatus" THEN "describe" ELSE "events")
  <2>1. ~Error(t)
    BY DEF Error, Reply, IInv, ConfigInv
  <2>2. QED
    BY <2>1, Zenon DEF Snapshot
<1>2. call[t].op \notin {"RunJob", "JobStatus"}
  BY <1>1 DEF Goto, IInv, ConfigInv
<1>3. Reading(call[t], log)
  BY <1>1, <1>2 DEF LogsInv
<1>. DEFINE c == call[t]
            d == call'[t]
<1>4. d = [c EXCEPT !.client = runnerClient, !.config = runnerConfig]
  BY <1>1 DEF IInv, ConfigInv
<1>5. DOMAIN c = {"op", "client", "config", "read", "token", "sink"}
  BY <1>3 DEF Reading
<1>6. Reading(c, log)
  BY <1>3
<1>. HIDE DEF c, d
<1>7. DOMAIN d = DOMAIN c /\ d.read = c.read /\ d.token = c.token /\ d.sink = c.sink
  BY <1>4, <1>5
<1>8. Reading(d, log)
  BY <1>5, <1>6, <1>7 DEF Reading
<1>9. QED
  BY <1>8 DEF d

LEMMA StepLogsInv == IInv /\ TInv /\ LogsInv /\ [Next]_vars => LogsInv'
<1>. SUFFICES ASSUME IInv, TInv, LogsInv, [Next]_vars, NEW t \in Threads,
                     pc'[t] = "events" \/ (pc'[t] = "snapshot" /\ call'[t].op # "RunJob")
              PROVE  Reading(call'[t], log')
  BY LogGrows DEF LogsInv
<1>1. CASE pc'[t] = pc[t] /\ call'[t] = call[t]
  BY <1>1, ReadingStays DEF LogsInv
<1>2. ASSUME StepBy(t), Reading(call'[t], log) PROVE Reading(call'[t], log')
  BY <1>2, LogGrows
<1>3. CASE CallRunner(t)
  <2>1. pc'[t] = "snapshot"
    BY <1>3 DEF CallRunner, Arrive, IInv, ConfigInv
  <2>2. QED
    BY <1>2, <1>3, <2>1, ReadingStarts DEF StepBy, OtherStep
<1>4. CASE Snapshot(t)
  <2>1. pc'[t] # "snapshot"
    BY <1>4 DEF Snapshot, Error, Reply, Goto, IInv, ConfigInv
  <2>2. QED
    BY <1>2, <1>4, <2>1, ReadingAfterSnapshot DEF StepBy, OtherStep
<1>5. CASE GetLogEvents(t)
  <2>1. pc'[t] # "snapshot"
    BY <1>5 DEF GetLogEvents, Error, Reply, Goto, IInv, ConfigInv
  <2>2. QED
    BY <1>2, <1>5, <2>1, ReadingGoesOn DEF StepBy, OtherStep
<1>6. CASE StepBy(t) /\ ~CallRunner(t) /\ ~Snapshot(t) /\ ~GetLogEvents(t)
  <2>1. pc'[t] \notin {"events", "snapshot"}
    BY <1>6 DEF StepBy, OtherStep, CallInitialize, CallClose, CallRefs, CallOwner,
       ListRegions, Locked, ensureInitialized, initializedResourceDriver, DriverCall,
       RegisterTaskDefinition, RunTask, DescribeTasks, ownershipClientLocked, GetResources,
       GetOwner, TagResources, AWSConfigSnapshot, listAWSRegions, InitializeMock,
       InitializeReal, BuildAWSConfig, Close, Arrive, Goto, Reply, Error, Note, IInv, ConfigInv
  <2>2. QED
    BY <2>1
<1>7. QED
  BY <1>1, <1>3, <1>4, <1>5, <1>6, Mover

LEMMA LogsInvariant == Spec => []LogsInv
<1>1. Init => LogsInv
  BY DEF Init, LogsInv
<1>2. QED
  BY <1>1, StepLogsInv, Invariant, TypeInvariant, PTL DEF Spec

\* JobLogs writes the message of every event there is when it ends, once and in order,
\* whatever pages CloudWatch makes of the log, empty ones too, and although the task
\* goes on writing (runner.go:148-194).
THEOREM LogsAreWhole == Spec => LogsComplete
<1>1. ASSUME IInv, TInv, LogsInv, [Next]_vars, NEW t \in Threads, Replied(t, "JobLogs")
      PROVE  InOrder(reply'[t].sink, Lines(0, Len(log)))
  <2>1. reply'[t] # reply[t] /\ pc[t] # "idle" /\ reply'[t].ok
    <3>1. NoCall.op # "JobLogs"
      BY DEF NoCall
    <3>2. QED
      BY <1>1, <3>1 DEF Replied, TInv, Shape
  <2>2. ~Error(t)
    <3>1. ASSUME Error(t) PROVE FALSE
      BY <1>1, <2>1, <3>1, ErrorShape
    <3>2. QED
      BY <3>1
  <2>3. GetLogEvents(t)
    <3>1. StepBy(t)
      BY <1>1, <2>1, Mover
    <3>2. ~DescribeTasks(t)
      BY <1>1, <2>2, JobStatusReply DEF Replied
    <3>3. QED
      BY <1>1, <3>1, <3>2, NobodyElseAnswers DEF StepBy
  <2>4. Reading(call[t], log)
    BY <1>1, <2>3 DEF GetLogEvents, LogsInv
  <2>5. PICK n \in call[t].read .. Len(log) : \E chunks \in Chunks(call[t].read, n) :
          \/ /\ NextForwardToken(call[t], n) = call[t].token
             /\ Reply(t, [op |-> "JobLogs", ok |-> TRUE, sink |-> call[t].sink \o chunks])
          \/ Goto(t, "events")
    BY <1>1, <2>2, <2>3, EventsOrEnd
  <2>6. PICK chunks \in Chunks(call[t].read, n) :
          /\ NextForwardToken(call[t], n) = call[t].token
          /\ reply'[t] = [op |-> "JobLogs", ok |-> TRUE, sink |-> call[t].sink \o chunks]
    BY <1>1, <2>1, <2>5 DEF Reply, Goto, TInv
  <2>7. reply'[t].sink = call[t].sink \o chunks
    BY <2>6
  <2>8. n = Len(log)
    BY <1>1, <2>4, <2>6, RepeatedAtEnd
  <2>9. QED
    BY <1>1, <2>4, <2>7, <2>8, ChunksFollow
<1>2. IInv /\ TInv /\ LogsInv /\ [Next]_vars =>
        [\A t \in Threads : Replied(t, "JobLogs") =>
           InOrder(reply'[t].sink, Lines(0, Len(log)))]_vars
  BY <1>1
<1>3. QED
  BY <1>2, Invariant, TypeInvariant, LogsInvariant, PTL DEF Spec, LogsComplete

=============================================================================
