----------------------------- MODULE PluginProcess -----------------------------
(***************************************************************************)
(* The plugin process: its modules and steps, its state RPCs and its       *)
(* requirement mapper under concurrent handlers.                           *)
(***************************************************************************)
EXTENDS Storage, StateBackend, RequirementMapper

ASSUME ProcessAssumption ==
  /\ None \notin Threads \cup Locations \cup Configs
  /\ \A config \in Configs : config.ref \in Names \cup {None}
  /\ Budgets \subseteq [Parts -> Nat] /\ MaxFailures \in Nat

Init ==
  /\ registry = [n \in Names |-> None] /\ sessions = 0
  /\ storage = [i \in Storages |-> NotCreated] /\ mutex = [i \in Storages |-> None]
  /\ stopped = [i \in Storages |-> 0]
  /\ upload = [s \in Steps |-> None] /\ download = [s \in Steps |-> None]
  /\ store = None /\ locks = [l \in Locations |-> None]
  /\ held = [t \in Threads |-> None] /\ moved = FALSE
  /\ pc = [t \in Threads |-> "idle"]
  /\ call = [t \in Threads |-> NoCall] /\ derived = None
  /\ calls \in Budgets /\ failures = MaxFailures

\* MapRequirements looks at nothing but its request.
MapRequirements(t) ==
  /\ Spend(t, "mapper")
  /\ \E provider \in {Unspecified, "aws", "other"}, runtime \in {"ecs", "other"},
        reqs \in RequirementSets :
       LET accepted == Accepted(runtime, reqs)
       IN derived' = IF provider = "other" THEN None
                     ELSE [accepted |-> accepted,
                           modules |-> IF accepted = {} THEN {}
                                       ELSE {awsCollectorModuleConfig(accepted)}]
  /\ UNCHANGED << modules, backend, pc, call >>

\* The steps of a call that has arrived.
Step(t) ==
  \/ BuildAWSConfig(t) \/ AssumeRole(t) \/ StaticCredentials(t)
  \/ Start(t) \/ Stop(t) \/ getClient(t) \/ SendObject(t) \/ ReadAll(t)
  \/ PutLock(t) \/ HeadLock(t) \/ DeleteLock(t) \/ StateRequest(t)

Next ==
  \E t \in Threads :
    \/ Register(t) \/ CreateStorage(t) \/ CreateUpload(t) \/ CreateDownload(t)
    \/ CallStorage(t) \/ Upload(t) \/ Download(t)
    \/ Configure(t) \/ resolveStore(t) \/ resolveStoreToUnlock(t)
    \/ MapRequirements(t)
    \/ Step(t)

Spec == Init /\ [][Next]_vars

\* A handler has its own goroutine, and its requests are answered in the end.
FairSpec == Spec /\ \A t \in Threads : WF_vars(Step(t))

-----------------------------------------------------------------------------
(***************************************************************************)
(* Properties.                                                             *)
(***************************************************************************)

\* Types; a storage module's mutex is held by the Start that builds its client,
\* and by nobody else.
TypeOK ==
  /\ sessions \in Nat /\ moved \in BOOLEAN
  /\ store \in Locations \cup {None} /\ (moved => store # None)
  /\ \A n \in Names : registry[n] \in Inputs \cup {None}
  /\ \A l \in Locations : locks[l] \in Threads \cup {None}
  /\ \A t \in Threads :
       /\ held[t] \in Locations \cup {None}
       /\ pc[t] \in {"idle", "lock", "build", "assume", "answer", "send", "read",
                     "put lock", "head lock", "delete lock", "request"}
       /\ pc[t] = "idle" <=> call[t] = NoCall
  /\ \A i \in Storages, t \in Threads :
       mutex[i] = t <=> /\ pc[t] \in {"build", "assume", "answer"}
                        /\ call[t].op = "Start" /\ call[t].storage = i

\* Whoever refers to a credentials module uses what is registered under its name
\* now, whenever it looked, in its own region if it has one: storage modules with
\* their clients, upload steps, and the calls that run.
OneIdentity ==
  LET Current(x) == Resolvable(x.config) /\ x.cred = resolveAWSCredentials(x.config)
      Mine(client, cred) == client = None \/ client = Client(cred, client.session)
  IN /\ \A i \in Storages : storage[i] # NotCreated =>
          Current(storage[i]) /\ Mine(storage[i].client, storage[i].cred)
     /\ \A s \in Steps : upload[s] # None => Current(upload[s])
     /\ \A t \in Threads : pc[t] \in {"lock", "build", "assume", "answer", "send", "read"} =>
          Current(call[t]) /\ Mine(call[t].client, call[t].cred)

\* Nothing renews the credentials of a role, so they have to be new where that can
\* be had: a step sends with a session made during its Execute, and a storage
\* module that was stopped has none from before.
FreshSessions ==
  /\ \A t \in Threads :
       pc[t] \in {"send", "read"} /\ call[t].op # "Object" /\ call[t].client.kind = "role" =>
         call[t].client.session > call[t].since
  /\ \A i \in Storages :
       storage[i].client # None /\ storage[i].client.kind = "role" =>
         storage[i].client.session > stopped[i]

\* Configure may replace the store while hosts hold its locks, and move it to another
\* bucket or prefix when none of them does: who got a lock has it, alone, where its
\* Unlock will look for it, and an Unlock that began removes its own host's lock.
SessionsSurviveConfigure ==
  ~moved =>
    \A t \in Threads :
      /\ held[t] # None => held[t] = store /\ locks[store] = t
      /\ pc[t] \in {"head lock", "delete lock"} => locks[call[t].location] = t

\* There is a collector as soon as a requirement is accepted, one for all of them.  It
\* is consistent and serves each as far as its backends can; it has something to run
\* unless no signal of the accepted requirements goes with any of their backends, who
\* are accepted all the same (traces for Loki alone, iacserver_mapper.go:211-223).
MapperCovers ==
  derived # None =>
    /\ derived.modules = {} <=> derived.accepted = {}
    /\ \A module \in derived.modules :
         /\ Consistent(module)
         /\ Starts(module) <=> CanServe(derived.accepted)
         /\ \A r \in derived.accepted : Satisfies(module, r, derived.accepted)

\* Every call ends, although Start keeps a mutex while STS is asked.
CallsEnd == \A t \in Threads : pc[t] # "idle" ~> pc[t] = "idle"
=============================================================================
