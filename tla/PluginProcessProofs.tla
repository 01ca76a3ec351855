------------------------- MODULE PluginProcessProofs -------------------------
(***************************************************************************)
(* The plugin process for any number of handlers, modules, steps, stores   *)
(* and requirements: whoever refers to credentials uses what is registered *)
(* now, no lock is lost while Configure moves no store under a session,    *)
(* the collector that the mapper derives serves every accepted requirement *)
(* as far as its backends can, and sessions are as new as they should be.  *)
(***************************************************************************)
EXTENDS PluginProcess, TLAPS

ModulePlaces == {"lock", "build", "assume", "answer", "send", "read"}
StatePlaces  == {"put lock", "head lock", "delete lock", "request"}
StorageOps   == {"Start", "Stop", "Object"}
ModuleOps    == StorageOps \cup {"Upload", "Download"}

\* What the call of a handler at the place p is.
ModuleCall(p, c) ==
  /\ {"op", "storage", "config", "cred", "client", "session", "since"} \subseteq DOMAIN c
  /\ c.op \in ModuleOps /\ c.config \in Configs
  /\ c.op \in StorageOps => c.storage \in Storages
  /\ p = "lock" => c.op \in StorageOps
  /\ p \in {"build", "assume", "answer"} => c.op \in {"Start", "Upload", "Download"}

StateCall(c) ==
  /\ {"op", "location"} \subseteq DOMAIN c
  /\ c.op \in {"Lock", "Unlock", "State"}

CallShape(p, c) ==
  /\ p \in ModulePlaces \cup StatePlaces \cup {"idle"}
  /\ p = "idle" => c = NoCall
  /\ p \in ModulePlaces => ModuleCall(p, c)
  /\ p \in StatePlaces => StateCall(c)

CInv ==
  /\ DOMAIN pc = Threads /\ DOMAIN call = Threads
  /\ \A t \in Threads : CallShape(pc[t], call[t])

\* A step is one of t's alone.
StepOf(t) ==
  /\ DOMAIN pc' = Threads /\ DOMAIN call' = Threads
  /\ \A u \in Threads \ {t} : pc'[u] = pc[u] /\ call'[u] = call[u]

-----------------------------------------------------------------------------
(***************************************************************************)
(* One identity.                                                           *)
(***************************************************************************)

\* The credentials cred are what config names now, and client is one of theirs.
Resolves(config, cred) == Resolvable(config) /\ cred = resolveAWSCredentials(config)
Mine(client, cred)     == client = None \/ client = Client(cred, client.session)

StorageOK(i) ==
  storage[i] # NotCreated =>
    /\ storage[i].config \in Configs
    /\ Resolves(storage[i].config, storage[i].cred) /\ Mine(storage[i].client, storage[i].cred)

\* A call for a storage module works with what the module has.
CallOK(t) ==
  pc[t] \in ModulePlaces =>
    /\ Resolves(call[t].config, call[t].cred) /\ Mine(call[t].client, call[t].cred)
    /\ call[t].op \in StorageOps =>
         /\ storage[call[t].storage].config = call[t].config
         /\ storage[call[t].storage].cred = call[t].cred

IInv ==
  /\ CInv
  /\ DOMAIN registry = Names /\ DOMAIN storage = Storages
  /\ DOMAIN upload = Steps /\ DOMAIN download = Steps
  /\ \A i \in Storages : StorageOK(i)
  /\ \A s \in Steps : upload[s] # None =>
       upload[s].config \in Configs /\ Resolves(upload[s].config, upload[s].cred)
  /\ \A s \in Steps : download[s] # None => download[s] \in Configs
  /\ \A t \in Threads : CallOK(t)

LEMMA InitIInv == Init => IInv
BY DEF Init, IInv, CInv, CallShape, StorageOK, CallOK, ModulePlaces, StatePlaces

LEMMA IInvOneIdentity == IInv => OneIdentity
BY DEF IInv, StorageOK, CallOK, Resolves, Mine, OneIdentity, ModulePlaces

\* What a config names is found again: a name is never registered anew.
LEMMA KeepsResolving ==
  ASSUME IInv, registry' = registry \/ (\E t \in Threads : Register(t)),
         NEW config \in Configs, NEW cred, Resolves(config, cred)
  PROVE  Resolves(config, cred)'
<1>1. ASSUME config.inline = None, config.ref # None
      PROVE  registry'[config.ref] = registry[config.ref]
  <2>1. config.ref \in Names /\ registry[config.ref] # None
    BY <1>1, ProcessAssumption DEF Resolves, Resolvable, ProcessAssumption
  <2>2. QED
    BY <2>1 DEF Register, IInv
<1>2. QED
  BY <1>1 DEF Resolves, Resolvable, resolveAWSCredentials

\* The invariant after a step of a module or step, which leaves every storage module
\* its credentials.
LEMMA ModuleIInv ==
  ASSUME IInv, NEW t \in Threads, StepOf(t), CallShape(pc'[t], call'[t]), CallOK(t)',
         UNCHANGED << registry, upload, download >>, DOMAIN storage' = Storages,
         \A i \in Storages : /\ StorageOK(i)' /\ storage'[i].config = storage[i].config
                            /\ storage'[i].cred = storage[i].cred
  PROVE  IInv'
<1>1. CInv'
  BY DEF IInv, CInv, StepOf
<1>2. ASSUME NEW config \in Configs, NEW cred, Resolves(config, cred)
      PROVE  Resolves(config, cred)'
  BY <1>2, KeepsResolving
<1>3. \A u \in Threads : CallOK(u)'
  <2>. SUFFICES ASSUME NEW u \in Threads, u # t PROVE CallOK(u)'
    OBVIOUS
  <2>1. pc'[u] = pc[u] /\ call'[u] = call[u]
    BY DEF StepOf
  <2>. SUFFICES ASSUME pc[u] \in ModulePlaces PROVE CallOK(u)'
    BY <2>1 DEF CallOK
  <2>2. CallOK(u) /\ ModuleCall(pc[u], call[u])
    BY DEF IInv, CInv, CallShape
  <2>3. Resolves(call[u].config, call[u].cred)'
    BY <1>2, <2>1, <2>2 DEF CallOK, ModuleCall, Resolves, Resolvable, resolveAWSCredentials
  <2>4. QED
    BY <2>1, <2>2, <2>3 DEF CallOK, ModuleCall, Mine
<1>4. QED
  BY <1>1, <1>2, <1>3 DEF IInv, Resolves, Resolvable, resolveAWSCredentials

\* The invariant after a step of the state server or the mapper.
LEMMA StateIInv ==
  ASSUME IInv, NEW t \in Threads, StepOf(t), CallShape(pc'[t], call'[t]),
         pc'[t] \notin ModulePlaces, UNCHANGED modules
  PROVE  IInv'
<1>1. CInv'
  BY DEF IInv, CInv, StepOf
<1>2. UNCHANGED << registry, storage, upload, download >>
  BY DEF modules
<1>3. \A i \in Storages : StorageOK(i)'
  BY <1>2 DEF IInv, StorageOK, Resolves, Resolvable, resolveAWSCredentials
<1>4. ASSUME NEW u \in Threads
      PROVE  CallOK(u)'
  <2>. SUFFICES ASSUME pc'[u] \in ModulePlaces PROVE CallOK(u)'
    BY DEF CallOK
  <2>1. pc'[u] = pc[u] /\ call'[u] = call[u]
    BY DEF StepOf
  <2>2. CallOK(u)
    BY DEF IInv
  <2>3. Resolves(call[u].config, call[u].cred)'
    BY <1>2, <2>1, <2>2 DEF CallOK, Resolves, Resolvable, resolveAWSCredentials
  <2>4. QED
    BY <1>2, <2>1, <2>2, <2>3 DEF CallOK, Mine
<1>5. QED
  BY <1>1, <1>2, <1>3, <1>4 DEF IInv, Resolves, Resolvable, resolveAWSCredentials

-----------------------------------------------------------------------------
\* How calls move.
LEMMA Served ==
  ASSUME CInv, NEW t \in Threads, NEW p, Serve(t, p)
  PROVE  StepOf(t) /\ CallShape(pc'[t], call'[t]) /\ pc'[t] = "idle"
BY DEF CInv, Serve, Spend, StepOf

LEMMA Arrived ==
  ASSUME CInv, NEW t \in Threads, NEW p, NEW c, NEW q, Arrive(t, p, c, q)
  PROVE  StepOf(t) /\ pc[t] = "idle" /\ pc'[t] = q /\ call'[t] = c
BY DEF CInv, Arrive, Spend, StepOf

LEMMA Returned ==
  ASSUME CInv, NEW t \in Threads, Return(t)
  PROVE  StepOf(t) /\ CallShape(pc'[t], call'[t]) /\ pc'[t] = "idle"
BY DEF CInv, Return, StepOf, CallShape, ModulePlaces, StatePlaces

LEMMA GoneOn ==
  ASSUME CInv, NEW t \in Threads, NEW q, Goto(t, q), UNCHANGED call
  PROVE  StepOf(t) /\ pc'[t] = q /\ call'[t] = call[t]
BY DEF CInv, Goto, StepOf

\* Nothing but the client or the session of a call changes on its way.
SameCall(c, d) ==
  /\ d.op = c.op /\ d.storage = c.storage /\ d.config = c.config /\ d.cred = c.cred
  /\ d.since = c.since

\* A call is given a client.
LEMMA GivenClient ==
  ASSUME CInv, NEW t \in Threads, NEW client, pc[t] \in ModulePlaces,
         call' = [call EXCEPT ![t].client = client], Goto(t, "send")
  PROVE  /\ StepOf(t) /\ pc'[t] = "send" /\ CallShape(pc'[t], call'[t])
         /\ call'[t].client = client /\ SameCall(call[t], call'[t])
<1>1. ModuleCall(pc[t], call[t])
  BY DEF CInv, CallShape
<1>2. StepOf(t) /\ pc'[t] = "send" /\ call'[t] = [call[t] EXCEPT !.client = client]
  BY DEF CInv, Goto, StepOf
<1>3. DOMAIN call'[t] = DOMAIN call[t] /\ call'[t].client = client
  BY <1>1, <1>2 DEF ModuleCall
<1>4. SameCall(call[t], call'[t])
  BY <1>1, <1>2 DEF ModuleCall, SameCall
<1>5. CallShape("send", call'[t])
  BY <1>1, <1>3, <1>4 DEF CallShape, ModuleCall, SameCall, ModulePlaces, StatePlaces
<1>6. QED
  BY <1>2, <1>3, <1>4, <1>5

\* A call is given a session.
LEMMA GivenSession ==
  ASSUME CInv, NEW t \in Threads, NEW n, pc[t] = "assume",
         call' = [call EXCEPT ![t].session = n], Goto(t, "answer")
  PROVE  /\ StepOf(t) /\ pc'[t] = "answer" /\ CallShape(pc'[t], call'[t])
         /\ call'[t].session = n /\ call'[t].client = call[t].client /\ SameCall(call[t], call'[t])
<1>1. ModuleCall(pc[t], call[t])
  BY DEF CInv, CallShape, ModulePlaces
<1>2. StepOf(t) /\ pc'[t] = "answer" /\ call'[t] = [call[t] EXCEPT !.session = n]
  BY DEF CInv, Goto, StepOf
<1>3. DOMAIN call'[t] = DOMAIN call[t] /\ call'[t].session = n /\ call'[t].client = call[t].client
  BY <1>1, <1>2 DEF ModuleCall
<1>4. SameCall(call[t], call'[t])
  BY <1>1, <1>2 DEF ModuleCall, SameCall
<1>5. CallShape("answer", call'[t])
  <2>1. pc[t] = "assume"
    OBVIOUS
  <2>2. QED
    BY <1>1, <1>3, <1>4, <2>1 DEF CallShape, ModuleCall, SameCall, ModulePlaces, StatePlaces
<1>6. QED
  BY <1>2, <1>3, <1>4, <1>5

\* A storage module gets or loses its client.
LEMMA SetClientOK ==
  ASSUME IInv, NEW i \in Storages, NEW client, SetClient(i, client), UNCHANGED registry,
         storage[i].config \in Configs, Mine(client, storage[i].cred)
  PROVE  /\ DOMAIN storage' = Storages
         /\ \A j \in Storages : /\ StorageOK(j)' /\ storage'[j].config = storage[j].config
                               /\ storage'[j].cred = storage[j].cred
<1>1. DOMAIN storage' = Storages /\ \A j \in Storages \ {i} : storage'[j] = storage[j]
  BY DEF IInv, SetClient
<1>2. storage'[i] = [config |-> storage[i].config, cred |-> storage[i].cred, client |-> client]
  BY DEF IInv, SetClient
<1>3. storage'[i].config = storage[i].config /\ storage'[i].cred = storage[i].cred
      /\ storage'[i].client = client
  BY <1>2
<1>4. storage[i] # NotCreated
  BY ProcessAssumption DEF NotCreated, ProcessAssumption
<1>5. StorageOK(i)'
  <2>1. StorageOK(i)
    BY DEF IInv
  <2>2. Resolves(storage[i].config, storage[i].cred)
    BY <1>4, <2>1 DEF StorageOK
  <2>3. QED
    BY <1>3, <2>2 DEF StorageOK, Resolves, Resolvable, resolveAWSCredentials, Mine
<1>6. ASSUME NEW j \in Storages, j # i PROVE StorageOK(j)'
  BY <1>1, <1>6 DEF IInv, StorageOK, Resolves, Resolvable, resolveAWSCredentials
<1>7. QED
  BY <1>1, <1>3, <1>5, <1>6

-----------------------------------------------------------------------------
\* Modules and steps are created.
LEMMA RegisterIInv ==
  ASSUME IInv, NEW t \in Threads, Register(t)
  PROVE  IInv'
<1>1. UNCHANGED << pc, call, storage, upload, download >> /\ DOMAIN registry' = Names
  BY DEF Register, Serve, IInv, backend
<1>2. CInv'
  BY <1>1 DEF IInv, CInv
<1>3. ASSUME NEW config \in Configs, NEW cred, Resolves(config, cred)
      PROVE  Resolves(config, cred)'
  BY <1>3, KeepsResolving
<1>4. ASSUME NEW i \in Storages PROVE StorageOK(i)'
  <2>. SUFFICES ASSUME storage[i] # NotCreated PROVE StorageOK(i)'
    BY <1>1 DEF StorageOK
  <2>1. StorageOK(i)
    BY DEF IInv
  <2>2. Resolves(storage[i].config, storage[i].cred)'
    BY <1>1, <1>3, <2>1 DEF StorageOK, Resolves, Resolvable, resolveAWSCredentials
  <2>3. QED
    BY <1>1, <2>1, <2>2 DEF StorageOK, Mine
<1>5. ASSUME NEW u \in Threads PROVE CallOK(u)'
  <2>. SUFFICES ASSUME pc[u] \in ModulePlaces PROVE CallOK(u)'
    BY <1>1 DEF CallOK
  <2>1. CallOK(u) /\ call[u].config \in Configs
    BY DEF IInv, CInv, CallShape, ModuleCall
  <2>2. Resolves(call[u].config, call[u].cred)'
    BY <1>1, <1>3, <2>1 DEF CallOK, Resolves, Resolvable, resolveAWSCredentials
  <2>3. QED
    BY <1>1, <2>1, <2>2 DEF CallOK, Mine
<1>6. ASSUME NEW s \in Steps, upload'[s] # None
      PROVE  upload'[s].config \in Configs /\ Resolves(upload[s].config, upload[s].cred)'
  BY <1>1, <1>3, <1>6 DEF IInv
<1>7. QED
  BY <1>1, <1>2, <1>4, <1>5, <1>6 DEF IInv

LEMMA CreateIInv ==
  ASSUME IInv, NEW t \in Threads, CreateStorage(t) \/ CreateUpload(t) \/ CreateDownload(t)
  PROVE  IInv'
<1>1. UNCHANGED << pc, call, registry >>
  BY DEF CreateStorage, CreateUpload, CreateDownload, Serve, backend
<1>2. CInv'
  BY <1>1 DEF IInv, CInv
<1>3. ASSUME NEW config, NEW cred, Resolves(config, cred)
      PROVE  Resolves(config, cred)'
  BY <1>1, <1>3 DEF Resolves, Resolvable, resolveAWSCredentials
<1>4. CASE CreateStorage(t)
  <2>1. PICK i \in Storages, config \in Configs :
          /\ storage[i] = NotCreated /\ UNCHANGED << upload, download >>
          /\ \/ UNCHANGED storage
             \/ /\ Resolvable(config)
                /\ storage' = [storage EXCEPT ![i] =
                      [config |-> config, cred |-> resolveAWSCredentials(config), client |-> None]]
    BY <1>4 DEF CreateStorage
  <2>2. CASE UNCHANGED storage
    BY <1>1, <1>2, <2>1, <2>2 DEF IInv, StorageOK, CallOK, Resolves, Resolvable, resolveAWSCredentials
  <2>3. CASE /\ Resolvable(config)
             /\ storage' = [storage EXCEPT ![i] =
                   [config |-> config, cred |-> resolveAWSCredentials(config), client |-> None]]
    <3>1. DOMAIN storage' = Storages /\ \A j \in Storages \ {i} : storage'[j] = storage[j]
      BY <2>3 DEF IInv
    <3>2. storage'[i].config = config /\ storage'[i].cred = resolveAWSCredentials(config)
          /\ storage'[i].client = None
      BY <2>3 DEF IInv
    <3>3. Resolves(storage[i].config, storage[i].cred)'
      BY <1>1, <2>3, <3>2 DEF Resolves, Resolvable, resolveAWSCredentials
    <3>4. StorageOK(i)'
      BY <3>2, <3>3 DEF StorageOK, Mine
    <3>5. ASSUME NEW j \in Storages, j # i PROVE StorageOK(j)'
      BY <1>3, <3>1, <3>5 DEF IInv, StorageOK
    <3>6. ASSUME NEW u \in Threads PROVE CallOK(u)'
      <4>. SUFFICES ASSUME pc[u] \in ModulePlaces PROVE CallOK(u)'
        BY <1>1 DEF CallOK
      <4>1. CallOK(u) /\ ModuleCall(pc[u], call[u])
        BY DEF IInv, CInv, CallShape
      <4>2. call[u].op \in StorageOps => call[u].storage \in Storages \ {i}
        <5>1. storage[i].config = None /\ None \notin Configs
          BY <2>1, ProcessAssumption DEF NotCreated, ProcessAssumption
        <5>2. QED
          BY <4>1, <5>1 DEF CallOK, ModuleCall
      <4>3. Resolves(call[u].config, call[u].cred)'
        BY <1>1, <4>1 DEF CallOK, Resolves, Resolvable, resolveAWSCredentials
      <4>4. QED
        BY <1>1, <3>1, <4>1, <4>2, <4>3 DEF CallOK, Mine
    <3>7. QED
      BY <1>1, <1>2, <1>3, <2>1, <3>1, <3>4, <3>5, <3>6 DEF IInv
  <2>4. QED
    BY <2>1, <2>2, <2>3
<1>5. CASE CreateUpload(t)
  <2>1. UNCHANGED << storage, download >>
    BY <1>5 DEF CreateUpload
  <2>2. (\A i \in Storages : StorageOK(i)') /\ (\A u \in Threads : CallOK(u)')
    BY <1>1, <2>1 DEF IInv, StorageOK, CallOK, Resolves, Resolvable, resolveAWSCredentials
  <2>3. PICK s \in Steps, config \in Configs :
          \/ UNCHANGED upload
          \/ /\ Resolvable(config)
             /\ upload' = [upload EXCEPT ![s] =
                   [config |-> config, cred |-> resolveAWSCredentials(config)]]
    BY <1>5 DEF CreateUpload, StepConfigs
  <2>4. DOMAIN upload' = Steps
    BY <2>3 DEF IInv
  <2>5. ASSUME NEW r \in Steps, upload'[r] # None
        PROVE  upload'[r].config \in Configs /\ Resolves(upload'[r].config, upload'[r].cred)
    BY <2>3, <2>5 DEF IInv, Resolves
  <2>6. QED
    BY <1>1, <1>2, <1>3, <2>1, <2>2, <2>4, <2>5 DEF IInv
<1>6. CASE CreateDownload(t)
  <2>1. UNCHANGED << storage, upload >>
    BY <1>6 DEF CreateDownload
  <2>2. (\A i \in Storages : StorageOK(i)') /\ (\A u \in Threads : CallOK(u)')
    BY <1>1, <2>1 DEF IInv, StorageOK, CallOK, Resolves, Resolvable, resolveAWSCredentials
  <2>3. DOMAIN download' = Steps /\ \A s \in Steps : download'[s] # None => download'[s] \in Configs
    BY <1>6 DEF CreateDownload, StepConfigs, IInv
  <2>4. QED
    BY <1>1, <1>2, <1>3, <2>1, <2>2, <2>3 DEF IInv
<1>7. QED
  BY <1>4, <1>5, <1>6

-----------------------------------------------------------------------------
\* Calls for storage modules and of steps arrive.
LEMMA ModuleCallsIInv ==
  ASSUME IInv, NEW t \in Threads, CallStorage(t) \/ Upload(t) \/ Download(t)
  PROVE  IInv'
<1>1. UNCHANGED << registry, storage, upload, download >>
  BY DEF CallStorage, Upload, Download, modules, backend
<1>2. /\ DOMAIN storage' = Storages
      /\ \A i \in Storages : /\ StorageOK(i)' /\ storage'[i].config = storage[i].config
                            /\ storage'[i].cred = storage[i].cred
  BY <1>1 DEF IInv, StorageOK, Resolves, Resolvable, resolveAWSCredentials
<1>3. CASE \E p : Serve(t, p)
  <2>1. StepOf(t) /\ CallShape(pc'[t], call'[t]) /\ pc'[t] = "idle"
    BY <1>3, Served DEF IInv
  <2>2. QED
    BY <1>1, <1>2, <2>1, ModuleIInv DEF CallOK, ModulePlaces
<1>4. ASSUME NEW op \in ModuleOps, NEW i, NEW config \in Configs, NEW cred, NEW n, NEW q,
             op \in StorageOps => i \in Storages,
             op \in StorageOps => q = "lock" /\ storage[i].config = config /\ storage[i].cred = cred,
             op \notin StorageOps => q = "build",
             Resolves(config, cred),
             Arrive(t, "modules", [op |-> op, storage |-> i, config |-> config, cred |-> cred,
                                   client |-> None, session |-> 0, since |-> n], q)
      PROVE  IInv'
  <2>. DEFINE c == [op |-> op, storage |-> i, config |-> config, cred |-> cred,
                    client |-> None, session |-> 0, since |-> n]
  <2>1. /\ c.op = op /\ c.storage = i /\ c.config = config /\ c.cred = cred /\ c.client = None
        /\ {"op", "storage", "config", "cred", "client", "session", "since"} \subseteq DOMAIN c
    OBVIOUS
  <2>2. Arrive(t, "modules", c, q)
    BY <1>4
  <2>. HIDE DEF c
  <2>3. StepOf(t) /\ pc'[t] = q /\ call'[t] = c
    BY <2>2, Arrived DEF IInv
  <2>4. CallShape(q, c)
    BY <1>4, <2>1 DEF CallShape, ModuleCall, ModulePlaces, StatePlaces, StorageOps, ModuleOps
  <2>5. CallOK(t)'
    BY <1>1, <1>4, <2>1, <2>3 DEF CallOK, Mine, Resolves, Resolvable, resolveAWSCredentials
  <2>6. QED
    BY <1>1, <1>2, <2>3, <2>4, <2>5, ModuleIInv
<1>5. CASE CallStorage(t)
  <2>1. PICK i \in Storages, op \in StorageOps :
          /\ storage[i] # NotCreated
          /\ Arrive(t, "modules", [op |-> op, storage |-> i, config |-> storage[i].config,
                                   cred |-> storage[i].cred, client |-> None,
                                   session |-> 0, since |-> 0], "lock")
    BY <1>5, Zenon DEF CallStorage, StorageOps
  <2>2. storage[i].config \in Configs /\ Resolves(storage[i].config, storage[i].cred)
    BY <2>1 DEF IInv, StorageOK
  <2>3. QED
    BY <1>4, <2>1, <2>2 DEF ModuleOps
<1>6. CASE Upload(t)
  <2>1. PICK s \in Steps :
          /\ upload[s] # None
          /\ \/ Serve(t, "modules")
             \/ Arrive(t, "modules", [op |-> "Upload", storage |-> None, config |-> upload[s].config,
                                      cred |-> upload[s].cred, client |-> None,
                                      session |-> 0, since |-> sessions], "build")
    BY <1>6, Zenon DEF Upload
  <2>2. upload[s].config \in Configs /\ Resolves(upload[s].config, upload[s].cred)
    BY <2>1 DEF IInv
  <2>3. "Upload" \in ModuleOps /\ "Upload" \notin StorageOps
    BY DEF ModuleOps, StorageOps
  <2>4. QED
    BY <1>3, <1>4, <2>1, <2>2, <2>3
<1>7. CASE Download(t)
  <2>1. PICK s \in Steps :
          /\ download[s] # None
          /\ \/ Serve(t, "modules")
             \/ /\ Resolvable(download[s])
                /\ Arrive(t, "modules", [op |-> "Download", storage |-> None, config |-> download[s],
                                         cred |-> resolveAWSCredentials(download[s]), client |-> None,
                                         session |-> 0, since |-> sessions], "build")
    BY <1>7, Zenon DEF Download
  <2>2. download[s] \in Configs
    BY <2>1 DEF IInv
  <2>3. "Download" \in ModuleOps /\ "Download" \notin StorageOps
    BY DEF ModuleOps, StorageOps
  <2>4. QED
    BY <1>3, <1>4, <2>1, <2>2, <2>3 DEF Resolves
<1>8. QED
  BY <1>5, <1>6, <1>7

\* Credentials are resolved.
LEMMA BuiltIInv ==
  ASSUME IInv, NEW t \in Threads, NEW session, pc[t] \in {"build", "answer"}, Built(t, session),
         UNCHANGED << registry, upload, download, backend >>
  PROVE  IInv'
<1>1. ModuleCall(pc[t], call[t]) /\ CallOK(t) /\ call[t].op \in {"Start", "Upload", "Download"}
  BY DEF IInv, CInv, CallShape, ModuleCall, ModulePlaces
<1>. DEFINE client == Client(call[t].cred, session)
<1>2. client.session = session
  BY DEF Client
<1>3. CASE call[t].op = "Start"
  <2>1. SetClient(call[t].storage, client) /\ Return(t)
    BY <1>3, Zenon DEF Built
  <2>2. /\ call[t].storage \in Storages /\ call[t].config \in Configs
        /\ storage[call[t].storage].config = call[t].config
        /\ storage[call[t].storage].cred = call[t].cred
    BY <1>1, <1>3 DEF CallOK, ModuleCall, ModulePlaces, StorageOps
  <2>3. Mine(client, storage[call[t].storage].cred)
    BY <1>2, <2>2 DEF Mine
  <2>. HIDE DEF client
  <2>4. /\ DOMAIN storage' = Storages
        /\ \A i \in Storages : /\ StorageOK(i)' /\ storage'[i].config = storage[i].config
                              /\ storage'[i].cred = storage[i].cred
    BY <2>1, <2>2, <2>3, SetClientOK
  <2>5. StepOf(t) /\ CallShape(pc'[t], call'[t]) /\ CallOK(t)'
    BY <2>1, Returned DEF IInv, CallOK, ModulePlaces
  <2>6. QED
    BY <2>4, <2>5, ModuleIInv DEF backend
<1>4. CASE call[t].op # "Start"
  <2>1. /\ call' = [call EXCEPT ![t].client = client] /\ Goto(t, "send")
        /\ UNCHANGED storage
    BY <1>4, Zenon DEF Built
  <2>2. Mine(client, call[t].cred)
    BY <1>2 DEF Mine
  <2>. HIDE DEF client
  <2>3. /\ StepOf(t) /\ pc'[t] = "send" /\ CallShape(pc'[t], call'[t])
        /\ call'[t].client = client /\ SameCall(call[t], call'[t])
    <3>1. CInv /\ pc[t] \in ModulePlaces
      BY DEF IInv, ModulePlaces
    <3>2. QED
      BY <2>1, <3>1, GivenClient, Zenon
  <2>4. CallOK(t)'
    BY <1>1, <1>4, <2>2, <2>3
       DEF CallOK, SameCall, Resolves, Resolvable, resolveAWSCredentials, ModulePlaces, StorageOps
  <2>5. /\ DOMAIN storage' = Storages
        /\ \A i \in Storages : /\ StorageOK(i)' /\ storage'[i].config = storage[i].config
                              /\ storage'[i].cred = storage[i].cred
    BY <2>1 DEF IInv, StorageOK, Resolves, Resolvable, resolveAWSCredentials
  <2>6. QED
    BY <2>3, <2>4, <2>5, ModuleIInv DEF backend
<1>5. QED
  BY <1>3, <1>4

LEMMA NotBuiltIInv ==
  ASSUME IInv, NEW t \in Threads, NotBuilt(t), UNCHANGED << registry, upload, download, backend >>
  PROVE  IInv'
<1>1. StepOf(t) /\ CallShape(pc'[t], call'[t]) /\ CallOK(t)'
  BY Returned DEF NotBuilt, IInv, CallOK, ModulePlaces
<1>2. /\ DOMAIN storage' = Storages
      /\ \A i \in Storages : /\ StorageOK(i)' /\ storage'[i].config = storage[i].config
                            /\ storage'[i].cred = storage[i].cred
  BY DEF NotBuilt, IInv, StorageOK, Resolves, Resolvable, resolveAWSCredentials
<1>3. QED
  BY <1>1, <1>2, ModuleIInv DEF backend

\* A call that goes on or ends without a client.
LEMMA QuietIInv ==
  ASSUME IInv, NEW t \in Threads, StepOf(t), CallShape(pc'[t], call'[t]),
         pc[t] \in ModulePlaces,
         pc'[t] = "idle" \/ (SameCall(call[t], call'[t]) /\ call'[t].client = call[t].client),
         UNCHANGED << registry, storage, upload, download, backend >>
  PROVE  IInv'
<1>1. CallOK(t)
  BY DEF IInv
<1>2. CallOK(t)'
  <2>1. CASE pc'[t] = "idle"
    BY <2>1 DEF CallOK, ModulePlaces
  <2>2. CASE SameCall(call[t], call'[t]) /\ call'[t].client = call[t].client
    BY <1>1, <2>2 DEF CallOK, SameCall, Mine, Resolves, Resolvable, resolveAWSCredentials
  <2>3. QED
    BY <2>1, <2>2
<1>3. /\ DOMAIN storage' = Storages
      /\ \A i \in Storages : /\ StorageOK(i)' /\ storage'[i].config = storage[i].config
                            /\ storage'[i].cred = storage[i].cred
  BY DEF IInv, StorageOK, Resolves, Resolvable, resolveAWSCredentials
<1>4. QED
  BY <1>2, <1>3, ModuleIInv DEF backend

LEMMA BuildIInv ==
  ASSUME IInv, NEW t \in Threads, BuildAWSConfig(t) \/ AssumeRole(t) \/ StaticCredentials(t)
  PROVE  IInv'
<1>1. UNCHANGED << registry, upload, download, backend >>
  BY DEF BuildAWSConfig, AssumeRole, StaticCredentials
<1>2. CASE NotBuilt(t)
  BY <1>1, <1>2, NotBuiltIInv
<1>3. ASSUME pc[t] \in {"build", "answer"}, NEW session, Built(t, session)
      PROVE  IInv'
  BY <1>1, <1>3, BuiltIInv
<1>4. CASE BuildAWSConfig(t)
  <2>1. CASE Goto(t, "assume") /\ UNCHANGED << call, storage >>
    <3>1. StepOf(t) /\ pc'[t] = "assume" /\ call'[t] = call[t] /\ pc[t] = "build"
      BY <1>4, <2>1, GoneOn DEF IInv, BuildAWSConfig
    <3>2. CallShape("assume", call[t])
      BY <3>1 DEF IInv, CInv, CallShape, ModuleCall, ModulePlaces, StatePlaces
    <3>3. QED
      BY <1>1, <2>1, <3>1, <3>2, QuietIInv DEF SameCall, ModulePlaces
  <2>2. QED
    BY <1>2, <1>3, <1>4, <2>1 DEF BuildAWSConfig
<1>5. CASE AssumeRole(t)
  <2>1. CASE /\ call' = [call EXCEPT ![t].session = sessions + 1] /\ Goto(t, "answer")
             /\ UNCHANGED storage
    BY <1>1, <1>5, <2>1, GivenSession, QuietIInv DEF IInv, AssumeRole, ModulePlaces
  <2>2. QED
    BY <1>2, <1>5, <2>1 DEF AssumeRole
<1>6. CASE StaticCredentials(t)
  BY <1>3, <1>6 DEF StaticCredentials
<1>7. QED
  BY <1>4, <1>5, <1>6

\* The storage module and what is sent.
LEMMA StorageIInv ==
  ASSUME IInv, NEW t \in Threads,
         Start(t) \/ Stop(t) \/ getClient(t) \/ SendObject(t) \/ ReadAll(t)
  PROVE  IInv'
<1>1. CASE Return(t) /\ UNCHANGED storage
  <2>1. pc[t] \in ModulePlaces /\ UNCHANGED << registry, upload, download, backend >>
    BY <1>1 DEF Start, Stop, getClient, SendObject, ReadAll, ModulePlaces, modules
  <2>2. QED
    BY <1>1, <2>1, Returned, QuietIInv DEF IInv
<1>2. CASE \E q \in {"build", "read"} : Goto(t, q) /\ UNCHANGED << call, storage >>
  <2>1. PICK q \in {"build", "read"} : Goto(t, q) /\ UNCHANGED << call, storage >>
    BY <1>2
  <2>2. StepOf(t) /\ pc'[t] = q /\ call'[t] = call[t]
    BY <2>1, GoneOn DEF IInv
  <2>3. \/ pc[t] = "lock" /\ q = "build" /\ call[t].op = "Start"
        \/ pc[t] = "send" /\ q = "read"
    BY <2>1, <2>2 DEF Start, Stop, getClient, SendObject, ReadAll, Return, Goto, IInv, CInv
  <2>4. UNCHANGED << registry, upload, download, backend >>
    BY DEF Start, Stop, getClient, SendObject, ReadAll, modules
  <2>5. CallShape(q, call[t])
    BY <2>3 DEF IInv, CInv, CallShape, ModuleCall, ModulePlaces, StatePlaces
  <2>6. QED
    BY <2>1, <2>2, <2>3, <2>4, <2>5, QuietIInv DEF SameCall, ModulePlaces
<1>3. CASE Start(t)
  BY <1>1, <1>2, <1>3 DEF Start
<1>4. CASE SendObject(t) \/ ReadAll(t)
  BY <1>1, <1>2, <1>4 DEF SendObject, ReadAll, modules
<1>5. CASE Stop(t)
  <2>1. pc[t] = "lock" /\ ModuleCall(pc[t], call[t]) /\ CallOK(t)
    BY <1>5 DEF Stop, IInv, CInv, CallShape, ModulePlaces
  <2>2. call[t].storage \in Storages /\ storage[call[t].storage].config \in Configs
    BY <2>1 DEF CallOK, ModuleCall, ModulePlaces
  <2>3. /\ DOMAIN storage' = Storages
        /\ \A i \in Storages : /\ StorageOK(i)' /\ storage'[i].config = storage[i].config
                              /\ storage'[i].cred = storage[i].cred
    BY <1>5, <2>2, SetClientOK DEF Stop, Mine
  <2>4. StepOf(t) /\ CallShape(pc'[t], call'[t]) /\ CallOK(t)'
    BY <1>5, Returned DEF Stop, IInv, CallOK, ModulePlaces
  <2>5. QED
    BY <1>5, <2>3, <2>4, ModuleIInv DEF Stop, backend
<1>6. CASE getClient(t)
  <2>1. CASE Return(t)
    BY <1>1, <1>6, <2>1 DEF getClient, modules
  <2>2. CASE /\ call' = [call EXCEPT ![t].client = storage[call[t].storage].client]
             /\ Goto(t, "send")
    <3>1. pc[t] = "lock" /\ ModuleCall(pc[t], call[t]) /\ CallOK(t)
          /\ UNCHANGED << registry, storage, upload, download, backend >>
      BY <1>6 DEF getClient, IInv, CInv, CallShape, ModulePlaces, modules
    <3>2. /\ call[t].storage \in Storages /\ storage[call[t].storage].config \in Configs
          /\ storage[call[t].storage].config = call[t].config
          /\ storage[call[t].storage].cred = call[t].cred
      BY <3>1 DEF CallOK, ModuleCall, ModulePlaces
    <3>3. storage[call[t].storage] # NotCreated
      BY <3>2, ProcessAssumption DEF NotCreated, ProcessAssumption
    <3>4. Mine(storage[call[t].storage].client, call[t].cred)
      BY <3>2, <3>3 DEF IInv, StorageOK
    <3>5. /\ StepOf(t) /\ pc'[t] = "send" /\ CallShape(pc'[t], call'[t])
          /\ call'[t].client = storage[call[t].storage].client /\ SameCall(call[t], call'[t])
      <4>1. CInv /\ pc[t] \in ModulePlaces
        BY <3>1 DEF IInv, ModulePlaces
      <4>2. QED
        BY <2>2, <4>1, GivenClient, Zenon
    <3>6. CallOK(t)'
      BY <3>1, <3>4, <3>5
         DEF CallOK, SameCall, Mine, Resolves, Resolvable, resolveAWSCredentials, ModulePlaces
    <3>7. /\ DOMAIN storage' = Storages
          /\ \A i \in Storages : /\ StorageOK(i)' /\ storage'[i].config = storage[i].config
                                /\ storage'[i].cred = storage[i].cred
      BY <3>1 DEF IInv, StorageOK, Resolves, Resolvable, resolveAWSCredentials
    <3>8. QED
      BY <3>1, <3>5, <3>6, <3>7, ModuleIInv DEF backend
  <2>3. QED
    BY <1>6, <2>1, <2>2 DEF getClient
<1>7. QED
  BY <1>3, <1>4, <1>5, <1>6

\* The state server and the mapper.
StateStep(t) ==
  \/ Configure(t) \/ resolveStore(t) \/ resolveStoreToUnlock(t)
  \/ PutLock(t) \/ HeadLock(t) \/ DeleteLock(t) \/ StateRequest(t)

\* A call of the state server moves on or ends.
LEMMA StateMoves ==
  ASSUME CInv, NEW t \in Threads, StateStep(t)
  PROVE  /\ StepOf(t) /\ CallShape(pc'[t], call'[t])
         /\ pc[t] \notin ModulePlaces /\ pc'[t] \notin ModulePlaces
<1>1. pc[t] \notin ModulePlaces
  BY DEF StateStep, Configure, resolveStore, resolveStoreToUnlock, PutLock, HeadLock, DeleteLock,
         StateRequest, Serve, Arrive, Spend, ModulePlaces
<1>2. CASE \E p : Serve(t, p)
  BY <1>1, <1>2, Served DEF ModulePlaces
<1>3. CASE Return(t)
  BY <1>1, <1>3, Returned DEF ModulePlaces
<1>4. ASSUME NEW op \in {"Lock", "Unlock", "State"}, NEW b, NEW q \in StatePlaces,
             Arrive(t, "state", [op |-> op, location |-> b], q)
      PROVE  StepOf(t) /\ CallShape(pc'[t], call'[t]) /\ pc'[t] \notin ModulePlaces
  <2>. DEFINE c == [op |-> op, location |-> b]
  <2>1. "op" \in DOMAIN c /\ "location" \in DOMAIN c /\ c.op = op
    OBVIOUS
  <2>2. Arrive(t, "state", c, q)
    BY <1>4
  <2>. HIDE DEF c
  <2>3. StepOf(t) /\ pc'[t] = q /\ call'[t] = c
    BY <2>2, Arrived
  <2>4. StateCall(c)
    BY <1>4, <2>1 DEF StateCall
  <2>5. QED
    BY <1>4, <2>3, <2>4 DEF CallShape, StatePlaces, ModulePlaces
<1>5. CASE HeadLock(t) /\ Goto(t, "delete lock") /\ UNCHANGED call
  <2>1. StepOf(t) /\ pc'[t] = "delete lock" /\ call'[t] = call[t]
    BY <1>5, GoneOn
  <2>2. StateCall(call[t])
    BY <1>5 DEF HeadLock, CInv, CallShape, StatePlaces
  <2>3. QED
    BY <1>1, <2>1, <2>2 DEF CallShape, StatePlaces, ModulePlaces
<1>6. CASE resolveStore(t)
  <2>1. FirstOf["Lock"] = "put lock" /\ FirstOf["State"] = "request"
    BY DEF FirstOf
  <2>2. QED
    BY <1>1, <1>2, <1>4, <1>6, <2>1 DEF resolveStore, StatePlaces
<1>7. CASE resolveStoreToUnlock(t)
  BY <1>1, <1>4, <1>7 DEF resolveStoreToUnlock, StatePlaces
<1>8. CASE Configure(t) \/ PutLock(t) \/ DeleteLock(t) \/ StateRequest(t)
  BY <1>1, <1>2, <1>3, <1>8 DEF Configure, PutLock, DeleteLock, StateRequest
<1>9. CASE HeadLock(t)
  BY <1>3, <1>5, <1>9 DEF HeadLock
<1>10. QED
  BY <1>6, <1>7, <1>8, <1>9 DEF StateStep

\* The steps of modules and steps.
ModuleStep(t) ==
  \/ Register(t) \/ CreateStorage(t) \/ CreateUpload(t) \/ CreateDownload(t)
  \/ CallStorage(t) \/ Upload(t) \/ Download(t)
  \/ BuildAWSConfig(t) \/ AssumeRole(t) \/ StaticCredentials(t)
  \/ Start(t) \/ Stop(t) \/ getClient(t) \/ SendObject(t) \/ ReadAll(t)

LEMMA Steps3 ==
  ASSUME [Next]_vars
  PROVE  \/ UNCHANGED vars
         \/ \E t \in Threads : ModuleStep(t) \/ StateStep(t) \/ MapRequirements(t)
BY DEF Next, Step, ModuleStep, StateStep

LEMMA StepIInv == IInv /\ [Next]_vars => IInv'
<1>. SUFFICES ASSUME IInv, [Next]_vars PROVE IInv'
  OBVIOUS
<1>1. CASE UNCHANGED << modules, pc, call >>
  BY <1>1 DEF modules, IInv, CInv, StorageOK, CallOK, Resolves, Resolvable, resolveAWSCredentials
<1>2. ASSUME NEW t \in Threads, StateStep(t) PROVE IInv'
  <2>1. UNCHANGED modules
    BY <1>2 DEF StateStep, Configure, resolveStore, resolveStoreToUnlock, PutLock, HeadLock,
       DeleteLock, StateRequest
  <2>2. QED
    BY <1>2, <2>1, StateMoves, StateIInv DEF IInv
<1>3. ASSUME NEW t \in Threads, ModuleStep(t) PROVE IInv'
  BY <1>3, RegisterIInv, CreateIInv, ModuleCallsIInv, BuildIInv, StorageIInv DEF ModuleStep
<1>4. ASSUME NEW t \in Threads, MapRequirements(t) PROVE UNCHANGED << modules, pc, call >>
  BY <1>4 DEF MapRequirements
<1>5. CASE UNCHANGED vars
  BY <1>1, <1>5 DEF vars
<1>6. QED
  BY <1>1, <1>2, <1>3, <1>4, <1>5, Steps3

LEMMA Invariant == Spec => []IInv
BY InitIInv, StepIInv, PTL DEF Spec

\* Storage modules, steps and running calls that refer to a credentials module all use
\* what is registered under its name now, although they looked it up at different
\* times (storage_s3.go:62-97, registry.go:29-40).
THEOREM EveryoneIsTheSame == Spec => []OneIdentity
BY IInvOneIdentity, Invariant, PTL

-----------------------------------------------------------------------------
(***************************************************************************)
(* The requirement mapper.                                                 *)
(***************************************************************************)

\* What the derived collector is made of.
LEMMA Collector ==
  ASSUME NEW reqs
  PROVE  LET module   == awsCollectorModuleConfig(reqs)
             signals  == awsRequestedSignals(reqs)
             backends == awsRequestedBackends(reqs)
         IN /\ module.config.exporters = awsWriteExporters(backends)
            /\ DOMAIN module.config.pipelines =
                 {s \in Signals \cap signals : awsExportersForSignal(s, backends) # {}}
            /\ \A s \in DOMAIN module.config.pipelines :
                 module.config.pipelines[s] = awsExportersForSignal(s, backends)
            /\ module.env = envVars(backends) /\ module.secrets = secretVars(backends)
            /\ module.ports = awsCollectorPorts(backends)
<1>. DEFINE module   == awsCollectorModuleConfig(reqs)
            signals  == awsRequestedSignals(reqs)
            backends == awsRequestedBackends(reqs)
<1>1. /\ module.config = awsBuildCollectorConfig(signals, backends)
      /\ module.env = envVars(backends) /\ module.secrets = secretVars(backends)
      /\ module.ports = awsCollectorPorts(backends)
  BY DEF awsCollectorModuleConfig
<1>. HIDE DEF module, signals, backends
<1>2. /\ module.config.exporters = awsWriteExporters(backends)
      /\ module.config.pipelines =
           [s \in {x \in Signals \cap signals : awsExportersForSignal(x, backends) # {}} |->
              awsExportersForSignal(s, backends)]
  BY <1>1 DEF awsBuildCollectorConfig
<1>3. QED
  BY <1>1, <1>2 DEF module, signals, backends

LEMMA CollectorConsistent ==
  ASSUME NEW reqs
  PROVE  Consistent(awsCollectorModuleConfig(reqs))
<1>. DEFINE module   == awsCollectorModuleConfig(reqs)
            backends == awsRequestedBackends(reqs)
<1>1. ASSUME NEW s \in DOMAIN module.config.pipelines
      PROVE  /\ module.config.pipelines[s] # {}
             /\ module.config.pipelines[s] \subseteq module.config.exporters
  <2>1. awsExportersForSignal(s, backends) \subseteq awsWriteExporters(backends)
    BY DEF awsExportersForSignal, awsWriteExporters
  <2>2. QED
    BY <1>1, <2>1, Collector
<1>2. References(module.config.exporters) \subseteq module.env \cup module.secrets
  <2>1. References(awsWriteExporters(backends)) \subseteq envVars(backends) \cup secretVars(backends)
    BY DEF References, awsWriteExporters, envVars, secretVars
  <2>2. QED
    BY <2>1, Collector
<1>3. "prometheus" \in module.config.exporters => 9464 \in module.ports
  <2>1. "prometheus" \in awsWriteExporters(backends) => 9464 \in awsCollectorPorts(backends)
    BY DEF awsWriteExporters, awsCollectorPorts
  <2>2. QED
    BY <2>1, Collector
<1>4. QED
  BY <1>1, <1>2, <1>3 DEF Consistent

\* What a requirement asks for is requested, and everything requested is asked for.
LEMMA SignalsAsked ==
  ASSUME NEW reqs, reqs # {}, NEW s \in Signals
  PROVE  s \in awsRequestedSignals(reqs) <=> \E r \in reqs : s \in AskedSignals(r, reqs)
<1>. DEFINE some == (UNION {q.signals : q \in reqs}) \ {Unspecified}
<1>1. s # Unspecified
  BY MapperAssumption DEF MapperAssumption
<1>2. awsRequestedSignals(reqs) = IF some = {} THEN Signals ELSE some
  BY DEF awsRequestedSignals
<1>3. s \in some <=> \E r \in reqs : s \in r.signals
  BY <1>1
<1>4. \A r \in reqs : ~(r.signals \subseteq {Unspecified}) => some # {}
  OBVIOUS
<1>5. some = {} => \A r \in reqs : r.signals \subseteq {Unspecified}
  BY <1>4
<1>. HIDE DEF some
<1>6. ASSUME NEW r \in reqs, s \in AskedSignals(r, reqs) PROVE s \in awsRequestedSignals(reqs)
  BY <1>2, <1>3, <1>6 DEF AskedSignals
<1>7. ASSUME s \in awsRequestedSignals(reqs) PROVE \E r \in reqs : s \in AskedSignals(r, reqs)
  <2>1. CASE some = {}
    BY <1>5, <1>7, <2>1 DEF AskedSignals
  <2>2. CASE some # {}
    BY <1>1, <1>2, <1>3, <1>7, <2>2 DEF AskedSignals
  <2>3. QED
    BY <2>1, <2>2
<1>8. QED
  BY <1>6, <1>7

LEMMA BackendsAsked ==
  ASSUME NEW reqs, reqs # {}, NEW b \in Backends
  PROVE  b \in awsRequestedBackends(reqs) <=> \E r \in reqs : b \in AskedBackends(r, reqs)
<1>. DEFINE some == (UNION {q.backends : q \in reqs}) \ {Unspecified}
<1>1. b # Unspecified
  BY MapperAssumption DEF MapperAssumption
<1>2. awsRequestedBackends(reqs) = IF some = {} THEN {"otel"} ELSE some
  BY DEF awsRequestedBackends
<1>3. b \in some <=> \E r \in reqs : b \in r.backends
  BY <1>1
<1>4. \A r \in reqs : ~(r.backends \subseteq {Unspecified}) => some # {}
  OBVIOUS
<1>5. some = {} => \A r \in reqs : r.backends \subseteq {Unspecified}
  BY <1>4
<1>. HIDE DEF some
<1>6. ASSUME NEW r \in reqs, b \in AskedBackends(r, reqs) PROVE b \in awsRequestedBackends(reqs)
  BY <1>2, <1>3, <1>6 DEF AskedBackends
<1>7. ASSUME b \in awsRequestedBackends(reqs) PROVE \E r \in reqs : b \in AskedBackends(r, reqs)
  <2>1. CASE some = {}
    BY <1>5, <1>7, <2>1 DEF AskedBackends
  <2>2. CASE some # {}
    BY <1>1, <1>2, <1>3, <1>7, <2>2 DEF AskedBackends
  <2>3. QED
    BY <2>1, <2>2
<1>8. QED
  BY <1>6, <1>7

\* A pair that is requested is served exactly if the backend takes the signal.
LEMMA CollectorServes ==
  ASSUME NEW reqs, NEW s \in Signals \cap awsRequestedSignals(reqs),
         NEW b \in Backends \cap awsRequestedBackends(reqs)
  PROVE  Serves(awsCollectorModuleConfig(reqs), s, b) <=> Carries(b, s)
<1>. DEFINE module   == awsCollectorModuleConfig(reqs)
            backends == awsRequestedBackends(reqs)
<1>1. Exporter(b) \in awsExportersForSignal(s, backends) <=> Carries(b, s)
  <2>. HIDE DEF backends
  <2>1. b \in backends
    BY DEF backends
  <2>2. QED
    BY <2>1 DEF Exporter, awsExportersForSignal, Carries, Signals, Backends
<1>2. s \in DOMAIN module.config.pipelines <=> awsExportersForSignal(s, backends) # {}
  BY Collector
<1>3. s \in DOMAIN module.config.pipelines =>
        module.config.pipelines[s] = awsExportersForSignal(s, backends)
  BY Collector
<1>. HIDE DEF module, backends
<1>4. Serves(module, s, b) <=> Carries(b, s)
  BY <1>1, <1>2, <1>3 DEF Serves
<1>5. QED
  BY <1>4 DEF module

LEMMA CollectorSatisfies ==
  ASSUME NEW reqs, NEW r \in reqs
  PROVE  Satisfies(awsCollectorModuleConfig(reqs), r, reqs)
BY SignalsAsked, BackendsAsked, CollectorServes DEF Satisfies

\* An exporter of a pipeline is that of a backend that takes its signal.
LEMMA CollectorStarts ==
  ASSUME NEW reqs, reqs # {}
  PROVE  Starts(awsCollectorModuleConfig(reqs)) <=> CanServe(reqs)
<1>. DEFINE module   == awsCollectorModuleConfig(reqs)
            backends == awsRequestedBackends(reqs)
<1>1. ASSUME Starts(module) PROVE CanServe(reqs)
  <2>1. PICK s \in Signals \cap awsRequestedSignals(reqs) : awsExportersForSignal(s, backends) # {}
    BY <1>1, Collector DEF Starts
  <2>2. \E b \in Backends \cap backends : Carries(b, s)
    <3>. HIDE DEF backends
    <3>1. PICK e \in {"otlp", "datadog", "prometheus", "loki", "otlp/grafana_otlp"} :
                 e \in awsExportersForSignal(s, backends)
      BY <2>1 DEF awsExportersForSignal
    <3>2. \/ "otel" \in backends \/ "datadog" \in backends \/ "grafana" \in backends
          \/ "prometheus" \in backends /\ s = "metrics"
          \/ "loki" \in backends /\ s = "logs"
      BY <3>1 DEF awsExportersForSignal
    <3>3. QED
      BY <3>2 DEF Carries, Backends
  <2>3. PICK b \in Backends \cap backends : Carries(b, s)
    BY <2>2
  <2>4. /\ \E p \in reqs : s \in AskedSignals(p, reqs)
        /\ \E q \in reqs : b \in AskedBackends(q, reqs)
    BY <2>1, <2>3, SignalsAsked, BackendsAsked
  <2>5. QED
    BY <2>3, <2>4 DEF CanServe
<1>2. ASSUME CanServe(reqs) PROVE Starts(module)
  <2>1. PICK p \in reqs, q \in reqs :
          \E s \in AskedSignals(p, reqs) \cap Signals, b \in AskedBackends(q, reqs) \cap Backends :
            Carries(b, s)
    BY <1>2 DEF CanServe
  <2>2. PICK s \in AskedSignals(p, reqs) \cap Signals, b \in AskedBackends(q, reqs) \cap Backends :
            Carries(b, s)
    BY <2>1
  <2>3. s \in awsRequestedSignals(reqs) /\ b \in backends
    BY SignalsAsked, BackendsAsked
  <2>4. Serves(module, s, b)
    BY <2>2, <2>3, CollectorServes
  <2>5. QED
    BY <2>4 DEF Serves, Starts
<1>3. QED
  BY <1>1, <1>2

\* Whatever an application requires: the derived collector is consistent, sends every
\* signal of an accepted requirement to every backend of it that takes the signal, and
\* has a pipeline unless no accepted signal goes with an accepted backend
\* (iacserver_mapper.go:118-287).
THEOREM MapperServes == Spec => []MapperCovers
<1>1. Init => MapperCovers
  BY DEF Init, MapperCovers
<1>2. ASSUME NEW t \in Threads, MapRequirements(t)
      PROVE  MapperCovers'
  <2>1. PICK accepted : \/ derived' = None
                        \/ derived' = [accepted |-> accepted,
                                       modules |-> IF accepted = {} THEN {}
                                                   ELSE {awsCollectorModuleConfig(accepted)}]
    BY <1>2, Zenon DEF MapRequirements
  <2>2. CASE derived' = None
    BY <2>2 DEF MapperCovers
  <2>3. CASE derived' = [accepted |-> accepted,
                         modules |-> IF accepted = {} THEN {}
                                     ELSE {awsCollectorModuleConfig(accepted)}]
    <3>1. derived'.accepted = accepted
          /\ derived'.modules = IF accepted = {} THEN {} ELSE {awsCollectorModuleConfig(accepted)}
      BY <2>3
    <3>2. QED
      BY <3>1, CollectorConsistent, CollectorSatisfies, CollectorStarts DEF MapperCovers
  <2>4. QED
    BY <2>1, <2>2, <2>3
<1>3. ASSUME UNCHANGED derived PROVE MapperCovers => MapperCovers'
  BY <1>3 DEF MapperCovers
<1>4. ASSUME [Next]_vars, ~\E t \in Threads : MapRequirements(t) PROVE UNCHANGED derived
  <2>1. ASSUME NEW t \in Threads, StateStep(t) PROVE UNCHANGED derived
    BY <2>1 DEF StateStep, Configure, resolveStore, resolveStoreToUnlock, PutLock, HeadLock,
       DeleteLock, StateRequest, Serve, Arrive, Goto, Return
  <2>2. ASSUME NEW t \in Threads, BuildAWSConfig(t) \/ AssumeRole(t) \/ StaticCredentials(t)
        PROVE  UNCHANGED derived
    <3>1. ASSUME NEW session, Built(t, session) PROVE UNCHANGED derived
      BY <3>1, Zenon DEF Built, Return, Goto
    <3>2. QED
      BY <2>2, <3>1 DEF BuildAWSConfig, AssumeRole, StaticCredentials, NotBuilt, Return, Goto
  <2>3. ASSUME NEW t \in Threads, ModuleStep(t) PROVE UNCHANGED derived
    BY <2>2, <2>3 DEF ModuleStep, Register, CreateStorage, CreateUpload, CreateDownload,
       CallStorage, Upload, Download, Start, Stop, getClient, SendObject, ReadAll, Serve, Arrive,
       Goto, Return
  <2>4. QED
    BY <1>4, <2>1, <2>3, Steps3 DEF vars
<1>5. MapperCovers /\ [Next]_vars => MapperCovers'
  BY <1>2, <1>3, <1>4
<1>6. QED
  BY <1>1, <1>5, PTL DEF Spec

-----------------------------------------------------------------------------
(***************************************************************************)
(* The state server's locks.                                               *)
(***************************************************************************)

\* A step of a module or step stays away from the state server.
LEMMA ModuleMoves ==
  ASSUME CInv, NEW t \in Threads, ModuleStep(t)
  PROVE  DOMAIN pc' = Threads /\ StepOf(t) /\ pc'[t] \notin StatePlaces /\ UNCHANGED backend
<1>1. ASSUME NEW session, Built(t, session)
      PROVE  StepOf(t) /\ pc'[t] \notin StatePlaces
  <2>1. Return(t) \/ \E c : call' = [call EXCEPT ![t].client = c] /\ Goto(t, "send")
    BY <1>1, Zenon DEF Built
  <2>2. QED
    BY <2>1, Returned DEF Goto, StepOf, CInv, StatePlaces
<1>2. CASE BuildAWSConfig(t) \/ AssumeRole(t) \/ StaticCredentials(t)
  BY <1>1, <1>2, Returned DEF BuildAWSConfig, AssumeRole, StaticCredentials, NotBuilt, Goto,
     StepOf, CInv, StatePlaces
<1>3. CASE Register(t) \/ CreateStorage(t) \/ CreateUpload(t) \/ CreateDownload(t)
  BY <1>3, Served DEF Register, CreateStorage, CreateUpload, CreateDownload, StatePlaces, StepOf
<1>4. ASSUME NEW p, NEW c, NEW q \in ModulePlaces, Arrive(t, p, c, q)
      PROVE  StepOf(t) /\ pc'[t] \notin StatePlaces
  BY <1>4, Arrived DEF ModulePlaces, StatePlaces
<1>5. ASSUME CallStorage(t) \/ Upload(t) \/ Download(t)
      PROVE  StepOf(t) /\ pc'[t] \notin StatePlaces
  <2>1. Serve(t, "modules") \/ \E c, q : q \in ModulePlaces /\ Arrive(t, "modules", c, q)
    BY <1>5, Zenon DEF CallStorage, Upload, Download, ModulePlaces
  <2>2. QED
    BY <1>4, <2>1, Served DEF StatePlaces
<1>6. ASSUME NEW q \in ModulePlaces, Goto(t, q)
      PROVE  DOMAIN pc' = Threads /\ pc'[t] \notin StatePlaces
             /\ \A u \in Threads \ {t} : pc'[u] = pc[u]
  BY <1>6 DEF Goto, CInv, ModulePlaces, StatePlaces
<1>7. ASSUME Start(t) \/ Stop(t) \/ getClient(t) \/ SendObject(t) \/ ReadAll(t)
      PROVE  StepOf(t) /\ pc'[t] \notin StatePlaces
  <2>1. Return(t) \/ \E q : /\ q \in ModulePlaces /\ Goto(t, q)
                            /\ \/ UNCHANGED call
                               \/ \E c : call' = [call EXCEPT ![t].client = c]
    BY <1>7, Zenon DEF Start, Stop, getClient, SendObject, ReadAll, ModulePlaces
  <2>2. QED
    BY <1>6, <2>1, Returned DEF StepOf, CInv, StatePlaces
<1>8. UNCHANGED backend
  BY DEF ModuleStep, Register, CreateStorage, CreateUpload, CreateDownload, CallStorage, Upload,
     Download, BuildAWSConfig, AssumeRole, StaticCredentials, Start, Stop, getClient, SendObject,
     ReadAll
<1>9. QED
  BY <1>2, <1>3, <1>5, <1>7, <1>8 DEF ModuleStep, StepOf

\* Every call and every lock is about a location; a host that unlocks has nothing.
Located ==
  /\ store \in Locations \cup {None} /\ moved \in BOOLEAN /\ (moved => store # None)
  /\ \A t \in Threads :
       /\ held[t] \in Locations \cup {None} /\ (held[t] # None => store # None)
       /\ pc[t] \in StatePlaces => call[t].location \in Locations /\ store # None
       /\ pc[t] \in {"head lock", "delete lock"} => held[t] = None

\* While no session saw its store move: it is about the store there is now, and the
\* lock object is that of whoever holds it or removes it.
Own(t) ==
  /\ held[t] # None => held[t] = store /\ locks[store] = t
  /\ pc[t] = "put lock" => call[t].location = store
  /\ pc[t] \in {"head lock", "delete lock"} => locks[call[t].location] = t

SInv ==
  /\ CInv
  /\ DOMAIN locks = Locations /\ DOMAIN held = Threads
  /\ Located
  /\ ~moved => \A t \in Threads : Own(t)

LEMMA InitSInv == Init => SInv
BY DEF Init, SInv, CInv, CallShape, Located, Own, ModulePlaces, StatePlaces

LEMMA SInvSurvives == SInv => SessionsSurviveConfigure
BY DEF SInv, Own, SessionsSurviveConfigure

\* The invariant after a step of t that leaves the state server alone, but for what
\* Configure does.
LEMMA QuietSInv ==
  ASSUME SInv, NEW t \in Threads, StepOf(t), CallShape(pc'[t], call'[t]),
         UNCHANGED << locks, held >>, store' \in Locations \cup {None},
         moved' \in BOOLEAN, moved' => store' # None, store # None => store' # None,
         ~moved' => ~moved /\ (store' = store \/ \A u \in Threads : ~InSession(u)),
         pc'[t] \in StatePlaces => call'[t].location \in Locations /\ store' # None,
         pc'[t] = "put lock" => call'[t].location = store',
         pc'[t] \in {"head lock", "delete lock"} =>
           pc[t] = "head lock" /\ call'[t] = call[t]
  PROVE  SInv'
<1>1. CInv'
  BY DEF SInv, CInv, StepOf
<1>2. Located'
  <2>1. ASSUME NEW u \in Threads
        PROVE  /\ held'[u] \in Locations \cup {None} /\ (held'[u] # None => store' # None)
               /\ pc'[u] \in StatePlaces => call'[u].location \in Locations /\ store' # None
               /\ pc'[u] \in {"head lock", "delete lock"} => held'[u] = None
    BY DEF SInv, Located, StepOf
  <2>2. QED
    BY <2>1 DEF SInv, Located
<1>3. ASSUME ~moved', NEW u \in Threads PROVE Own(u)'
  <2>1. Own(u) /\ (store' = store \/ ~InSession(u))
    BY <1>3 DEF SInv
  <2>2. held'[u] # None => held'[u] = store' /\ locks'[store'] = u
    BY <2>1 DEF Own, InSession
  <2>3. pc'[u] = "put lock" => call'[u].location = store'
    BY <2>1 DEF Own, InSession, StepOf
  <2>4. pc'[u] \in {"head lock", "delete lock"} => locks'[call'[u].location] = u
    BY <2>1 DEF Own, StepOf
  <2>5. QED
    BY <2>2, <2>3, <2>4 DEF Own
<1>4. QED
  BY <1>1, <1>2, <1>3 DEF SInv

\* Arrive, when the call is one of the state server.
LEMMA StateArrived ==
  ASSUME CInv, NEW t \in Threads, NEW op \in {"Lock", "Unlock", "State"}, NEW b, NEW q,
         Arrive(t, "state", [op |-> op, location |-> b], q)
  PROVE  pc[t] = "idle" /\ pc'[t] = q /\ call'[t].location = b
<1>. DEFINE c == [op |-> op, location |-> b]
<1>1. c.location = b
  OBVIOUS
<1>. HIDE DEF c
<1>2. Arrive(t, "state", c, q)
  BY DEF c
<1>3. QED
  BY <1>1, <1>2, Arrived

\* Whoever held the lock or removed it there would have its object.
LEMMA LockSInv ==
  ASSUME SInv, NEW t \in Threads, PutLock(t)
  PROVE  SInv'
<1>. DEFINE l == call[t].location
<1>1. /\ pc[t] = "put lock" /\ Return(t) /\ UNCHANGED << store, moved >>
      /\ \/ /\ locks[l] = None /\ locks' = [locks EXCEPT ![l] = t]
            /\ held' = [held EXCEPT ![t] = l] \/ held' = held
         \/ UNCHANGED << locks, held >>
  BY Zenon DEF PutLock
<1>2. StepOf(t) /\ CallShape(pc'[t], call'[t]) /\ pc'[t] = "idle"
  BY <1>1, Returned DEF SInv
<1>3. l \in Locations /\ l # None /\ t # None
  BY <1>1, ProcessAssumption DEF SInv, Located, StatePlaces, ProcessAssumption
<1>4. CASE UNCHANGED << locks, held >>
  BY <1>1, <1>2, <1>4, QuietSInv DEF SInv, Located, StatePlaces
<1>5. CASE /\ locks[l] = None /\ locks' = [locks EXCEPT ![l] = t]
           /\ held' = [held EXCEPT ![t] = l] \/ held' = held
  <2>1. CInv'
    BY <1>2 DEF SInv, CInv, StepOf
  <2>2. DOMAIN locks' = Locations /\ DOMAIN held' = Threads
    BY <1>5 DEF SInv
  <2>3. Located'
    BY <1>1, <1>2, <1>3, <1>5 DEF SInv, Located, StepOf, StatePlaces
  <2>4. ASSUME ~moved', NEW u \in Threads PROVE Own(u)'
    <3>1. Own(u) /\ l = store
      BY <1>1, <2>4 DEF SInv, Own
    <3>2. locks'[l] = t /\ \A k \in Locations \ {l} : locks'[k] = locks[k]
      BY <1>3, <1>5 DEF SInv
    <3>3. CASE u = t
      <4>1. held[t] = None
        BY <1>3, <1>5, <3>1, <3>3, ProcessAssumption DEF Own, ProcessAssumption
      <4>2. held'[t] \in {None, l}
        BY <1>5, <4>1 DEF SInv
      <4>3. QED
        BY <1>1, <1>2, <3>1, <3>2, <3>3, <4>2 DEF Own
    <3>4. CASE u # t
      <4>1. u # None
        BY ProcessAssumption DEF ProcessAssumption
      <4>2. held[u] = None
        BY <1>5, <3>1, <4>1 DEF Own
      <4>3. held'[u] = None
        BY <1>5, <3>4, <4>2 DEF SInv
      <4>4. pc[u] \in {"head lock", "delete lock"} =>
              call[u].location # l /\ call[u].location \in Locations
        BY <1>5, <3>1, <4>1 DEF Own, SInv, Located, StatePlaces
      <4>5. pc'[u] = pc[u] /\ call'[u] = call[u] /\ store' = store
        BY <1>1, <1>2, <3>4 DEF StepOf
      <4>6. pc[u] \in {"head lock", "delete lock"} => locks'[call[u].location] = u
        BY <3>1, <3>2, <4>4 DEF Own
      <4>7. QED
        BY <3>1, <4>3, <4>5, <4>6 DEF Own
    <3>5. QED
      BY <3>3, <3>4
  <2>5. QED
    BY <2>1, <2>2, <2>3, <2>4 DEF SInv
<1>6. QED
  BY <1>1, <1>4, <1>5

LEMMA UnlockSInv ==
  ASSUME SInv, NEW t \in Threads, DeleteLock(t)
  PROVE  SInv'
<1>. DEFINE l == call[t].location
<1>1. /\ pc[t] = "delete lock" /\ Return(t) /\ UNCHANGED << store, held, moved >>
      /\ locks' = locks \/ locks' = [locks EXCEPT ![l] = None]
  BY Zenon DEF DeleteLock
<1>2. StepOf(t) /\ CallShape(pc'[t], call'[t]) /\ pc'[t] = "idle"
  BY <1>1, Returned DEF SInv
<1>3. l \in Locations /\ held[t] = None
  BY <1>1 DEF SInv, Located, StatePlaces
<1>4. CInv'
  BY <1>2 DEF SInv, CInv, StepOf
<1>5. DOMAIN locks' = Locations /\ DOMAIN held' = Threads
  BY <1>1 DEF SInv
<1>6. Located'
  BY <1>1, <1>2 DEF SInv, Located, StepOf, StatePlaces
<1>7. ASSUME ~moved', NEW u \in Threads PROVE Own(u)'
  <2>1. Own(u) /\ Own(t)
    BY <1>1, <1>7 DEF SInv
  <2>2. locks[l] = t
    BY <1>1, <2>1 DEF Own
  <2>3. \A k \in Locations \ {l} : locks'[k] = locks[k]
    BY <1>1 DEF SInv
  <2>4. CASE u = t
    BY <1>1, <1>2, <1>3, <2>4 DEF Own
  <2>5. CASE u # t
    <3>1. held[u] # None => store # l /\ store \in Locations
      BY <2>1, <2>2, <2>5, ProcessAssumption DEF Own, SInv, Located, ProcessAssumption
    <3>2. pc[u] \in {"head lock", "delete lock"} =>
            call[u].location # l /\ call[u].location \in Locations
      BY <2>1, <2>2, <2>5 DEF Own, SInv, Located, StatePlaces
    <3>3. pc'[u] = pc[u] /\ call'[u] = call[u] /\ store' = store /\ held' = held
      BY <1>1, <1>2, <2>5 DEF StepOf
    <3>4. pc[u] \in {"head lock", "delete lock"} => locks'[call[u].location] = u
      BY <2>1, <2>3, <3>2 DEF Own
    <3>5. held[u] # None => held[u] = store /\ locks'[store] = u
      BY <2>1, <2>3, <3>1 DEF Own
    <3>6. QED
      BY <2>1, <3>3, <3>4, <3>5 DEF Own
  <2>6. QED
    BY <2>4, <2>5
<1>8. QED
  BY <1>4, <1>5, <1>6, <1>7 DEF SInv

\* The call goes to the store that is configured now.  If it did not move, that is
\* where the lock is.
LEMMA BeginUnlockSInv ==
  ASSUME SInv, NEW t \in Threads, resolveStoreToUnlock(t)
  PROVE  SInv'
<1>1. /\ held[t] # None /\ held' = [held EXCEPT ![t] = None]
      /\ Arrive(t, "state", [op |-> "Unlock", location |-> store], "head lock")
      /\ UNCHANGED << store, locks, moved >>
  BY DEF resolveStoreToUnlock
<1>2. pc[t] = "idle" /\ pc'[t] = "head lock" /\ call'[t].location = store
  BY <1>1, StateArrived DEF SInv
<1>3. StepOf(t) /\ CallShape(pc'[t], call'[t])
  BY StateMoves DEF StateStep, SInv
<1>4. store \in Locations
  BY <1>1 DEF SInv, Located
<1>5. CInv'
  BY <1>3 DEF SInv, CInv, StepOf
<1>6. DOMAIN locks' = Locations /\ DOMAIN held' = Threads
  BY <1>1 DEF SInv
<1>7. Located'
  BY <1>1, <1>2, <1>3, <1>4 DEF SInv, Located, StepOf
<1>8. ASSUME ~moved', NEW u \in Threads PROVE Own(u)'
  <2>1. Own(u) /\ Own(t)
    BY <1>1, <1>8 DEF SInv
  <2>2. CASE u = t
    BY <1>1, <1>2, <2>1, <2>2 DEF Own, SInv
  <2>3. CASE u # t
    BY <1>1, <1>3, <2>1, <2>3 DEF Own, StepOf, SInv
  <2>4. QED
    BY <2>2, <2>3
<1>9. QED
  BY <1>5, <1>6, <1>7, <1>8 DEF SInv

\* A store moves within no session, or moved says so.
LEMMA ConfigureSInv ==
  ASSUME SInv, NEW t \in Threads, Configure(t)
  PROVE  SInv'
<1>1. StepOf(t) /\ CallShape(pc'[t], call'[t])
  BY StateMoves DEF StateStep, SInv
<1>2. UNCHANGED << locks, held >> /\ Serve(t, "state")
  BY DEF Configure
<1>3. pc'[t] = pc[t] /\ pc[t] = "idle"
  BY <1>2 DEF Serve, Spend
<1>4. CASE UNCHANGED << store, moved >>
  BY <1>1, <1>2, <1>3, <1>4, QuietSInv DEF SInv, Located, StatePlaces
<1>5. ASSUME NEW l \in Locations, setStateStore(l) PROVE SInv'
  <2>1. l # None
    BY ProcessAssumption DEF ProcessAssumption
  <2>2. store' = l /\ moved' \in BOOLEAN
    BY <1>5 DEF setStateStore
  <2>3. ~moved' => ~moved /\ (store' = store \/ \A u \in Threads : ~InSession(u))
    <3>1. CASE store \in {None, l}
      <4>1. ASSUME store = None, ~moved, NEW u \in Threads PROVE ~InSession(u)
        BY <4>1, ProcessAssumption
           DEF InSession, SInv, Own, Located, StatePlaces, ProcessAssumption
      <4>2. QED
        BY <1>5, <2>2, <3>1, <4>1 DEF setStateStore
    <3>2. CASE store \notin {None, l}
      BY <1>5, <3>2 DEF setStateStore
    <3>3. QED
      BY <3>1, <3>2
  <2>4. QED
    BY <1>1, <1>2, <1>3, <2>1, <2>2, <2>3, QuietSInv DEF StatePlaces
<1>6. QED
  BY <1>4, <1>5 DEF Configure

LEMMA StateSInv ==
  ASSUME SInv, NEW t \in Threads, StateStep(t)
  PROVE  SInv'
<1>1. StepOf(t) /\ CallShape(pc'[t], call'[t])
  BY StateMoves DEF SInv
<1>2. CASE resolveStore(t)
  <2>1. UNCHANGED << store, locks, held, moved >>
    BY <1>2 DEF resolveStore, backend
  <2>2. \/ Serve(t, "state")
        \/ store # None /\ \E op \in {"Lock", "State"} :
             Arrive(t, "state", [op |-> op, location |-> store], FirstOf[op])
    BY <1>2 DEF resolveStore
  <2>3. FirstOf["Lock"] = "put lock" /\ FirstOf["State"] = "request"
    BY DEF FirstOf
  <2>4. /\ pc'[t] \in StatePlaces =>
             call'[t].location = store /\ store \in Locations /\ store # None
        /\ pc'[t] \notin {"head lock", "delete lock"}
    <3>1. CASE Serve(t, "state")
      BY <3>1, Served DEF SInv, StatePlaces
    <3>2. ASSUME store # None, NEW op \in {"Lock", "State"},
                 Arrive(t, "state", [op |-> op, location |-> store], FirstOf[op])
          PROVE  /\ call'[t].location = store /\ store \in Locations /\ store # None
                 /\ pc'[t] \notin {"head lock", "delete lock"}
      <4>1. pc'[t] = FirstOf[op] /\ call'[t].location = store
        BY <3>2, StateArrived DEF SInv
      <4>2. QED
        BY <2>3, <3>2, <4>1 DEF SInv, Located
    <3>3. QED
      BY <2>2, <3>1, <3>2
  <2>5. QED
    BY <1>1, <2>1, <2>4, QuietSInv DEF SInv, Located, StatePlaces
<1>3. CASE HeadLock(t) \/ StateRequest(t)
  <2>1. /\ UNCHANGED << store, locks, held, moved >>
        /\ \/ Return(t)
           \/ pc[t] = "head lock" /\ Goto(t, "delete lock") /\ UNCHANGED call
    BY <1>3, Zenon DEF HeadLock, StateRequest, backend
  <2>2. \/ pc'[t] = "idle"
        \/ pc[t] = "head lock" /\ pc'[t] = "delete lock" /\ call'[t] = call[t]
    BY <2>1, Returned, GoneOn DEF SInv
  <2>3. pc'[t] \in StatePlaces => call'[t].location \in Locations /\ store # None
    BY <2>2 DEF SInv, Located, StatePlaces
  <2>4. QED
    BY <1>1, <2>1, <2>2, <2>3, QuietSInv DEF SInv, Located
<1>4. QED
  BY <1>2, <1>3, LockSInv, UnlockSInv, BeginUnlockSInv, ConfigureSInv DEF StateStep

LEMMA StepSInv == IInv /\ IInv' /\ SInv /\ [Next]_vars => SInv'
<1>. SUFFICES ASSUME IInv, IInv', SInv, [Next]_vars PROVE SInv'
  OBVIOUS
<1>1. CASE UNCHANGED << backend, pc, call >>
  BY <1>1 DEF backend, SInv, CInv, Located, Own
<1>2. ASSUME NEW t \in Threads, ModuleStep(t) PROVE SInv'
  <2>1. DOMAIN pc' = Threads /\ StepOf(t) /\ pc'[t] \notin StatePlaces /\ UNCHANGED backend
    BY <1>2, ModuleMoves DEF SInv
  <2>2. CallShape(pc'[t], call'[t])
    BY DEF IInv, CInv
  <2>3. QED
    BY <2>1, <2>2, QuietSInv DEF backend, SInv, Located, StatePlaces
<1>3. ASSUME NEW t \in Threads, MapRequirements(t) PROVE UNCHANGED << backend, pc, call >>
  BY <1>3 DEF MapRequirements
<1>4. CASE UNCHANGED vars
  BY <1>1, <1>4 DEF vars
<1>5. QED
  BY <1>1, <1>2, <1>3, <1>4, StateSInv, Steps3

LEMMA LockInvariant == Spec => []SInv
<1>1. IInv /\ SInv /\ [Next]_vars => IInv' /\ SInv'
  BY StepIInv, StepSInv
<1>2. QED
  BY InitIInv, InitSInv, <1>1, PTL DEF Spec

\* As long as Configure moves the store only between sessions, whoever got the lock has
\* it until it unlocks, where its Unlock looks for it, however often Configure replaces
\* the store and whatever requests fail (statebackend_server.go:39-73, 82-105).
THEOREM LocksSurvive == Spec => []SessionsSurviveConfigure
BY LockInvariant, SInvSurvives, PTL

-----------------------------------------------------------------------------
(***************************************************************************)
(* Assumed roles: what a step sends with was issued during its Execute,    *)
(* and a storage module has no session from before it was stopped. The     *)
(* mutex of the module is what makes the second true, since Start waits    *)
(* for STS.                                                                *)
(***************************************************************************)

\* t builds the client of the storage module i.
Builds(t, i) ==
  pc[t] \in {"build", "assume", "answer"} /\ call[t].op = "Start" /\ call[t].storage = i

FreshStorage(i) ==
  /\ stopped[i] \in Nat /\ stopped[i] <= sessions
  /\ storage[i].client # None /\ storage[i].client.kind = "role" =>
       storage[i].client.session > stopped[i]

FreshCall(t) ==
  /\ pc[t] \in ModulePlaces => call[t].since \in Nat /\ call[t].since <= sessions
  /\ pc[t] = "answer" =>
       /\ call[t].session > call[t].since
       /\ call[t].op = "Start" => call[t].session > stopped[call[t].storage]
  /\ pc[t] \in {"send", "read"} /\ call[t].op # "Object" /\ call[t].client.kind = "role" =>
       call[t].client.session > call[t].since

FInv ==
  /\ CInv
  /\ sessions \in Nat
  /\ DOMAIN storage = Storages /\ DOMAIN mutex = Storages /\ DOMAIN stopped = Storages
  /\ \A i \in Storages : FreshStorage(i)
  /\ \A t \in Threads : FreshCall(t)
  /\ \A i \in Storages, t \in Threads : mutex[i] = t <=> Builds(t, i)

LEMMA InitFInv == Init => FInv
<1>. SUFFICES ASSUME Init PROVE FInv
  OBVIOUS
<1>1. CInv
  BY InitIInv DEF IInv
<1>2. \A i \in Storages : FreshStorage(i)
  <2>1. NotCreated.client = None
    BY DEF NotCreated
  <2>2. QED
    BY <2>1 DEF Init, FreshStorage
<1>3. \A t \in Threads : FreshCall(t)
  BY DEF Init, FreshCall, ModulePlaces
<1>4. \A i \in Storages, t \in Threads : mutex[i] # t /\ ~Builds(t, i)
  BY ProcessAssumption DEF Init, Builds, ProcessAssumption
<1>5. QED
  BY <1>1, <1>2, <1>3, <1>4 DEF Init, FInv

LEMMA FInvFresh == FInv => FreshSessions
BY DEF FInv, FreshStorage, FreshCall, FreshSessions

\* Sessions are only issued, and what t does to a mutex or to the time of the last stop
\* is not about a module whose client another handler builds.
LEMMA FreshStep ==
  ASSUME FInv, NEW t \in Threads, StepOf(t), CallShape(pc'[t], call'[t]),
         sessions' \in Nat, sessions <= sessions',
         DOMAIN storage' = Storages, DOMAIN mutex' = Storages, DOMAIN stopped' = Storages,
         \A i \in Storages : FreshStorage(i)', FreshCall(t)',
         \A i \in Storages : mutex'[i] = t <=> Builds(t, i)',
         \A i \in Storages, u \in Threads \ {t} :
           /\ mutex'[i] = u <=> mutex[i] = u
           /\ mutex[i] = u => stopped'[i] = stopped[i]
  PROVE  FInv'
<1>1. CInv'
  BY DEF FInv, CInv, StepOf
<1>2. ASSUME NEW u \in Threads, u # t PROVE FreshCall(u)'
  <2>1. pc'[u] = pc[u] /\ call'[u] = call[u]
    BY <1>2 DEF StepOf
  <2>2. FreshCall(u) /\ sessions \in Nat
    BY DEF FInv
  <2>3. pc[u] = "answer" /\ call[u].op = "Start" =>
          stopped'[call[u].storage] = stopped[call[u].storage]
    <3>. SUFFICES ASSUME pc[u] = "answer", call[u].op = "Start"
                  PROVE  stopped'[call[u].storage] = stopped[call[u].storage]
      OBVIOUS
    <3>1. call[u].storage \in Storages
      BY DEF FInv, CInv, CallShape, ModuleCall, ModulePlaces, StorageOps
    <3>2. mutex[call[u].storage] = u
      BY <3>1 DEF FInv, Builds
    <3>3. QED
      BY <1>2, <3>1, <3>2
  <2>4. QED
    BY <2>1, <2>2, <2>3 DEF FreshCall, ModulePlaces
<1>3. ASSUME NEW i \in Storages, NEW u \in Threads, u # t
      PROVE  mutex'[i] = u <=> Builds(u, i)'
  BY <1>3 DEF FInv, Builds, StepOf
<1>4. QED
  BY <1>1, <1>2, <1>3 DEF FInv

\* A step that leaves mutexes and STS alone, of a handler that builds no client.
LEMMA QuietFInv ==
  ASSUME FInv, NEW t \in Threads, StepOf(t), CallShape(pc'[t], call'[t]),
         UNCHANGED << sessions, mutex, stopped >>, DOMAIN storage' = Storages,
         \A i \in Storages : storage'[i] = storage[i] \/ storage'[i].client = None,
         \A i \in Storages : ~Builds(t, i) /\ ~Builds(t, i)',
         FreshCall(t)'
  PROVE  FInv'
<1>1. \A i \in Storages : FreshStorage(i)'
  BY DEF FInv, FreshStorage
<1>2. \A i \in Storages : mutex'[i] # t
  BY DEF FInv
<1>3. QED
  BY <1>1, <1>2, FreshStep DEF FInv

-----------------------------------------------------------------------------
\* Everything but the resolution of credentials, and Start and Stop.
LEMMA ArriveFInv ==
  ASSUME FInv, NEW t \in Threads, CallShape(pc'[t], call'[t]),
         CallStorage(t) \/ Upload(t) \/ Download(t)
  PROVE  FInv'
<1>1. UNCHANGED << sessions, storage, mutex, stopped >>
  BY DEF CallStorage, Upload, Download, modules, backend
<1>2. CASE \E p : Serve(t, p)
  <2>1. StepOf(t) /\ pc[t] = "idle" /\ pc'[t] = "idle"
    BY <1>2, Served DEF FInv, Serve, Spend
  <2>2. FreshCall(t)' /\ \A i \in Storages : ~Builds(t, i) /\ ~Builds(t, i)'
    BY <2>1 DEF FreshCall, Builds, ModulePlaces
  <2>3. QED
    BY <1>1, <2>1, <2>2, QuietFInv DEF FInv
<1>3. ASSUME NEW op, NEW i, NEW config, NEW cred, NEW n \in Nat, NEW q \in {"lock", "build"},
             n <= sessions, q = "build" => op # "Start",
             Arrive(t, "modules", [op |-> op, storage |-> i, config |-> config, cred |-> cred,
                                   client |-> None, session |-> 0, since |-> n], q)
      PROVE  FInv'
  <2>. DEFINE c == [op |-> op, storage |-> i, config |-> config, cred |-> cred,
                    client |-> None, session |-> 0, since |-> n]
  <2>1. c.op = op /\ c.since = n
    OBVIOUS
  <2>2. Arrive(t, "modules", c, q)
    BY <1>3
  <2>. HIDE DEF c
  <2>3. StepOf(t) /\ pc[t] = "idle" /\ pc'[t] = q /\ call'[t] = c
    BY <2>2, Arrived DEF FInv
  <2>4. FreshCall(t)' /\ \A j \in Storages : ~Builds(t, j) /\ ~Builds(t, j)'
    BY <1>1, <1>3, <2>1, <2>3 DEF FreshCall, Builds
  <2>5. QED
    BY <1>1, <2>3, <2>4, QuietFInv DEF FInv
<1>4. sessions \in Nat /\ 0 <= sessions
  BY DEF FInv
<1>5. CASE CallStorage(t)
  <2>1. PICK i \in Storages, op \in StorageOps :
          Arrive(t, "modules", [op |-> op, storage |-> i, config |-> storage[i].config,
                                cred |-> storage[i].cred, client |-> None,
                                session |-> 0, since |-> 0], "lock")
    BY <1>5, Zenon DEF CallStorage, StorageOps
  <2>2. QED
    BY <1>3, <1>4, <2>1
<1>6. CASE Upload(t)
  <2>1. PICK s \in Steps :
          \/ Serve(t, "modules")
          \/ Arrive(t, "modules", [op |-> "Upload", storage |-> None, config |-> upload[s].config,
                                   cred |-> upload[s].cred, client |-> None,
                                   session |-> 0, since |-> sessions], "build")
    BY <1>6, Zenon DEF Upload
  <2>2. QED
    BY <1>2, <1>3, <1>4, <2>1
<1>7. CASE Download(t)
  <2>1. PICK s \in Steps :
          \/ Serve(t, "modules")
          \/ Arrive(t, "modules", [op |-> "Download", storage |-> None, config |-> download[s],
                                   cred |-> resolveAWSCredentials(download[s]), client |-> None,
                                   session |-> 0, since |-> sessions], "build")
    BY <1>7, Zenon DEF Download
  <2>2. QED
    BY <1>2, <1>3, <1>4, <2>1
<1>8. QED
  BY <1>5, <1>6, <1>7

LEMMA CreateFInv ==
  ASSUME FInv, NEW t \in Threads,
         Register(t) \/ CreateStorage(t) \/ CreateUpload(t) \/ CreateDownload(t)
  PROVE  FInv'
<1>1. Serve(t, "modules") /\ UNCHANGED << sessions, mutex, stopped >>
  BY DEF Register, CreateStorage, CreateUpload, CreateDownload
<1>2. StepOf(t) /\ CallShape(pc'[t], call'[t]) /\ pc[t] = "idle" /\ pc'[t] = "idle"
  BY <1>1, Served DEF FInv, Serve, Spend
<1>3. FreshCall(t)' /\ \A i \in Storages : ~Builds(t, i) /\ ~Builds(t, i)'
  BY <1>2 DEF FreshCall, Builds, ModulePlaces
<1>4. DOMAIN storage' = Storages
      /\ \A i \in Storages : storage'[i] = storage[i] \/ storage'[i].client = None
  <2>1. CASE UNCHANGED storage
    BY <2>1 DEF FInv
  <2>2. CASE CreateStorage(t)
    <3>1. PICK i \in Storages, config \in Configs :
            \/ UNCHANGED storage
            \/ storage' = [storage EXCEPT ![i] =
                 [config |-> config, cred |-> resolveAWSCredentials(config), client |-> None]]
      BY <2>2 DEF CreateStorage
    <3>2. QED
      BY <3>1 DEF FInv
  <2>3. QED
    BY <2>1, <2>2 DEF Register, CreateUpload, CreateDownload
<1>5. QED
  BY <1>1, <1>2, <1>3, <1>4, QuietFInv

LEMMA ObjectFInv ==
  ASSUME FInv, NEW t \in Threads, CallShape(pc'[t], call'[t]),
         getClient(t) \/ SendObject(t) \/ ReadAll(t)
  PROVE  FInv'
<1>1. UNCHANGED << sessions, storage, mutex, stopped >>
  BY DEF getClient, SendObject, ReadAll, modules
<1>2. pc[t] \in {"lock", "send", "read"}
  BY DEF getClient, SendObject, ReadAll
<1>3. ~\E i \in Storages : Builds(t, i)
  BY <1>2 DEF Builds
<1>4. CASE Return(t)
  <2>1. StepOf(t) /\ pc'[t] = "idle"
    BY <1>4, Returned DEF FInv
  <2>2. FreshCall(t)' /\ \A i \in Storages : ~Builds(t, i)'
    BY <2>1 DEF FreshCall, Builds, ModulePlaces
  <2>3. QED
    BY <1>1, <1>3, <2>1, <2>2, QuietFInv DEF FInv
<1>5. CASE SendObject(t) /\ Goto(t, "read") /\ UNCHANGED call
  <2>1. StepOf(t) /\ pc[t] = "send" /\ pc'[t] = "read" /\ call'[t] = call[t]
    BY <1>5, GoneOn DEF FInv, SendObject
  <2>2. FreshCall(t)' /\ \A i \in Storages : ~Builds(t, i)'
    BY <1>1, <2>1 DEF FInv, FreshCall, Builds, ModulePlaces
  <2>3. QED
    BY <1>1, <1>3, <2>1, <2>2, QuietFInv DEF FInv
<1>6. CASE /\ getClient(t) /\ Goto(t, "send")
           /\ call' = [call EXCEPT ![t].client = storage[call[t].storage].client]
  <2>1. pc[t] = "lock" /\ call[t].op = "Object" /\ FreshCall(t)
    BY <1>6 DEF getClient, FInv
  <2>2. StepOf(t) /\ pc'[t] = "send" /\ SameCall(call[t], call'[t])
    <3>1. CInv /\ pc[t] \in ModulePlaces
      BY <2>1 DEF FInv, ModulePlaces
    <3>2. QED
      BY <1>6, <3>1, GivenClient, Zenon
  <2>3. FreshCall(t)' /\ \A i \in Storages : ~Builds(t, i)'
    BY <1>1, <2>1, <2>2 DEF FreshCall, Builds, SameCall, ModulePlaces
  <2>4. QED
    BY <1>1, <1>3, <2>2, <2>3, QuietFInv DEF FInv
<1>7. QED
  BY <1>4, <1>5, <1>6 DEF getClient, SendObject, ReadAll

-----------------------------------------------------------------------------
\* The mutex is held while credentials are resolved for Start.
LEMMA StartFInv ==
  ASSUME FInv, NEW t \in Threads, CallShape(pc'[t], call'[t]), Start(t)
  PROVE  FInv'
<1>. DEFINE i == call[t].storage
<1>1. pc[t] = "lock" /\ call[t].op = "Start" /\ mutex[i] = None /\ i \in Storages
  BY DEF Start, FInv, CInv, CallShape, ModuleCall, ModulePlaces, StorageOps
<1>2. UNCHANGED << sessions, storage, stopped >>
  BY DEF Start
<1>3. \A j \in Storages : ~Builds(t, j)
  BY <1>1 DEF Builds
<1>4. CASE Return(t) /\ UNCHANGED mutex
  <2>1. StepOf(t) /\ pc'[t] = "idle"
    BY <1>4, Returned DEF FInv
  <2>2. FreshCall(t)' /\ \A j \in Storages : ~Builds(t, j)'
    BY <2>1 DEF FreshCall, Builds, ModulePlaces
  <2>3. QED
    BY <1>2, <1>3, <1>4, <2>1, <2>2, QuietFInv DEF FInv
<1>5. CASE mutex' = [mutex EXCEPT ![i] = t] /\ Goto(t, "build") /\ UNCHANGED call
  <2>1. StepOf(t) /\ pc'[t] = "build" /\ call'[t] = call[t]
    BY <1>5, GoneOn DEF FInv
  <2>2. FreshCall(t)'
    BY <1>1, <1>2, <2>1 DEF FInv, FreshCall, ModulePlaces
  <2>3. DOMAIN mutex' = Storages /\ mutex'[i] = t /\ \A j \in Storages \ {i} : mutex'[j] = mutex[j]
    BY <1>1, <1>5 DEF FInv
  <2>4. \A j \in Storages : mutex'[j] = t <=> Builds(t, j)'
    BY <1>1, <1>3, <2>1, <2>3 DEF FInv, Builds
  <2>5. \A u \in Threads : mutex[i] # u
    BY <1>1, ProcessAssumption DEF ProcessAssumption
  <2>6. \A j \in Storages : FreshStorage(j)'
    BY <1>2 DEF FInv, FreshStorage
  <2>7. \A j \in Storages, u \in Threads \ {t} :
          /\ mutex'[j] = u <=> mutex[j] = u
          /\ mutex[j] = u => stopped'[j] = stopped[j]
    BY <1>2, <2>3, <2>5
  <2>8. QED
    BY <1>2, <2>1, <2>2, <2>3, <2>4, <2>6, <2>7, FreshStep DEF FInv
<1>6. QED
  BY <1>4, <1>5 DEF Start

\* Stop waits for the mutex, so that no session is on its way.
LEMMA StopFInv ==
  ASSUME FInv, NEW t \in Threads, Stop(t)
  PROVE  FInv'
<1>. DEFINE i == call[t].storage
<1>1. /\ pc[t] = "lock" /\ mutex[i] = None /\ i \in Storages
      /\ SetClient(i, None) /\ stopped' = [stopped EXCEPT ![i] = sessions]
      /\ UNCHANGED << sessions, mutex >>
  BY DEF Stop, FInv, CInv, CallShape, ModuleCall, ModulePlaces, StorageOps
<1>2. StepOf(t) /\ CallShape(pc'[t], call'[t]) /\ pc'[t] = "idle"
  BY Returned DEF Stop, FInv
<1>3. FreshCall(t)' /\ \A j \in Storages : ~Builds(t, j) /\ ~Builds(t, j)'
  BY <1>1, <1>2 DEF FreshCall, Builds, ModulePlaces
<1>4. DOMAIN stopped' = Storages /\ stopped'[i] = sessions
      /\ \A j \in Storages \ {i} : stopped'[j] = stopped[j]
  BY <1>1 DEF FInv
<1>5. /\ DOMAIN storage' = Storages /\ storage'[i].client = None
      /\ \A j \in Storages \ {i} : storage'[j] = storage[j]
  BY <1>1 DEF FInv, SetClient
<1>6. \A j \in Storages : FreshStorage(j)'
  BY <1>1, <1>4, <1>5 DEF FInv, FreshStorage
<1>7. \A u \in Threads : mutex[i] # u
  BY <1>1, ProcessAssumption DEF ProcessAssumption
<1>8. \A j \in Storages : mutex'[j] # t
  BY <1>1, <1>3 DEF FInv
<1>9. \A j \in Storages, u \in Threads \ {t} :
        /\ mutex'[j] = u <=> mutex[j] = u
        /\ mutex[j] = u => stopped'[j] = stopped[j]
  BY <1>1, <1>4, <1>7
<1>10. QED
  BY <1>1, <1>2, <1>3, <1>4, <1>5, <1>6, <1>8, <1>9, FreshStep DEF FInv

\* A call that stops building, after which the mutex is free; i is its module.
LEMMA EndsFInv ==
  ASSUME FInv, NEW t \in Threads, pc[t] \in {"build", "assume", "answer"},
         StepOf(t), CallShape(pc'[t], call'[t]), pc'[t] \notin {"build", "assume", "answer"},
         mutex' = IF call[t].op = "Start" THEN [mutex EXCEPT ![call[t].storage] = None] ELSE mutex,
         sessions' \in Nat, sessions <= sessions', UNCHANGED stopped,
         DOMAIN storage' = Storages, \A i \in Storages : FreshStorage(i)', FreshCall(t)'
  PROVE  FInv'
<1>1. t # None
  BY ProcessAssumption DEF ProcessAssumption
<1>2. \A i \in Storages : ~Builds(t, i)'
  BY DEF Builds
<1>3. CASE call[t].op = "Start"
  <2>. DEFINE i == call[t].storage
  <2>1. i \in Storages /\ mutex[i] = t
    BY <1>3 DEF FInv, CInv, CallShape, ModuleCall, ModulePlaces, StorageOps, Builds
  <2>2. DOMAIN mutex' = Storages /\ mutex'[i] = None /\ \A j \in Storages \ {i} : mutex'[j] = mutex[j]
    BY <1>3, <2>1 DEF FInv
  <2>3. \A j \in Storages \ {i} : mutex[j] # t
    BY DEF FInv, Builds
  <2>4. \A j \in Storages : mutex'[j] # t
    BY <1>1, <2>2, <2>3
  <2>5. \A j \in Storages, u \in Threads \ {t} :
          /\ mutex'[j] = u <=> mutex[j] = u
          /\ mutex[j] = u => stopped'[j] = stopped[j]
    BY <2>1, <2>2, ProcessAssumption DEF ProcessAssumption
  <2>6. QED
    BY <1>2, <2>2, <2>4, <2>5, FreshStep DEF FInv
<1>4. CASE call[t].op # "Start"
  <2>1. UNCHANGED mutex
    BY <1>4
  <2>2. \A j \in Storages : mutex'[j] # t
    BY <1>4, <2>1 DEF FInv, Builds
  <2>3. QED
    BY <1>2, <2>1, <2>2, FreshStep DEF FInv
<1>5. QED
  BY <1>3, <1>4

\* The call fails.
LEMMA NotBuiltFInv ==
  ASSUME FInv, NEW t \in Threads, pc[t] \in {"build", "assume", "answer"}, NotBuilt(t),
         sessions' \in {sessions, sessions + 1}, UNCHANGED stopped
  PROVE  FInv'
<1>1. StepOf(t) /\ CallShape(pc'[t], call'[t]) /\ pc'[t] = "idle" /\ UNCHANGED storage
  BY Returned DEF NotBuilt, FInv
<1>2. sessions \in Nat /\ sessions' \in Nat /\ sessions <= sessions'
  BY DEF FInv
<1>3. \A i \in Storages : FreshStorage(i)'
  BY <1>1, <1>2 DEF FInv, FreshStorage
<1>4. FreshCall(t)'
  BY <1>1 DEF FreshCall, ModulePlaces
<1>5. mutex' = IF call[t].op = "Start" THEN [mutex EXCEPT ![call[t].storage] = None] ELSE mutex
  BY DEF NotBuilt
<1>6. QED
  BY <1>1, <1>2, <1>3, <1>4, <1>5, EndsFInv DEF FInv

\* A client is built.  If it is one of a role, its session is new.
LEMMA BuiltFInv ==
  ASSUME FInv, NEW t \in Threads, pc[t] \in {"build", "answer"}, CallShape(pc'[t], call'[t]),
         NEW session, Built(t, session), UNCHANGED << sessions, stopped >>,
         call[t].cred.source = "role_arn" =>
           /\ session > call[t].since
           /\ call[t].op = "Start" => session > stopped[call[t].storage]
  PROVE  FInv'
<1>. DEFINE client == Client(call[t].cred, session)
<1>1. client.session = session /\ (client.kind = "role" => call[t].cred.source = "role_arn")
  BY DEF Client, Kind
<1>2. ModuleCall(pc[t], call[t]) /\ FreshCall(t) /\ sessions \in Nat
  BY DEF FInv, CInv, CallShape, ModulePlaces
<1>3. CASE call[t].op = "Start"
  <2>. DEFINE i == call[t].storage
  <2>1. /\ SetClient(i, client) /\ Return(t) /\ i \in Storages
        /\ mutex' = [mutex EXCEPT ![i] = None]
    BY <1>2, <1>3 DEF Built, ModuleCall, StorageOps
  <2>. HIDE DEF client
  <2>2. StepOf(t) /\ pc'[t] = "idle"
    BY <2>1, Returned DEF FInv
  <2>3. /\ DOMAIN storage' = Storages /\ storage'[i].client = client
        /\ \A j \in Storages \ {i} : storage'[j] = storage[j]
    BY <2>1 DEF FInv, SetClient
  <2>4. \A j \in Storages : FreshStorage(j)'
    BY <1>1, <1>3, <2>1, <2>3 DEF FInv, FreshStorage
  <2>5. FreshCall(t)'
    BY <2>2 DEF FreshCall, ModulePlaces
  <2>6. mutex' = IF call[t].op = "Start" THEN [mutex EXCEPT ![call[t].storage] = None] ELSE mutex
    BY <1>3, <2>1
  <2>7. sessions' \in Nat /\ sessions <= sessions' /\ UNCHANGED stopped
    BY <1>2
  <2>8. pc'[t] \notin {"build", "assume", "answer"}
    BY <2>2
  <2>9. QED
    BY <2>2, <2>3, <2>4, <2>5, <2>6, <2>7, <2>8, EndsFInv
<1>4. CASE call[t].op # "Start"
  <2>1. /\ call' = [call EXCEPT ![t].client = client] /\ Goto(t, "send")
        /\ UNCHANGED << storage, mutex >>
    BY <1>4, Zenon DEF Built
  <2>. HIDE DEF client
  <2>2. /\ StepOf(t) /\ pc'[t] = "send" /\ call'[t].client = client
        /\ SameCall(call[t], call'[t])
    <3>1. CInv /\ pc[t] \in ModulePlaces
      BY DEF FInv, ModulePlaces
    <3>2. QED
      BY <2>1, <3>1, GivenClient, Zenon
  <2>3. FreshCall(t)'
    BY <1>1, <1>2, <2>2 DEF FreshCall, SameCall, ModulePlaces
  <2>4. \A j \in Storages : FreshStorage(j)'
    BY <2>1 DEF FInv, FreshStorage
  <2>5. QED
    BY <1>2, <1>4, <2>1, <2>2, <2>3, <2>4, EndsFInv DEF FInv
<1>5. QED
  BY <1>3, <1>4

LEMMA BuildFInv ==
  ASSUME FInv, NEW t \in Threads, CallShape(pc'[t], call'[t]),
         BuildAWSConfig(t) \/ AssumeRole(t) \/ StaticCredentials(t)
  PROVE  FInv'
<1>1. UNCHANGED stopped /\ sessions \in Nat
  BY DEF BuildAWSConfig, AssumeRole, StaticCredentials, FInv
<1>2. CASE BuildAWSConfig(t)
  <2>1. pc[t] = "build" /\ UNCHANGED sessions
    BY <1>2 DEF BuildAWSConfig
  <2>2. CASE Goto(t, "assume") /\ UNCHANGED << call, storage, mutex >>
    <3>1. StepOf(t) /\ pc'[t] = "assume" /\ call'[t] = call[t]
      BY <2>2, GoneOn DEF FInv
    <3>2. FreshCall(t)' /\ \A i \in Storages : Builds(t, i)' <=> Builds(t, i)
      BY <2>1, <3>1 DEF FInv, FreshCall, Builds, ModulePlaces
    <3>3. \A i \in Storages : FreshStorage(i)'
      BY <1>1, <2>1, <2>2 DEF FInv, FreshStorage
    <3>4. QED
      BY <1>1, <2>1, <2>2, <3>1, <3>2, <3>3, FreshStep DEF FInv
  <2>3. CASE call[t].cred.source # "role_arn" /\ Built(t, 0)
    BY <1>1, <2>1, <2>3, BuiltFInv
  <2>4. CASE NotBuilt(t)
    BY <1>1, <2>1, <2>4, NotBuiltFInv
  <2>5. QED
    BY <1>2, <2>2, <2>3, <2>4 DEF BuildAWSConfig
<1>3. CASE AssumeRole(t)
  <2>1. pc[t] = "assume"
    BY <1>3 DEF AssumeRole
  <2>2. CASE /\ sessions' = sessions + 1 /\ call' = [call EXCEPT ![t].session = sessions + 1]
             /\ Goto(t, "answer") /\ UNCHANGED << storage, mutex >>
    <3>1. /\ StepOf(t) /\ pc'[t] = "answer" /\ call'[t].session = sessions + 1
          /\ SameCall(call[t], call'[t])
      <4>1. CInv
        BY DEF FInv
      <4>2. QED
        BY <2>1, <2>2, <4>1, GivenSession, Zenon
    <3>2. FreshCall(t) /\ ModuleCall(pc[t], call[t])
      BY <2>1 DEF FInv, CInv, CallShape, ModulePlaces
    <3>3. call[t].op = "Start" => FreshStorage(call[t].storage)
      BY <3>2 DEF FInv, ModuleCall, StorageOps
    <3>4. FreshCall(t)'
      BY <1>1, <2>1, <2>2, <3>1, <3>2, <3>3 DEF FreshCall, FreshStorage, SameCall, ModulePlaces
    <3>5. \A i \in Storages : Builds(t, i)' <=> Builds(t, i)
      BY <2>1, <3>1 DEF Builds, SameCall
    <3>6. \A i \in Storages : FreshStorage(i)'
      BY <1>1, <2>2 DEF FInv, FreshStorage
    <3>7. QED
      BY <1>1, <2>2, <3>1, <3>4, <3>5, <3>6, FreshStep DEF FInv
  <2>3. CASE sessions' \in {sessions, sessions + 1} /\ NotBuilt(t)
    BY <1>1, <2>1, <2>3, NotBuiltFInv
  <2>4. QED
    BY <1>3, <2>2, <2>3 DEF AssumeRole
<1>4. CASE StaticCredentials(t)
  <2>1. pc[t] = "answer" /\ Built(t, call[t].session) /\ UNCHANGED sessions
    BY <1>4 DEF StaticCredentials
  <2>2. /\ call[t].session > call[t].since
        /\ call[t].op = "Start" => call[t].session > stopped[call[t].storage]
    BY <2>1 DEF FInv, FreshCall
  <2>3. QED
    BY <1>1, <2>1, <2>2, BuiltFInv
<1>5. QED
  BY <1>2, <1>3, <1>4

-----------------------------------------------------------------------------
LEMMA StepFInv == IInv' /\ FInv /\ [Next]_vars => FInv'
<1>. SUFFICES ASSUME IInv', FInv, [Next]_vars PROVE FInv'
  OBVIOUS
<1>1. \A t \in Threads : CallShape(pc'[t], call'[t])
  BY DEF IInv, CInv
<1>2. ASSUME NEW t \in Threads, ModuleStep(t) PROVE FInv'
  BY <1>1, <1>2, CreateFInv, ArriveFInv, BuildFInv, StartFInv, StopFInv, ObjectFInv DEF ModuleStep
<1>3. ASSUME NEW t \in Threads, StateStep(t) PROVE FInv'
  <2>1. /\ StepOf(t) /\ CallShape(pc'[t], call'[t])
        /\ pc[t] \notin ModulePlaces /\ pc'[t] \notin ModulePlaces
    BY <1>3, StateMoves DEF FInv
  <2>2. UNCHANGED << sessions, storage, mutex, stopped >>
    BY <1>3 DEF StateStep, Configure, resolveStore, resolveStoreToUnlock, PutLock, HeadLock,
       DeleteLock, StateRequest, modules
  <2>3. FreshCall(t)' /\ \A i \in Storages : ~Builds(t, i) /\ ~Builds(t, i)'
    BY <2>1 DEF FreshCall, Builds, ModulePlaces
  <2>4. QED
    BY <2>1, <2>2, <2>3, QuietFInv DEF FInv
<1>4. ASSUME NEW t \in Threads, MapRequirements(t) PROVE UNCHANGED << modules, pc, call >>
  BY <1>4 DEF MapRequirements
<1>5. CASE UNCHANGED << modules, pc, call >>
  BY <1>5 DEF modules, FInv, CInv, FreshStorage, FreshCall, Builds
<1>6. QED
  BY <1>2, <1>3, <1>4, <1>5, Steps3 DEF vars

LEMMA SessionInvariant == Spec => []FInv
<1>1. IInv /\ FInv /\ [Next]_vars => IInv' /\ FInv'
  BY StepIInv, StepFInv
<1>2. QED
  BY InitIInv, InitFInv, <1>1, PTL DEF Spec

\* A step sends with a session of its role that STS issued during its Execute, and a
\* storage module has no session from before its last Stop, although its Start may be
\* under way when Stop is called (storage_s3.go:130-162, s3_upload.go:205-210).
THEOREM SessionsAreNew == Spec => []FreshSessions
BY SessionInvariant, FInvFresh, PTL

-----------------------------------------------------------------------------
(***************************************************************************)
(* Types.                                                                  *)
(***************************************************************************)
RInv ==
  /\ DOMAIN registry = Names /\ \A n \in Names : registry[n] \in Inputs \cup {None}
  /\ DOMAIN locks = Locations /\ \A b \in Locations : locks[b] \in Threads \cup {None}

LEMMA StepRInv == RInv /\ [Next]_vars => RInv'
<1>. SUFFICES ASSUME RInv, [Next]_vars PROVE RInv'
  OBVIOUS
<1>1. UNCHANGED registry \/ \E t \in Threads : Register(t)
  <2>1. ASSUME NEW t \in Threads, StateStep(t) PROVE UNCHANGED registry
    BY <2>1 DEF StateStep, Configure, resolveStore, resolveStoreToUnlock, PutLock, HeadLock,
       DeleteLock, StateRequest, modules
  <2>2. ASSUME NEW t \in Threads, ModuleStep(t), ~Register(t) PROVE UNCHANGED registry
    BY <2>2 DEF ModuleStep, CreateStorage, CreateUpload, CreateDownload, CallStorage, Upload,
       Download, BuildAWSConfig, AssumeRole, StaticCredentials, Start, Stop, getClient,
       SendObject, ReadAll, modules
  <2>3. ASSUME NEW t \in Threads, MapRequirements(t) PROVE UNCHANGED registry
    BY <2>3 DEF MapRequirements, modules
  <2>4. QED
    BY <2>1, <2>2, <2>3, Steps3 DEF vars, modules
<1>2. UNCHANGED locks \/ \E t \in Threads : PutLock(t) \/ DeleteLock(t)
  <2>1. ASSUME NEW t \in Threads, StateStep(t), ~PutLock(t), ~DeleteLock(t) PROVE UNCHANGED locks
    BY <2>1 DEF StateStep, Configure, resolveStore, resolveStoreToUnlock, HeadLock,
       StateRequest, backend
  <2>2. ASSUME NEW t \in Threads, ModuleStep(t) PROVE UNCHANGED locks
    BY <2>2 DEF ModuleStep, Register, CreateStorage, CreateUpload, CreateDownload, CallStorage,
       Upload, Download, BuildAWSConfig, AssumeRole, StaticCredentials, Start, Stop, getClient,
       SendObject, ReadAll, backend
  <2>3. ASSUME NEW t \in Threads, MapRequirements(t) PROVE UNCHANGED locks
    BY <2>3 DEF MapRequirements, backend
  <2>4. QED
    BY <2>1, <2>2, <2>3, Steps3 DEF vars, backend
<1>3. DOMAIN registry' = Names /\ \A n \in Names : registry'[n] \in Inputs \cup {None}
  BY <1>1 DEF RInv, Register
<1>4. DOMAIN locks' = Locations /\ \A b \in Locations : locks'[b] \in Threads \cup {None}
  BY <1>2 DEF RInv, PutLock, DeleteLock
<1>5. QED
  BY <1>3, <1>4 DEF RInv

LEMMA TypesFollow == SInv /\ FInv /\ RInv => TypeOK
<1>. SUFFICES ASSUME SInv, FInv, RInv PROVE TypeOK
  OBVIOUS
<1>1. sessions \in Nat /\ moved \in BOOLEAN
      /\ store \in Locations \cup {None} /\ (moved => store # None)
  BY DEF SInv, FInv, Located
<1>2. ASSUME NEW t \in Threads
      PROVE  /\ held[t] \in Locations \cup {None}
             /\ pc[t] \in {"idle", "lock", "build", "assume", "answer", "send", "read",
                           "put lock", "head lock", "delete lock", "request"}
             /\ pc[t] = "idle" <=> call[t] = NoCall
  <2>1. CallShape(pc[t], call[t])
    BY DEF SInv, CInv
  <2>2. NoCall.op = "none"
    BY DEF NoCall
  <2>3. pc[t] # "idle" => call[t] # NoCall
    BY <2>1, <2>2 DEF CallShape, ModuleCall, StateCall, ModuleOps, StorageOps, ModulePlaces,
       StatePlaces
  <2>4. pc[t] \in ModulePlaces \cup StatePlaces \cup {"idle"}
    BY <2>1 DEF CallShape
  <2>5. held[t] \in Locations \cup {None}
    BY DEF SInv, Located
  <2>6. QED
    BY <2>1, <2>3, <2>4, <2>5 DEF CallShape, ModulePlaces, StatePlaces
<1>3. \A i \in Storages, t \in Threads :
        mutex[i] = t <=> /\ pc[t] \in {"build", "assume", "answer"}
                         /\ call[t].op = "Start" /\ call[t].storage = i
  BY DEF FInv, Builds
<1>4. QED
  BY <1>1, <1>2, <1>3 DEF RInv, TypeOK

\* Everything has its type, and the mutex of a storage module is held by the Start that
\* builds its client, and by nobody else, on every path (storage_s3.go:130-154).
THEOREM TypesHold == Spec => []TypeOK
<1>1. Init => RInv
  BY DEF Init, RInv
<1>2. Spec => []RInv
  BY <1>1, StepRInv, PTL DEF Spec
<1>3. QED
  BY LockInvariant, SessionInvariant, <1>2, TypesFollow, PTL

=============================================================================
