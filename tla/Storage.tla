-------------------------------- MODULE Storage --------------------------------
(***************************************************************************)
(* Credentials modules and their registry (internal/credref), the          *)
(* resolution of credentials (internal/awscreds), the storage.s3 module    *)
(* (internal/modules) and the upload and download steps (internal/steps).  *)
(*                                                                         *)
(* Credentials are what they identify: whose keys, role or profile, and    *)
(* the region.  Objects, keys and templates are left out: a step whose     *)
(* input does not fit ends before it needs credentials.                    *)
(***************************************************************************)
EXTENDS Process

\* A step has to name its region.
StepConfigs == {config \in Configs : config.region # None}

-----------------------------------------------------------------------------
(***************************************************************************)
(* Credentials.                                                            *)
(***************************************************************************)

\* (faulty variant) A second module of a name replaces the first one.
RegisterReplaces(t) ==
  \E n \in Names, c \in Inputs :
    /\ Serve(t, "modules")
    /\ registry' = [registry EXCEPT ![n] = c]
    /\ UNCHANGED << sessions, storage, mutex, stopped, upload, download, backend >>

\* The aws.credentials module does nothing but register what it says.  No name is
\* ever removed.
Register(t) ==
  \E n \in Names, c \in Inputs :
    /\ Serve(t, "modules")
    /\ registry' = IF registry[n] = None THEN [registry EXCEPT ![n] = c] ELSE registry
    /\ UNCHANGED << sessions, storage, mutex, stopped, upload, download, backend >>

\* What there is without credentials: the default chain.
Chain(region) ==
  [source |-> "env", who |-> None, keys |-> FALSE, arn |-> FALSE, region |-> region]

Resolvable(config) ==
  IF config.inline = None /\ config.ref # None THEN registry[config.ref] # None ELSE TRUE

\* A block in the config beats a reference, and the config's region the referenced
\* credentials' own; the region of a block is not read.
resolveAWSCredentials(config) ==
  IF config.inline # None THEN [config.inline EXCEPT !.region = config.region]
  ELSE IF config.ref = None THEN Chain(config.region)
  ELSE IF config.region = None THEN registry[config.ref]
  ELSE [registry[config.ref] EXCEPT !.region = config.region]

\* Keys count only if both are there, and not beside a profile.  A role is
\* assumed with the keys, or else with the default chain.
Kind(c) ==
  CASE c.source = "profile"  -> "profile"
    [] c.source = "role_arn" -> "role"
    [] c.source \notin {"profile", "role_arn"} /\ c.keys -> "keys"
    [] OTHER -> "chain"

\* The client of a config.  That of a role holds the credentials of one session,
\* which nothing renews.
Client(c, session) ==
  [kind |-> Kind(c), who |-> IF Kind(c) = "chain" THEN None ELSE c.who,
   region |-> c.region, session |-> session]

-----------------------------------------------------------------------------
(***************************************************************************)
(* Modules and steps are created.                                          *)
(***************************************************************************)

\* A storage module that was not created yet.
NotCreated == [config |-> None, cred |-> None, client |-> None]

\* A storage module without a bucket is rejected.
CreateStorage(t) ==
  \E i \in Storages, config \in Configs, bucket \in BOOLEAN :
    LET ok == bucket /\ Resolvable(config)
    IN /\ storage[i] = NotCreated
       /\ Serve(t, "modules")
       /\ storage' = IF ok THEN [storage EXCEPT ![i] =
                            [config |-> config, cred |-> resolveAWSCredentials(config), client |-> None]]
                     ELSE storage
       /\ UNCHANGED << registry, sessions, mutex, stopped, upload, download, backend >>

\* An upload step resolves its credentials when it is created.
CreateUpload(t) ==
  \E s \in Steps, config \in StepConfigs, complete \in BOOLEAN :
    LET ok == complete /\ Resolvable(config)
    IN /\ upload[s] = None
       /\ Serve(t, "modules")
       /\ upload' = IF ok THEN [upload EXCEPT ![s] =
                           [config |-> config, cred |-> resolveAWSCredentials(config)]]
                    ELSE upload
       /\ UNCHANGED << registry, sessions, storage, mutex, stopped, download, backend >>

\* A download step only keeps its config.
CreateDownload(t) ==
  \E s \in Steps, config \in StepConfigs :
    /\ download[s] = None
    /\ Serve(t, "modules")
    /\ download' = [download EXCEPT ![s] = config]
    /\ UNCHANGED << registry, sessions, storage, mutex, stopped, upload, backend >>

-----------------------------------------------------------------------------
(***************************************************************************)
(* Credentials are resolved, for Start or for a step's own client.         *)
(***************************************************************************)

SetClient(i, client) ==
  storage' = [storage EXCEPT ![i] = [config |-> @.config, cred |-> @.cred, client |-> client]]

\* A client for the call's credentials: Start keeps it, a step sends with it.
Built(t, session) ==
  LET c == call[t]
      client == Client(c.cred, session)
  IN IF c.op = "Start"
     THEN /\ SetClient(c.storage, client)
          /\ mutex' = [mutex EXCEPT ![c.storage] = None]
          /\ Return(t)
     ELSE /\ call' = [call EXCEPT ![t].client = client]
          /\ Goto(t, "send")
          /\ UNCHANGED << storage, mutex >>

\* (faulty variant) Start returns an error without giving the mutex back.
NotBuiltLocked(t) == Return(t) /\ UNCHANGED << storage, mutex >>

NotBuilt(t) ==
  /\ mutex' = IF call[t].op = "Start" THEN [mutex EXCEPT ![call[t].storage] = None] ELSE mutex
  /\ Return(t)
  /\ UNCHANGED storage

\* A role without an ARN is an error; so is a profile or environment that does not
\* load.
BuildAWSConfig(t) ==
  /\ pc[t] = "build"
  /\ LET c == call[t].cred
     IN \/ c.source # "role_arn" /\ Built(t, 0) /\ UNCHANGED failures
        \/ c.source = "role_arn" /\ ~c.arn /\ NotBuilt(t) /\ UNCHANGED failures
        \/ /\ c.source = "role_arn" /\ c.arn
           /\ Goto(t, "assume")
           /\ UNCHANGED << call, storage, mutex, failures >>
        \/ Fails /\ NotBuilt(t)
  /\ UNCHANGED << registry, sessions, stopped, upload, download, backend >>

\* STS issues a session, or its answer is an error or lost.
AssumeRole(t) ==
  /\ pc[t] = "assume"
  /\ \/ /\ sessions' = sessions + 1
        /\ call' = [call EXCEPT ![t].session = sessions + 1]
        /\ Goto(t, "answer")
        /\ UNCHANGED << storage, mutex, failures >>
     \/ sessions' \in {sessions, sessions + 1} /\ Fails /\ NotBuilt(t)
  /\ UNCHANGED << registry, stopped, upload, download, backend >>

\* The answer arrives some time later.
StaticCredentials(t) ==
  /\ pc[t] = "answer"
  /\ Built(t, call[t].session)
  /\ UNCHANGED << registry, sessions, stopped, upload, download, backend, failures >>

-----------------------------------------------------------------------------
(***************************************************************************)
(* The storage module.  Start, Stop and getClient take its mutex, and only *)
(* Start keeps it over a request.                                          *)
(***************************************************************************)

CallStorage(t) ==
  /\ \E i \in Storages, op \in {"Start", "Stop", "Object"} :
       /\ storage[i] # NotCreated
       /\ Arrive(t, "modules", [op |-> op, storage |-> i, config |-> storage[i].config,
                                cred |-> storage[i].cred, client |-> None, session |-> 0, since |-> 0], "lock")
  /\ UNCHANGED << modules, backend >>

\* (faulty variant) The mutex is given back while STS is asked.
StartUnlocked(t) ==
  /\ pc[t] = "lock" /\ call[t].op = "Start" /\ mutex[call[t].storage] = None
  /\ IF storage[call[t].storage].client # None
     THEN Return(t) /\ UNCHANGED mutex
     ELSE /\ UNCHANGED mutex
          /\ Goto(t, "build") /\ UNCHANGED call
  /\ UNCHANGED << registry, sessions, storage, stopped, upload, download, backend, failures >>

\* A module that has a client keeps it.
Start(t) ==
  /\ pc[t] = "lock" /\ call[t].op = "Start" /\ mutex[call[t].storage] = None
  /\ IF storage[call[t].storage].client # None
     THEN Return(t) /\ UNCHANGED mutex
     ELSE /\ mutex' = [mutex EXCEPT ![call[t].storage] = t]
          /\ Goto(t, "build") /\ UNCHANGED call
  /\ UNCHANGED << registry, sessions, storage, stopped, upload, download, backend, failures >>

Stop(t) ==
  /\ pc[t] = "lock" /\ call[t].op = "Stop" /\ mutex[call[t].storage] = None
  /\ SetClient(call[t].storage, None)
  /\ stopped' = [stopped EXCEPT ![call[t].storage] = sessions]
  /\ Return(t)
  /\ UNCHANGED << registry, sessions, mutex, upload, download, backend, failures >>

\* PutObject, GetObject and DeleteObject take the client and go on without the
\* mutex.
getClient(t) ==
  /\ pc[t] = "lock" /\ call[t].op = "Object" /\ mutex[call[t].storage] = None
  /\ IF storage[call[t].storage].client = None
     THEN Return(t)
     ELSE /\ call' = [call EXCEPT ![t].client = storage[call[t].storage].client]
          /\ Goto(t, "send")
  /\ UNCHANGED << modules, backend, failures >>

-----------------------------------------------------------------------------
(***************************************************************************)
(* The steps.                                                              *)
(***************************************************************************)

\* Execute of an upload builds a client of its own when its input fits.
Upload(t) ==
  /\ \E s \in Steps :
       /\ upload[s] # None
       /\ \/ Serve(t, "modules")
          \/ Arrive(t, "modules", [op |-> "Upload", storage |-> None, config |-> upload[s].config,
                                   cred |-> upload[s].cred, client |-> None,
                                   session |-> 0, since |-> sessions], "build")
  /\ UNCHANGED << modules, backend >>

\* Execute of a download creates and starts a storage module of its own.
Download(t) ==
  /\ \E s \in Steps :
       /\ download[s] # None
       /\ \/ Serve(t, "modules")
          \/ /\ Resolvable(download[s])
             /\ Arrive(t, "modules", [op |-> "Download", storage |-> None, config |-> download[s],
                                      cred |-> resolveAWSCredentials(download[s]),
                                      client |-> None, session |-> 0, since |-> sessions], "build")
  /\ UNCHANGED << modules, backend >>

\* The request is carried out, refused or lost; a download then reads the body.
\* (What it opened and started is its own, and closed and stopped on every path.)
SendObject(t) ==
  /\ pc[t] = "send"
  /\ \/ call[t].op = "Download" /\ Goto(t, "read") /\ UNCHANGED call
     \/ Return(t)
  /\ UNCHANGED << modules, backend, failures >>

ReadAll(t) ==
  /\ pc[t] = "read"
  /\ Return(t)
  /\ UNCHANGED << modules, backend, failures >>
=============================================================================
