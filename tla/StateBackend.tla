------------------------------ MODULE StateBackend ------------------------------
(***************************************************************************)
(* The iac.state server (internal/statebackend_server.go): Configure       *)
(* replaces the state store of the process while hosts use it.  An RPC     *)
(* takes the store under the server's mutex, works on it without the mutex *)
(* and never looks again.                                                  *)
(*                                                                         *)
(* Each handler serves one host, which locks, works and unlocks.  A store  *)
(* is where its objects are, which its endpoint, bucket and prefix say; of *)
(* its own requests (S3StateStore) those of Lock and Unlock are steps      *)
(* here, without the SDK's retries, and all others are one.                *)
(***************************************************************************)
EXTENDS Process

\* A host has the lock or is about to get it.
InSession(t) == held[t] # None \/ pc[t] = "put lock"

\* The store is at l from now on.  (moved is for SessionsSurviveConfigure.)
setStateStore(l) ==
  /\ store' = l
  /\ moved' = (moved \/ (store \notin {None, l} /\ \E t \in Threads : InSession(t)))

\* (faulty variant) A store keeps its locks in memory, and a new one has none.
ConfigureForgets(t) ==
  /\ \/ /\ Serve(t, "state")
        /\ UNCHANGED << store, locks, moved >>
     \/ \E l \in Locations :
          /\ setStateStore(l) /\ locks' = [locks EXCEPT ![l] = None]
          /\ Serve(t, "state")
  /\ UNCHANGED << modules, held >>

\* Another backend's name, a config without a bucket, or one that does not decode
\* or load is an error and changes nothing.
Configure(t) ==
  /\ \/ /\ Serve(t, "state")
        /\ UNCHANGED << store, moved >>
     \/ \E l \in Locations : setStateStore(l) /\ Serve(t, "state")
  /\ UNCHANGED << modules, locks, held >>

\* The first request of an RPC.
FirstOf == [Lock |-> "put lock", Unlock |-> "head lock", State |-> "request"]

\* A host unlocks what it has locked.
MayCall(t, op) == op = "Lock" => held[t] = None

\* Until Configure ran, every RPC is refused.
resolveStore(t) ==
  /\ \E op \in {"Lock", "State"} :
       /\ MayCall(t, op)
       /\ IF store = None
          THEN Serve(t, "state")
          ELSE Arrive(t, "state", [op |-> op, location |-> store], FirstOf[op])
  /\ UNCHANGED << modules, backend >>

\* The host forgets its lock when it begins to unlock.
resolveStoreToUnlock(t) ==
  /\ held[t] # None
  /\ held' = [held EXCEPT ![t] = None]
  /\ Arrive(t, "state", [op |-> "Unlock", location |-> store], "head lock")
  /\ UNCHANGED << modules, store, locks, moved >>

\* The object is made only if there is none; an answer that is lost leaves it to
\* nobody.
PutLock(t) ==
  /\ pc[t] = "put lock"
  /\ LET l == call[t].location
     IN \/ /\ locks[l] = None
           /\ locks' = [locks EXCEPT ![l] = t] /\ held' = [held EXCEPT ![t] = l]
           /\ Return(t) /\ UNCHANGED failures
        \/ /\ locks[l] # None
           /\ Return(t) /\ UNCHANGED << locks, held, failures >>
        \/ /\ Fails /\ Return(t)
           /\ locks' = locks \/ (locks[l] = None /\ locks' = [locks EXCEPT ![l] = t])
           /\ UNCHANGED held
  /\ UNCHANGED << modules, store, moved >>

HeadLock(t) ==
  /\ pc[t] = "head lock"
  /\ \/ /\ locks[call[t].location] # None
        /\ Goto(t, "delete lock") /\ UNCHANGED << call, failures >>
     \/ locks[call[t].location] = None /\ Return(t) /\ UNCHANGED failures
     \/ Fails /\ Return(t)
  /\ UNCHANGED << modules, backend >>

DeleteLock(t) ==
  /\ pc[t] = "delete lock"
  /\ LET gone == [locks EXCEPT ![call[t].location] = None]
     IN \/ locks' = gone /\ Return(t) /\ UNCHANGED failures
        \/ locks' \in {gone, locks} /\ Fails /\ Return(t)
  /\ UNCHANGED << modules, store, held, moved >>

\* The other RPCs, which leave locks alone, whether they succeed or not.
StateRequest(t) ==
  /\ pc[t] = "request"
  /\ Return(t)
  /\ UNCHANGED << modules, backend, failures >>
=============================================================================
