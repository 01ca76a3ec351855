---------------------------- MODULE StateSession ----------------------------
(***************************************************************************)
(* The workflow hosts that use the state store as the lock is meant to be  *)
(* used: a session locks a resource, reads its record, saves a successor   *)
(* of it or deletes it, and unlocks.  The host is not part of this         *)
(* repository; the guards below are its protocol, every step of the store  *)
(* is the one of S3StateStore.                                             *)
(***************************************************************************)
EXTENDS S3StateStore

CONSTANTS Free, Abandoned  \* owners of a lock that no client has

ASSUME SessionAssumption ==
  /\ Free \notin Clients
  /\ Abandoned \notin Clients
  /\ Free # Abandoned

Succeeded(c, rpc) == reply[c].rpc = rpc /\ reply[c].err = "none"

\* A host locks one resource at a time.
LockSession(c, id) == holds[c] = {} /\ Lock(c, id)

\* It reads the record under the lock, once.
ReadSession(c, id) == id \in holds[c] /\ Succeeded(c, "lock") /\ GetState(c, id)

\* The record it just read, if any, gets a successor.
NextRecord(c, id, s) ==
  [id |-> id, status |-> s,
   rev |-> IF reply[c].rec = NoRecord THEN 0 ELSE reply[c].rec.rev + 1]

SaveSession(c, id, s) ==
  /\ id \in holds[c]
  /\ reply[c].rpc = "get" /\ reply[c].err \in {"none", "not found"}
  /\ reply[c].rec # NoRecord => reply[c].rec.rev < MaxRev
  /\ SaveState(c, NextRecord(c, id, s), reply[c].rec)

DeleteSession(c, id) ==
  /\ id \in holds[c] /\ Succeeded(c, "get")
  /\ DeleteState(c, id, reply[c].rec)

\* It unlocks in the end, whatever came of the calls in between.
UnlockSession(c, id) == id \in holds[c] /\ Unlock(c, id)

Session(c) ==
  \E id \in ResourceIDs :
    \/ LockSession(c, id)
    \/ ReadSession(c, id)
    \/ \E s \in Statuses : SaveSession(c, id, s)
    \/ DeleteSession(c, id)
    \/ UnlockSession(c, id)

SessionNext == \E c \in Clients : Session(c) \/ Serve(c) \/ RequestLost(c) \/ Crash(c)

SessionSpec == Init /\ [][SessionNext]_vars

\* A host in a session ends it, and a call that was issued runs on.  Nothing
\* makes a host begin a session.
FairSessionSpec ==
  /\ SessionSpec
  /\ \A c \in Clients : WF_vars(Serve(c))
  /\ \A c \in Clients : WF_vars(\E id \in ResourceIDs : UnlockSession(c, id))

-----------------------------------------------------------------------------
(***************************************************************************)
(* Properties.                                                             *)
(***************************************************************************)

\* The owner of a lock object: the client that holds it or is about to
\* remove it.
Owns(c, n) ==
  \/ \E id \in holds[c] : sanitizeID[id] = n
  \/ pc[c] \in {"head lock", "delete lock"} /\ name(c) = n

LockRequests == {"put lock", "head lock", "delete lock"}

\* The inductive strengthening of MutualExclusion: a lock object has at most
\* one owner and is there as long as it has one, and a host that locks or
\* unlocks a resource holds no lock.
UniqueOwner   == \A n \in Names : \A c, d \in Clients : Owns(c, n) /\ Owns(d, n) => c = d
OwnedIsLocked == \A n \in Names : \A c \in Clients : Owns(c, n) => n \in locks
OneAtATime    == \A c \in Clients :
                   /\ \A i, j \in holds[c] : i = j
                   /\ pc[c] \in LockRequests => holds[c] = {}
OwnershipInv  == UniqueOwner /\ OwnedIsLocked /\ OneAtATime

\* "Lock acquires an exclusive lock for the given resource ID" (s3.go:65):
\* no two clients hold the lock of a resource at the same time.
MutualExclusion ==
  \A c, d \in Clients : c # d =>
    \A i \in holds[c], j \in holds[d] : sanitizeID[i] # sanitizeID[j]

\* A client that holds a lock has its lock object in the bucket: no stale
\* Unlock, repeated request or crash of another client removes it.
LockOutlivesOthers ==
  \A c \in Clients : \A id \in holds[c] : sanitizeID[id] \in locks

\* What makes NoLostUpdate inductive: a session that is about to write holds
\* the lock of what it writes, and the record is still the one it read.
StateRequests == {"get", "put state", "head state", "delete state"}
SessionOK(c) ==
  /\ pc[c] \in StateRequests => arg[c].id \in holds[c]
  /\ pc[c] \in StateRequests \ {"get"} => records[name(c)] = arg[c].base
  /\ (pc[c] = "idle" /\ reply[c].rpc = "get" /\ reply[c].err # "request failed") =>
        arg[c].id \in holds[c] /\ records[name(c)] = reply[c].rec
SessionInv == \A c \in Clients : SessionOK(c)

\* No update is lost and nothing unseen is deleted: a record is replaced or
\* removed by a session only while it is the one that session read (or, when
\* the SDK repeats the request, the one it wrote).
NoLostUpdate ==
  [][\A c \in Clients :
       (PutState(c) \/ RemoveState(c)) =>
         records[name(c)] \in {arg[c].base, arg[c].rec}]_vars

ownerOf == [n \in Names |->
              IF n \notin locks THEN Free
              ELSE IF \E c \in Clients : Owns(c, n)
                   THEN CHOOSE c \in Clients : Owns(c, n)
                   ELSE Abandoned]

\* Sessions see the abstract lock: the store implements ExclusiveLock.  A lock is
\* taken only when it is free, and a request that removes a lock object is one of
\* the lock's own owner, whatever got lost or crashed: a DeleteObject that comes
\* late never frees the lock of another host.
Abstract == INSTANCE ExclusiveLock WITH owner <- ownerOf
ImplementsExclusiveLock == Abstract!Spec

\* No host crashed and no request or answer got lost so far.
Undisturbed == losses = MaxLosses /\ crashes = MaxCrashes

\* "atomic, race-free lock acquisition.  Fails if the lock already exists"
\* (s3.go:339-340): until something goes wrong, Lock fails only while another
\* client owns the lock.
RefusedOnlyWhenOwned ==
  [][\A c \in Clients :
       (PutLock(c) /\ reply'[c].err = "already locked" /\ Undisturbed) =>
         \E d \in Clients \ {c} : Owns(d, name(c))]_vars

\* Until something goes wrong every lock that was taken is given back, however
\* the session goes.
LocksAreReleased ==
  \A n \in Names : n \in locks ~> (n \notin locks \/ ~Undisturbed)
=============================================================================
