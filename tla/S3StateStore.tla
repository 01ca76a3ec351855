---------------------------- MODULE S3StateStore ----------------------------
(***************************************************************************)
(* The S3 backed IaC state store (internal/statebackend/s3.go) behind the  *)
(* iac.state RPCs of the plugin (internal/statebackend_server.go).         *)
(*                                                                         *)
(* Each client is one caller of the RPCs: a workflow host, or one of the   *)
(* concurrent calls of a host.  All clients share one bucket and nothing   *)
(* else.  A call is a sequence of HTTP requests to S3 and every request is *)
(* one step, so the steps of concurrent calls interleave between a         *)
(* HeadObject and its DeleteObject, and between the pages of a listing.    *)
(*                                                                         *)
(* The AWS SDK repeats a request that got no answer, at most MaxAttempts   *)
(* times.  A lost request may or may not have been carried out by S3.  The *)
(* body of an object is read after the SDK returned: nothing repeats that. *)
(*                                                                         *)
(* Abstracted: the JSON of a record (a record is its resource ID, its      *)
(* status and a revision that stands for the rest), the time in the body   *)
(* of a lock object (nothing reads it), and the names of the objects, of   *)
(* which only their order and the collisions made by sanitizeID matter.    *)
(***************************************************************************)
EXTENDS Integers, FiniteSets, Sequences

CONSTANTS
  Clients,       \* concurrent callers of the state RPCs
  ResourceIDs,   \* resource IDs the hosts use
  EmptyID,       \* the empty resource ID, which SaveState rejects
  MaxName,       \* object base names are 1..MaxName, in the order S3 lists them
  sanitizeID,    \* the base name made from a resource ID
  Statuses,      \* values of IaCState.Status
  AnyStatus,     \* the filter that is nil or empty
  NoRecord,      \* no object under a state key
  MaxRev,        \* bound on the revision of a record
  PageSize,      \* keys in one answer of ListObjectsV2
  MaxAttempts,   \* attempts the SDK makes for one request
  MaxLosses,     \* bound on the requests and answers that get lost
  MaxCrashes,    \* bound on the crashes of clients
  RPCs           \* the RPCs each caller issues

Names  == 1 .. MaxName
Record == [id : ResourceIDs, status : Statuses, rev : 0 .. MaxRev]

ASSUME StoreAssumption ==
  /\ MaxName \in Nat
  /\ MaxRev \in Nat
  /\ PageSize \in Nat \ {0}
  /\ MaxAttempts \in Nat \ {0}
  /\ MaxLosses \in Nat
  /\ MaxCrashes \in Nat
  /\ sanitizeID \in [ResourceIDs \cup {EmptyID} -> Names]
  /\ AnyStatus \notin Statuses
  /\ NoRecord \notin Record
  /\ RPCs \in [Clients -> SUBSET {"get", "save", "list", "delete", "lock", "unlock"}]

VARIABLES
  records,  \* the state objects: base name -> record or NoRecord
  locks,    \* the base names that have a lock object
  mover,    \* (observer) the client that made or removed a lock object last
  pc,       \* the request a client's call sends next
  arg,      \* the arguments of a client's call
  tries,    \* attempts of that request that got no answer
  listing,  \* the local variables of a client's ListStates
  reply,    \* what a client's last call returned
  holds,    \* IDs a client locked and has not begun to unlock
  steady,   \* (observer) names whose record did not change since ListStates began
  losses,   \* requests and answers that may still get lost
  crashes   \* clients that may still crash

bucket == << records, locks, mover >>
budget == << losses, crashes >>
vars   == << records, locks, mover, pc, arg, tries, listing, reply, holds,
             steady, losses, crashes >>

Requests == {"get", "put state", "list page", "list get", "head state",
             "delete state", "put lock", "head lock", "delete lock"}
Errors   == {"none", "empty id", "not found", "already locked", "not locked",
             "request failed"}

\* The RPC a request belongs to.
rpcOf == [q \in Requests |->
            IF q = "get" THEN "get"
            ELSE IF q = "put state" THEN "save"
            ELSE IF q \in {"list page", "list get"} THEN "list"
            ELSE IF q \in {"head state", "delete state"} THEN "delete"
            ELSE IF q = "put lock" THEN "lock"
            ELSE "unlock"]

\* The arguments of a call on resource id.
Args(id) == [id |-> id, rec |-> NoRecord, base |-> NoRecord, status |-> AnyStatus]

NoReply   == [rpc |-> "none", err |-> "none", rec |-> NoRecord]
NoListing == [token |-> 0, todo |-> {}, more |-> FALSE, found |-> << >>, skipped |-> {}]

\* The two objects of a base name; S3 lists keys in this order.
stateKey(n) == 2 * n - 1
lockKey(n)  == 2 * n

Keys == {stateKey(n) : n \in {m \in Names : records[m] # NoRecord}}
          \cup {lockKey(n) : n \in locks}

name(c) == sanitizeID[arg[c].id]

matchesFilter(rec, status) == status = AnyStatus \/ rec.status = status

Init ==
  /\ records = [n \in Names |-> NoRecord]
  /\ locks = {}
  /\ mover = {}
  /\ pc = [c \in Clients |-> "idle"]
  /\ arg = [c \in Clients |-> Args(EmptyID)]
  /\ tries = [c \in Clients |-> 0]
  /\ listing = [c \in Clients |-> NoListing]
  /\ reply = [c \in Clients |-> NoReply]
  /\ holds = [c \in Clients |-> {}]
  /\ steady = [c \in Clients |-> {}]
  /\ losses = MaxLosses
  /\ crashes = MaxCrashes

-----------------------------------------------------------------------------
(***************************************************************************)
(* Requests and answers.                                                   *)
(***************************************************************************)

\* The call returns to its caller.
Return(c, err, rec) ==
  /\ pc' = [pc EXCEPT ![c] = "idle"]
  /\ tries' = [tries EXCEPT ![c] = 0]
  /\ reply' = [reply EXCEPT ![c] =
                 [rpc |-> rpcOf[pc[c]], err |-> err, rec |-> rec]]

\* The call goes on with request q.
Send(c, q) ==
  /\ pc' = [pc EXCEPT ![c] = q]
  /\ tries' = [tries EXCEPT ![c] = 0]
  /\ UNCHANGED reply

\* The loop of ListStates goes on with local variables l.
Continue(c, l) ==
  /\ listing' = [listing EXCEPT ![c] = l]
  /\ IF l.todo # {} THEN Send(c, "list get")
     ELSE IF l.more THEN Send(c, "list page")
     ELSE Return(c, "none", NoRecord)

\* The state object of the page that ListStates reads next.
IsNextKey(c, n) == n \in listing[c].todo /\ \A m \in listing[c].todo : n <= m

\* (faulty variant) An object that is gone is kept all the same.
NextKeyGone(c, n, rec) ==
  LET l == listing[c]
  IN Continue(c, [token |-> l.token, todo |-> l.todo \ {n}, more |-> l.more,
                  found |-> IF rec = NoRecord \/ matchesFilter(rec, arg[c].status)
                            THEN Append(l.found, rec) ELSE l.found,
                  skipped |-> l.skipped])

\* That object was read as rec, or is gone since the page was taken (NoRecord).
NextKey(c, n, rec) ==
  LET l == listing[c]
      keep == rec # NoRecord /\ matchesFilter(rec, arg[c].status)
  IN Continue(c, [token |-> l.token, todo |-> l.todo \ {n}, more |-> l.more,
                  found |-> IF keep THEN Append(l.found, rec) ELSE l.found,
                  skipped |-> l.skipped])

\* That object could not be read: it is skipped, and the listing goes on.
SkipKey(c, n) ==
  LET l == listing[c]
  IN Continue(c, [token |-> l.token, todo |-> l.todo \ {n}, more |-> l.more,
                  found |-> l.found, skipped |-> l.skipped \cup {n}])

\* No answer: the SDK repeats the request or gives up, and the call fails
\* with it, or skips an object.
Unanswered(c) ==
  /\ losses > 0
  /\ losses' = losses - 1
  /\ IF tries[c] + 1 < MaxAttempts
     THEN tries' = [tries EXCEPT ![c] = @ + 1] /\ UNCHANGED << pc, reply, listing >>
     ELSE IF pc[c] = "list get" THEN \E n \in Names : IsNextKey(c, n) /\ SkipKey(c, n)
     ELSE Return(c, "request failed", NoRecord) /\ UNCHANGED listing

\* The object is there and was answered with, but the body breaks off.  The SDK
\* is done with the request: GetState fails and ListStates skips the object.
BodyLost(c) ==
  /\ losses > 0
  /\ losses' = losses - 1
  /\ \/ /\ pc[c] = "get" /\ records[name(c)] # NoRecord
        /\ Return(c, "request failed", NoRecord) /\ UNCHANGED listing
     \/ /\ pc[c] = "list get"
        /\ \E n \in Names : IsNextKey(c, n) /\ records[n] # NoRecord /\ SkipKey(c, n)

\* S3 carried the request out, and its answer arrived or got lost.
Carried(c, answered) ==
  \/ answered /\ UNCHANGED << listing, losses >>
  \/ Unanswered(c)

\* A request got lost before S3 saw it, or the answer to a read got lost.
RequestLost(c) ==
  /\ pc[c] # "idle"
  /\ Unanswered(c) \/ BodyLost(c)
  /\ UNCHANGED << bucket, arg, holds, steady, crashes >>

\* Names that still carry the record they had when client d began to list.
Observe == steady' = [d \in Clients |->
                        {n \in steady[d] : records'[n] = records[n]}]

-----------------------------------------------------------------------------
(***************************************************************************)
(* GetState, SaveState.                                                    *)
(***************************************************************************)

\* A call begins: q is the first request it sends, a its arguments.
Begin(c, rpc, q, a) ==
  /\ rpc \in RPCs[c]
  /\ pc[c] = "idle"
  /\ pc' = [pc EXCEPT ![c] = q]
  /\ reply' = [reply EXCEPT ![c] = NoReply]
  /\ arg' = [arg EXCEPT ![c] = a]
  /\ listing' = [listing EXCEPT ![c] = NoListing]
  /\ steady' = [steady EXCEPT ![c] =
                  IF rpc = "list" THEN {n \in Names : records[n] # NoRecord} ELSE {}]
  /\ UNCHANGED << bucket, tries, budget >>

GetState(c, id) ==
  /\ Begin(c, "get", "get", Args(id))
  /\ UNCHANGED holds

GetObject(c) ==
  /\ pc[c] = "get"
  /\ LET rec == records[name(c)]
     IN Return(c, IF rec = NoRecord THEN "not found" ELSE "none", rec)
  /\ UNCHANGED << bucket, arg, listing, holds, steady, budget >>

\* base is the record the caller made rec from; the store never sees it.
SaveState(c, rec, base) ==
  /\ \/ /\ rec.id # EmptyID
        /\ Begin(c, "save", "put state",
                 [id |-> rec.id, rec |-> rec, base |-> base, status |-> AnyStatus])
     \/ /\ rec.id = EmptyID /\ "save" \in RPCs[c] /\ pc[c] = "idle"
        /\ reply' = [reply EXCEPT ![c] =
                       [rpc |-> "save", err |-> "empty id", rec |-> NoRecord]]
        /\ UNCHANGED << bucket, pc, arg, tries, listing, steady, budget >>
  /\ UNCHANGED holds

PutState(c) ==
  /\ pc[c] = "put state"
  /\ records' = [records EXCEPT ![name(c)] = arg[c].rec]
  /\ Observe
  /\ Carried(c, Return(c, "none", NoRecord))
  /\ UNCHANGED << locks, mover, arg, holds, crashes >>

-----------------------------------------------------------------------------
(***************************************************************************)
(* ListStates.  A page holds the first PageSize keys after the token, lock *)
(* objects included; the loop reads the state objects of the page one by   *)
(* one and asks for the next page while the answer says it is truncated.   *)
(***************************************************************************)

\* The keys S3 lists in one answer.  (external)
Page(token) ==
  {k \in Keys : /\ k > token
                /\ Cardinality({j \in Keys : token < j /\ j < k}) < PageSize}

\* (faulty variant) Only the first page is read.
IsTruncatedIgnored(token) == FALSE

\* Some key is left after those of the page.  (external)
IsTruncated(token) == \E k \in Keys : k > token /\ k \notin Page(token)

\* The continuation token next that S3 returns with the page.  (external)
IsNextToken(token, next) ==
  \/ Page(token) = {} /\ next = token
  \/ next \in Page(token) /\ \A k \in Page(token) : k <= next

\* Objects of the page the loop reads: lock objects are skipped.
StatesIn(page) == {n \in Names : stateKey(n) \in page}

ListStates(c, status) ==
  /\ Begin(c, "list", "list page", [Args(EmptyID) EXCEPT !.status = status])
  /\ UNCHANGED holds

ListPage(c) ==
  /\ pc[c] = "list page"
  /\ LET l == listing[c]
     IN \E next \in 0 .. 2 * MaxName :
          /\ IsNextToken(l.token, next)
          /\ Continue(c, [token |-> next, todo |-> StatesIn(Page(l.token)),
                          more |-> IsTruncated(l.token), found |-> l.found,
                          skipped |-> l.skipped])
  /\ UNCHANGED << bucket, arg, holds, steady, budget >>

ListGet(c) ==
  /\ pc[c] = "list get"
  /\ \E n \in Names : IsNextKey(c, n) /\ NextKey(c, n, records[n])
  /\ UNCHANGED << bucket, arg, holds, steady, budget >>

-----------------------------------------------------------------------------
(***************************************************************************)
(* DeleteState.                                                            *)
(***************************************************************************)

DeleteState(c, id, base) ==
  /\ Begin(c, "delete", "head state", [Args(id) EXCEPT !.base = base])
  /\ UNCHANGED holds

HeadState(c) ==
  /\ pc[c] = "head state"
  /\ IF records[name(c)] = NoRecord
     THEN Return(c, "not found", NoRecord)
     ELSE Send(c, "delete state")
  /\ UNCHANGED << bucket, arg, listing, holds, steady, budget >>

\* DeleteObject succeeds whether or not the object exists.
RemoveState(c) ==
  /\ pc[c] = "delete state"
  /\ records' = [records EXCEPT ![name(c)] = NoRecord]
  /\ Observe
  /\ Carried(c, Return(c, "none", NoRecord))
  /\ UNCHANGED << locks, mover, arg, holds, crashes >>

-----------------------------------------------------------------------------
(***************************************************************************)
(* Lock, Unlock.                                                           *)
(***************************************************************************)

Lock(c, id) ==
  /\ Begin(c, "lock", "put lock", Args(id))
  /\ UNCHANGED holds

\* (faulty variant) The lock object is written without If-None-Match.
PutLockUnconditional(c) ==
  /\ pc[c] = "put lock"
  /\ locks' = locks \cup {name(c)}
  /\ mover' = {c}
  /\ \/ /\ Return(c, "none", NoRecord)
        /\ holds' = [holds EXCEPT ![c] = @ \cup {arg[c].id}]
        /\ UNCHANGED << listing, losses >>
     \/ Unanswered(c) /\ UNCHANGED holds
  /\ UNCHANGED << records, arg, steady, crashes >>

\* (faulty variant) A Lock that is refused cleans up the lock object.
PutLockCleanup(c) ==
  /\ pc[c] = "put lock"
  /\ \/ /\ name(c) \in locks
        /\ locks' = locks \ {name(c)}
        /\ mover' = {c}
        /\ Return(c, "already locked", NoRecord)
        /\ UNCHANGED holds
     \/ /\ name(c) \notin locks
        /\ locks' = locks \cup {name(c)}
        /\ mover' = {c}
        /\ Return(c, "none", NoRecord)
        /\ holds' = [holds EXCEPT ![c] = @ \cup {arg[c].id}]
  /\ UNCHANGED << records, arg, listing, steady, budget >>

\* PutObject with If-None-Match: * creates the lock object or answers 412.
PutLock(c) ==
  /\ pc[c] = "put lock"
  /\ \/ /\ name(c) \in locks
        /\ Return(c, "already locked", NoRecord)
        /\ UNCHANGED << locks, mover, listing, holds, losses >>
     \/ /\ name(c) \notin locks
        /\ locks' = locks \cup {name(c)}
        /\ mover' = {c}
        /\ Return(c, "none", NoRecord)
        /\ holds' = [holds EXCEPT ![c] = @ \cup {arg[c].id}]
        /\ UNCHANGED << listing, losses >>
     \/ /\ name(c) \notin locks
        /\ locks' = locks \cup {name(c)}
        /\ mover' = {c}
        /\ Unanswered(c)
        /\ UNCHANGED holds
  /\ UNCHANGED << records, arg, steady, crashes >>

\* The caller stops relying on the lock when it calls Unlock.
Unlock(c, id) ==
  /\ Begin(c, "unlock", "head lock", Args(id))
  /\ holds' = [holds EXCEPT ![c] = @ \ {id}]

\* (faulty variant) HeadObject asks for another key, which never exists.
HeadLockWrongKey(c) ==
  /\ pc[c] = "head lock"
  /\ Return(c, "not locked", NoRecord)
  /\ UNCHANGED << bucket, arg, listing, holds, steady, budget >>

HeadLock(c) ==
  /\ pc[c] = "head lock"
  /\ IF name(c) \notin locks
     THEN Return(c, "not locked", NoRecord)
     ELSE Send(c, "delete lock")
  /\ UNCHANGED << bucket, arg, listing, holds, steady, budget >>

\* (faulty variant) Unlock deletes the state object instead of the lock object.
RemoveLockWrongKey(c) ==
  /\ pc[c] = "delete lock"
  /\ records' = [records EXCEPT ![name(c)] = NoRecord]
  /\ Carried(c, Return(c, "none", NoRecord))
  /\ UNCHANGED << locks, mover, arg, holds, steady, crashes >>

\* (faulty variant) Unlock sends DeleteObject again until it is answered.
RemoveLockUntilAnswered(c) ==
  /\ pc[c] = "delete lock"
  /\ locks' = locks \ {name(c)}
  /\ mover' = IF name(c) \in locks THEN {c} ELSE mover
  /\ \/ Return(c, "none", NoRecord) /\ UNCHANGED << listing, losses >>
     \/ /\ losses > 0
        /\ losses' = losses - 1
        /\ UNCHANGED << pc, tries, reply, listing >>
  /\ UNCHANGED << records, arg, holds, steady, crashes >>

RemoveLock(c) ==
  /\ pc[c] = "delete lock"
  /\ locks' = locks \ {name(c)}
  /\ mover' = IF name(c) \in locks THEN {c} ELSE mover
  /\ Carried(c, Return(c, "none", NoRecord))
  /\ UNCHANGED << records, arg, holds, steady, crashes >>

-----------------------------------------------------------------------------
\* A client crashes between two requests and starts again with nothing.
Crash(c) ==
  /\ crashes > 0
  /\ crashes' = crashes - 1
  /\ pc' = [pc EXCEPT ![c] = "idle"]
  /\ tries' = [tries EXCEPT ![c] = 0]
  /\ reply' = [reply EXCEPT ![c] = NoReply]
  /\ listing' = [listing EXCEPT ![c] = NoListing]
  /\ holds' = [holds EXCEPT ![c] = {}]
  /\ steady' = [steady EXCEPT ![c] = {}]
  /\ UNCHANGED << bucket, arg, losses >>

\* One request of a call is carried out and answered (or its answer is lost).
Serve(c) ==
  \/ GetObject(c) \/ PutState(c) \/ ListPage(c) \/ ListGet(c)
  \/ HeadState(c) \/ RemoveState(c)
  \/ PutLock(c) \/ HeadLock(c) \/ RemoveLock(c)

\* Any caller may issue any RPC at any time: the lock is advisory.
Issue(c) ==
  \/ \E id \in ResourceIDs :
       GetState(c, id) \/ DeleteState(c, id, NoRecord) \/ Lock(c, id) \/ Unlock(c, id)
  \/ \E id \in ResourceIDs \cup {EmptyID}, s \in Statuses :
       SaveState(c, [id |-> id, status |-> s, rev |-> 0], NoRecord)
  \/ \E s \in Statuses \cup {AnyStatus} : ListStates(c, s)

Next == \E c \in Clients : Issue(c) \/ Serve(c) \/ RequestLost(c) \/ Crash(c)

Spec == Init /\ [][Next]_vars

-----------------------------------------------------------------------------
(***************************************************************************)
(* Properties.                                                             *)
(***************************************************************************)

TypeOK ==
  /\ records \in [Names -> Record \cup {NoRecord}]
  /\ locks \in SUBSET Names
  /\ mover \in SUBSET Clients
  /\ pc \in [Clients -> Requests \cup {"idle"}]
  /\ arg \in [Clients -> [id : ResourceIDs \cup {EmptyID},
                          rec : Record \cup {NoRecord},
                          base : Record \cup {NoRecord},
                          status : Statuses \cup {AnyStatus}]]
  /\ tries \in [Clients -> 0 .. MaxAttempts - 1]
  /\ listing \in [Clients -> [token : 0 .. 2 * MaxName, todo : SUBSET Names,
                              more : BOOLEAN, found : Seq(Record),
                              skipped : SUBSET Names]]
  /\ reply \in [Clients -> [rpc : {"none", "get", "save", "list", "delete",
                                   "lock", "unlock"},
                            err : Errors, rec : Record \cup {NoRecord}]]
  /\ holds \in [Clients -> SUBSET (ResourceIDs \cup {EmptyID})]
  /\ steady \in [Clients -> SUBSET Names]
  /\ losses \in 0 .. MaxLosses
  /\ crashes \in 0 .. MaxCrashes

Listed(c) == reply[c].rpc = "list" /\ reply[c].err = "none"

\* When ListStates succeeds, its result holds every matching record that was
\* in the bucket, unchanged, from the call to the return, whatever was saved,
\* deleted, locked or unlocked between its pages, but for the objects it could
\* not read, of which there is at most one for every request or answer that got
\* lost; and no resource twice, although the pages are taken at different times.
ListExact ==
  \A c \in Clients :
    /\ Listed(c) =>
         \A n \in steady[c] \ listing[c].skipped :
           matchesFilter(records[n], arg[c].status) =>
             \E i \in DOMAIN listing[c].found : listing[c].found[i] = records[n]
    /\ Cardinality(listing[c].skipped) <= MaxLosses - losses
    /\ \A i, j \in DOMAIN listing[c].found :
         listing[c].found[i].id = listing[c].found[j].id => i = j
=============================================================================
