-------------------------- MODULE StateSessionProofs --------------------------
(***************************************************************************)
(* The state store and the sessions of its hosts, for any number of        *)
(* clients, any resource IDs and any naming of their objects: types, the   *)
(* exclusion of sessions, and what a listing returns.  First the types of  *)
(* the store by itself.                                                    *)
(***************************************************************************)
EXTENDS StateSession, FiniteSetTheorems, TLAPS

RPCNames    == {"none", "get", "save", "list", "delete", "lock", "unlock"}
MaybeRecord == Record \cup {NoRecord}
ReplyType   == [rpc : RPCNames, err : Errors, rec : MaybeRecord]
ArgType     == [id : ResourceIDs \cup {EmptyID}, rec : MaybeRecord,
                base : MaybeRecord, status : Statuses \cup {AnyStatus}]
ListingType == [token : 0 .. 2 * MaxName, todo : SUBSET Names, more : BOOLEAN,
                found : Seq(Record), skipped : SUBSET Names]

\* The parts of TypeOK about what Return, Send and Unanswered change.
PcOK      == pc \in [Clients -> Requests \cup {"idle"}]
TriesOK   == tries \in [Clients -> 0 .. MaxAttempts - 1]
ReplyOK   == reply \in [Clients -> ReplyType]
ListingOK == listing \in [Clients -> ListingType]
LossesOK  == losses \in 0 .. MaxLosses

\* TypeOK, part by part.
LEMMA TypeParts ==
  TypeOK <=>
    /\ records \in [Names -> MaybeRecord]
    /\ locks \in SUBSET Names
    /\ mover \in SUBSET Clients
    /\ arg \in [Clients -> ArgType]
    /\ holds \in [Clients -> SUBSET (ResourceIDs \cup {EmptyID})]
    /\ steady \in [Clients -> SUBSET Names]
    /\ crashes \in 0 .. MaxCrashes
    /\ PcOK /\ TriesOK /\ ReplyOK /\ ListingOK /\ LossesOK
BY DEF TypeOK, MaybeRecord, ArgType, PcOK, TriesOK, ReplyOK, ReplyType, RPCNames,
       ListingOK, ListingType, LossesOK

LEMMA TypePartsNext ==
  TypeOK' <=>
    /\ records' \in [Names -> MaybeRecord]
    /\ locks' \in SUBSET Names
    /\ mover' \in SUBSET Clients
    /\ arg' \in [Clients -> ArgType]
    /\ holds' \in [Clients -> SUBSET (ResourceIDs \cup {EmptyID})]
    /\ steady' \in [Clients -> SUBSET Names]
    /\ crashes' \in 0 .. MaxCrashes
    /\ PcOK' /\ TriesOK' /\ ReplyOK' /\ ListingOK' /\ LossesOK'
BY DEF TypeOK, MaybeRecord, ArgType, PcOK, TriesOK, ReplyOK, ReplyType, RPCNames,
       ListingOK, ListingType, LossesOK

\* Every answer is of the RPC its request belongs to.
LEMMA RpcType == \A q \in Requests : rpcOf[q] \in RPCNames
BY DEF rpcOf, Requests, RPCNames

\* The object a call is about has a name.
LEMMA NameType == ASSUME TypeOK, NEW c \in Clients PROVE name(c) \in Names
BY StoreAssumption, TypeParts DEF name, StoreAssumption, ArgType

\* Return, Send and Continue keep the local state of calls well typed.
LEMMA ReturnType ==
  ASSUME TypeOK, NEW c \in Clients, pc[c] \in Requests,
         NEW err \in Errors, NEW rec \in MaybeRecord, Return(c, err, rec)
  PROVE  PcOK' /\ TriesOK' /\ ReplyOK'
<1>1. rpcOf[pc[c]] \in RPCNames
  BY RpcType
<1>2. 0 \in 0 .. MaxAttempts - 1
  BY StoreAssumption DEF StoreAssumption
<1>3. [rpc |-> rpcOf[pc[c]], err |-> err, rec |-> rec] \in ReplyType
  BY <1>1 DEF ReplyType
<1>4. QED
  BY <1>2, <1>3, TypeParts DEF Return, PcOK, TriesOK, ReplyOK

LEMMA SendType ==
  ASSUME TypeOK, NEW c \in Clients, NEW q \in Requests, Send(c, q)
  PROVE  PcOK' /\ TriesOK' /\ ReplyOK'
<1>1. 0 \in 0 .. MaxAttempts - 1
  BY StoreAssumption DEF StoreAssumption
<1>2. QED
  BY <1>1, TypeParts DEF Send, PcOK, TriesOK, ReplyOK

LEMMA ContinueType ==
  ASSUME TypeOK, NEW c \in Clients, pc[c] \in Requests,
         NEW l \in ListingType, Continue(c, l)
  PROVE  PcOK' /\ TriesOK' /\ ReplyOK' /\ ListingOK'
<1>1. ListingOK'
  BY TypeParts DEF Continue, ListingOK
<1>2. CASE l.todo # {}
  BY <1>1, <1>2, SendType DEF Continue, Requests
<1>3. CASE l.todo = {} /\ l.more
  BY <1>1, <1>3, SendType DEF Continue, Requests
<1>4. CASE l.todo = {} /\ ~l.more
  BY <1>1, <1>4, ReturnType DEF Continue, Errors, MaybeRecord
<1>5. QED
  BY <1>2, <1>3, <1>4

LEMMA NextKeyType ==
  ASSUME TypeOK, NEW c \in Clients, pc[c] \in Requests,
         NEW n \in Names, NEW rec \in MaybeRecord, NextKey(c, n, rec)
  PROVE  PcOK' /\ TriesOK' /\ ReplyOK' /\ ListingOK'
<1> DEFINE l == listing[c]
           keep == rec # NoRecord /\ matchesFilter(rec, arg[c].status)
           found == IF keep THEN Append(l.found, rec) ELSE l.found
           next == [token |-> l.token, todo |-> l.todo \ {n}, more |-> l.more,
                    found |-> found, skipped |-> l.skipped]
<1>1. l \in ListingType
  BY TypeParts DEF ListingOK
<1>2. found \in Seq(Record)
  <2>1. l.found \in Seq(Record)
    BY <1>1 DEF ListingType
  <2>2. CASE keep
    <3>1. rec \in Record
      BY <2>2 DEF MaybeRecord
    <3>2. QED
      BY <2>1, <2>2, <3>1
  <2>3. QED
    BY <2>1, <2>2
<1>3. next \in ListingType
  BY <1>1, <1>2 DEF ListingType
<1>4. Continue(c, next)
  BY DEF NextKey
<1>5. QED
  BY <1>3, <1>4, ContinueType

LEMMA SkipKeyType ==
  ASSUME TypeOK, NEW c \in Clients, pc[c] \in Requests, NEW n \in Names, SkipKey(c, n)
  PROVE  PcOK' /\ TriesOK' /\ ReplyOK' /\ ListingOK'
<1> DEFINE l == listing[c]
           next == [token |-> l.token, todo |-> l.todo \ {n}, more |-> l.more,
                    found |-> l.found, skipped |-> l.skipped \cup {n}]
<1>1. l \in ListingType
  BY TypeParts DEF ListingOK
<1>2. next \in ListingType
  BY <1>1 DEF ListingType
<1>3. Continue(c, next)
  BY DEF SkipKey
<1>4. QED
  BY <1>2, <1>3, ContinueType

LEMMA LossType ==
  ASSUME TypeOK, losses > 0, losses' = losses - 1
  PROVE  LossesOK'
<1>1. losses \in 0 .. MaxLosses
  BY TypeParts DEF LossesOK
<1>2. QED
  BY <1>1, StoreAssumption DEF LossesOK, StoreAssumption

LEMMA UnansweredType ==
  ASSUME TypeOK, NEW c \in Clients, pc[c] \in Requests, Unanswered(c)
  PROVE  PcOK' /\ TriesOK' /\ ReplyOK' /\ ListingOK' /\ LossesOK'
<1>1. LossesOK'
  BY LossType DEF Unanswered
<1>2. CASE tries[c] + 1 < MaxAttempts
  <2>1. tries[c] + 1 \in 0 .. MaxAttempts - 1
    BY <1>2, StoreAssumption, TypeParts DEF TriesOK, StoreAssumption
  <2>2. QED
    BY <1>1, <1>2, <2>1, TypeParts DEF Unanswered, PcOK, TriesOK, ReplyOK, ListingOK
<1>3. CASE ~(tries[c] + 1 < MaxAttempts) /\ pc[c] = "list get"
  <2>1. PICK n \in Names : SkipKey(c, n)
    BY <1>3 DEF Unanswered
  <2>2. QED
    BY <1>1, <2>1, SkipKeyType
<1>4. CASE ~(tries[c] + 1 < MaxAttempts) /\ pc[c] # "list get"
  <2>1. Return(c, "request failed", NoRecord) /\ UNCHANGED listing
    BY <1>4 DEF Unanswered
  <2>2. "request failed" \in Errors /\ NoRecord \in MaybeRecord
    BY DEF Errors, MaybeRecord
  <2>3. QED
    BY <1>1, <2>1, <2>2, ReturnType, TypeParts DEF ListingOK
<1>5. QED
  BY <1>2, <1>3, <1>4

LEMMA BodyLostType ==
  ASSUME TypeOK, NEW c \in Clients, pc[c] \in Requests, BodyLost(c)
  PROVE  PcOK' /\ TriesOK' /\ ReplyOK' /\ ListingOK' /\ LossesOK'
<1>1. LossesOK'
  BY LossType DEF BodyLost
<1>2. CASE Return(c, "request failed", NoRecord) /\ UNCHANGED listing
  <2>1. "request failed" \in Errors /\ NoRecord \in MaybeRecord
    BY DEF Errors, MaybeRecord
  <2>2. QED
    BY <1>1, <1>2, <2>1, ReturnType, TypeParts DEF ListingOK
<1>3. CASE \E n \in Names : SkipKey(c, n)
  BY <1>1, <1>3, SkipKeyType
<1>4. QED
  BY <1>2, <1>3 DEF BodyLost

LEMMA CarriedType ==
  ASSUME TypeOK, NEW c \in Clients, pc[c] \in Requests,
         Carried(c, Return(c, "none", NoRecord))
  PROVE  PcOK' /\ TriesOK' /\ ReplyOK' /\ ListingOK' /\ LossesOK'
<1>1. "none" \in Errors /\ NoRecord \in MaybeRecord
  BY DEF Errors, MaybeRecord
<1>2. CASE Return(c, "none", NoRecord) /\ UNCHANGED << listing, losses >>
  BY <1>1, <1>2, ReturnType, TypeParts DEF ListingOK, LossesOK
<1>3. CASE Unanswered(c)
  BY <1>3, UnansweredType
<1>4. QED
  BY <1>2, <1>3 DEF Carried

-----------------------------------------------------------------------------
\* Calls begin well typed.
LEMMA BeginType ==
  ASSUME TypeOK, NEW c \in Clients, NEW rpc, NEW q \in Requests,
         NEW a \in ArgType, Begin(c, rpc, q, a), holds' \in [Clients -> SUBSET (ResourceIDs \cup {EmptyID})]
  PROVE  TypeOK'
<1>1. NoReply \in ReplyType
  BY DEF NoReply, ReplyType, RPCNames, Errors, MaybeRecord
<1>2. NoListing \in ListingType
  BY StoreAssumption DEF NoListing, ListingType, StoreAssumption
<1>3. PcOK' /\ ReplyOK' /\ ListingOK' /\ arg' \in [Clients -> ArgType]
  BY <1>1, <1>2, TypeParts DEF Begin, PcOK, ReplyOK, ListingOK
<1>4. steady' \in [Clients -> SUBSET Names]
  BY TypeParts DEF Begin
<1>5. TriesOK' /\ LossesOK' /\ crashes' \in 0 .. MaxCrashes
      /\ records' \in [Names -> MaybeRecord] /\ locks' \in SUBSET Names
      /\ mover' \in SUBSET Clients
  BY TypeParts DEF Begin, bucket, budget, TriesOK, LossesOK
<1>6. QED
  BY <1>3, <1>4, <1>5, TypePartsNext

LEMMA ArgsType ==
  ASSUME NEW id \in ResourceIDs \cup {EmptyID}
  PROVE  Args(id) \in ArgType
BY DEF Args, ArgType, MaybeRecord

LEMMA GetStateType ==
  ASSUME TypeOK, NEW c \in Clients, NEW id \in ResourceIDs, GetState(c, id)
  PROVE  TypeOK'
BY BeginType, ArgsType, TypeParts DEF GetState, Requests

LEMMA SaveStateType ==
  ASSUME TypeOK, NEW c \in Clients, NEW rec, rec.id = EmptyID \/ rec \in Record,
         NEW base \in MaybeRecord, SaveState(c, rec, base)
  PROVE  TypeOK'
<1>1. CASE rec.id # EmptyID
  <2>1. [id |-> rec.id, rec |-> rec, base |-> base, status |-> AnyStatus] \in ArgType
    BY <1>1 DEF Args, ArgType, MaybeRecord, Record
  <2>2. Begin(c, "save", "put state", [id |-> rec.id, rec |-> rec, base |-> base, status |-> AnyStatus])
        /\ UNCHANGED holds
    BY <1>1 DEF SaveState
  <2>3. QED
    BY <2>1, <2>2, BeginType, TypeParts DEF Requests
<1>2. CASE rec.id = EmptyID
  <2>1. [rpc |-> "save", err |-> "empty id", rec |-> NoRecord] \in ReplyType
    BY DEF ReplyType, RPCNames, Errors, MaybeRecord
  <2>2. ReplyOK'
    BY <1>2, <2>1, TypeParts DEF SaveState, ReplyOK
  <2>3. QED
    BY <1>2, <2>2, TypeParts, TypePartsNext DEF SaveState, bucket, budget, PcOK, TriesOK,
       ListingOK, LossesOK
<1>3. QED
  BY <1>1, <1>2

LEMMA ListStatesType ==
  ASSUME TypeOK, NEW c \in Clients, NEW status \in Statuses \cup {AnyStatus},
         ListStates(c, status)
  PROVE  TypeOK'
<1>1. [Args(EmptyID) EXCEPT !.status = status] \in ArgType
  BY DEF Args, ArgType, MaybeRecord
<1>2. QED
  BY <1>1, BeginType, TypeParts DEF ListStates, Requests

LEMMA DeleteStateType ==
  ASSUME TypeOK, NEW c \in Clients, NEW id \in ResourceIDs, NEW base \in MaybeRecord,
         DeleteState(c, id, base)
  PROVE  TypeOK'
<1>1. [Args(id) EXCEPT !.base = base] \in ArgType
  BY DEF Args, ArgType, MaybeRecord
<1>2. QED
  BY <1>1, BeginType, TypeParts DEF DeleteState, Requests

LEMMA LockType ==
  ASSUME TypeOK, NEW c \in Clients, NEW id \in ResourceIDs, Lock(c, id)
  PROVE  TypeOK'
BY BeginType, ArgsType, TypeParts DEF Lock, Requests

LEMMA UnlockType ==
  ASSUME TypeOK, NEW c \in Clients, NEW id \in ResourceIDs, Unlock(c, id)
  PROVE  TypeOK'
BY BeginType, ArgsType, TypeParts DEF Unlock, Requests

-----------------------------------------------------------------------------
\* Requests keep the state well typed.
LEMMA RequestLostType ==
  ASSUME TypeOK, NEW c \in Clients, RequestLost(c)
  PROVE  TypeOK'
<1>1. pc[c] \in Requests
  BY TypeParts DEF RequestLost, PcOK
<1>2. QED
  BY <1>1, UnansweredType, BodyLostType, TypeParts, TypePartsNext DEF RequestLost, bucket

LEMMA GetObjectType ==
  ASSUME TypeOK, NEW c \in Clients, GetObject(c)
  PROVE  TypeOK'
<1>1. pc[c] \in Requests
  BY DEF GetObject, Requests
<1>2. records[name(c)] \in MaybeRecord
  BY NameType, TypeParts
<1>3. PcOK' /\ TriesOK' /\ ReplyOK'
  BY <1>1, <1>2, ReturnType DEF GetObject, Errors
<1>4. QED
  BY <1>3, TypeParts, TypePartsNext DEF GetObject, bucket, budget, ListingOK, LossesOK

LEMMA ObserveType == ASSUME TypeOK, Observe PROVE steady' \in [Clients -> SUBSET Names]
BY TypeParts DEF Observe

LEMMA PutStateType ==
  ASSUME TypeOK, NEW c \in Clients, PutState(c)
  PROVE  TypeOK'
<1>1. pc[c] \in Requests
  BY DEF PutState, Requests
<1>2. arg[c].rec \in MaybeRecord
  BY TypeParts DEF ArgType
<1>3. records' \in [Names -> MaybeRecord]
  BY <1>2, TypeParts DEF PutState
<1>4. QED
  BY <1>1, <1>3, CarriedType, ObserveType, TypeParts, TypePartsNext DEF PutState

LEMMA ListPageType ==
  ASSUME TypeOK, NEW c \in Clients, ListPage(c)
  PROVE  TypeOK'
<1> DEFINE l == listing[c]
<1>1. pc[c] \in Requests
  BY DEF ListPage, Requests
<1>2. PICK next \in 0 .. 2 * MaxName :
         Continue(c, [token |-> next, todo |-> StatesIn(Page(l.token)),
                      more |-> IsTruncated(l.token), found |-> l.found,
                      skipped |-> l.skipped])
  BY DEF ListPage
<1>3. l.found \in Seq(Record) /\ l.skipped \subseteq Names
  BY TypeParts DEF ListingOK, ListingType
<1>4. [token |-> next, todo |-> StatesIn(Page(l.token)),
       more |-> IsTruncated(l.token), found |-> l.found, skipped |-> l.skipped] \in ListingType
  BY <1>3 DEF ListingType, StatesIn, IsTruncated
<1>5. PcOK' /\ TriesOK' /\ ReplyOK' /\ ListingOK'
  BY <1>1, <1>2, <1>4, ContinueType
<1>6. QED
  BY <1>5, TypeParts, TypePartsNext DEF ListPage, bucket, budget, LossesOK

LEMMA ListGetType ==
  ASSUME TypeOK, NEW c \in Clients, ListGet(c)
  PROVE  TypeOK'
<1>1. pc[c] \in Requests
  BY DEF ListGet, Requests
<1>2. PICK n \in Names : NextKey(c, n, records[n])
  BY DEF ListGet
<1>3. records[n] \in MaybeRecord
  BY TypeParts
<1>4. PcOK' /\ TriesOK' /\ ReplyOK' /\ ListingOK'
  BY <1>1, <1>2, <1>3, NextKeyType
<1>5. QED
  BY <1>4, TypeParts, TypePartsNext DEF ListGet, bucket, budget, LossesOK

LEMMA HeadStateType ==
  ASSUME TypeOK, NEW c \in Clients, HeadState(c)
  PROVE  TypeOK'
<1>1. pc[c] \in Requests /\ "delete state" \in Requests
  BY DEF HeadState, Requests
<1>2. "not found" \in Errors /\ NoRecord \in MaybeRecord
  BY DEF Errors, MaybeRecord
<1>3. PcOK' /\ TriesOK' /\ ReplyOK'
  BY <1>1, <1>2, ReturnType, SendType DEF HeadState
<1>4. QED
  BY <1>3, TypeParts, TypePartsNext DEF HeadState, bucket, budget, ListingOK, LossesOK

LEMMA RemoveStateType ==
  ASSUME TypeOK, NEW c \in Clients, RemoveState(c)
  PROVE  TypeOK'
<1>1. pc[c] \in Requests
  BY DEF RemoveState, Requests
<1>2. records' \in [Names -> MaybeRecord]
  BY TypeParts DEF RemoveState, MaybeRecord
<1>3. QED
  BY <1>1, <1>2, CarriedType, ObserveType, TypeParts, TypePartsNext DEF RemoveState

LEMMA PutLockType ==
  ASSUME TypeOK, NEW c \in Clients, PutLock(c)
  PROVE  TypeOK'
<1>1. pc[c] \in Requests /\ name(c) \in Names /\ arg[c].id \in ResourceIDs \cup {EmptyID}
  BY NameType, TypeParts DEF PutLock, Requests, ArgType
<1>2. "none" \in Errors /\ "already locked" \in Errors /\ NoRecord \in MaybeRecord
  BY DEF Errors, MaybeRecord
<1>3. records' \in [Names -> MaybeRecord] /\ arg' \in [Clients -> ArgType]
      /\ steady' \in [Clients -> SUBSET Names] /\ crashes' \in 0 .. MaxCrashes
  BY TypeParts DEF PutLock
<1>4. CASE /\ Return(c, "already locked", NoRecord)
           /\ UNCHANGED << locks, mover, listing, holds, losses >>
  BY <1>1, <1>2, <1>3, <1>4, ReturnType, TypeParts, TypePartsNext DEF ListingOK, LossesOK
<1>5. CASE /\ locks' = locks \cup {name(c)} /\ mover' = {c}
           /\ Return(c, "none", NoRecord)
           /\ holds' = [holds EXCEPT ![c] = @ \cup {arg[c].id}]
           /\ UNCHANGED << listing, losses >>
  <2>1. PcOK' /\ TriesOK' /\ ReplyOK'
    BY <1>1, <1>2, <1>5, ReturnType
  <2>2. locks' \in SUBSET Names /\ mover' \in SUBSET Clients
        /\ holds' \in [Clients -> SUBSET (ResourceIDs \cup {EmptyID})]
    BY <1>1, <1>5, TypeParts
  <2>3. QED
    BY <1>3, <1>5, <2>1, <2>2, TypeParts, TypePartsNext DEF ListingOK, LossesOK
<1>6. CASE /\ locks' = locks \cup {name(c)} /\ mover' = {c}
           /\ Unanswered(c) /\ UNCHANGED holds
  <2>1. PcOK' /\ TriesOK' /\ ReplyOK' /\ ListingOK' /\ LossesOK'
    BY <1>1, <1>6, UnansweredType
  <2>2. locks' \in SUBSET Names /\ mover' \in SUBSET Clients
    BY <1>1, <1>6, TypeParts
  <2>3. QED
    BY <1>3, <1>6, <2>1, <2>2, TypeParts, TypePartsNext
<1>7. QED
  BY <1>4, <1>5, <1>6 DEF PutLock

LEMMA HeadLockType ==
  ASSUME TypeOK, NEW c \in Clients, HeadLock(c)
  PROVE  TypeOK'
<1>1. pc[c] \in Requests /\ "delete lock" \in Requests
  BY DEF HeadLock, Requests
<1>2. "not locked" \in Errors /\ NoRecord \in MaybeRecord
  BY DEF Errors, MaybeRecord
<1>3. PcOK' /\ TriesOK' /\ ReplyOK'
  BY <1>1, <1>2, ReturnType, SendType DEF HeadLock
<1>4. QED
  BY <1>3, TypeParts, TypePartsNext DEF HeadLock, bucket, budget, ListingOK, LossesOK

LEMMA RemoveLockType ==
  ASSUME TypeOK, NEW c \in Clients, RemoveLock(c)
  PROVE  TypeOK'
<1>1. pc[c] \in Requests
  BY DEF RemoveLock, Requests
<1>2. QED
  BY <1>1, CarriedType, TypeParts, TypePartsNext DEF RemoveLock

LEMMA CrashType ==
  ASSUME TypeOK, NEW c \in Clients, Crash(c)
  PROVE  TypeOK'
<1>1. NoReply \in ReplyType /\ NoListing \in ListingType /\ 0 \in 0 .. MaxAttempts - 1
  BY StoreAssumption DEF NoReply, ReplyType, RPCNames, Errors, MaybeRecord, NoListing,
     ListingType, StoreAssumption
<1>2. PcOK' /\ TriesOK' /\ ReplyOK' /\ ListingOK'
  BY <1>1, TypeParts DEF Crash, PcOK, TriesOK, ReplyOK, ListingOK
<1>3. crashes' \in 0 .. MaxCrashes
  <2>1. crashes > 0 /\ crashes' = crashes - 1 /\ crashes \in 0 .. MaxCrashes
    BY TypeParts DEF Crash
  <2>2. QED
    BY <2>1, StoreAssumption DEF StoreAssumption
<1>4. holds' \in [Clients -> SUBSET (ResourceIDs \cup {EmptyID})]
      /\ steady' \in [Clients -> SUBSET Names]
  BY TypeParts DEF Crash
<1>5. QED
  BY <1>2, <1>3, <1>4, TypeParts, TypePartsNext DEF Crash, bucket, LossesOK

-----------------------------------------------------------------------------
LEMMA InitType == Init => TypeOK
<1> SUFFICES ASSUME Init PROVE TypeOK
  OBVIOUS
<1>1. NoReply \in ReplyType /\ NoListing \in ListingType /\ 0 \in 0 .. MaxAttempts - 1
  BY StoreAssumption DEF NoReply, ReplyType, RPCNames, Errors, MaybeRecord, NoListing,
     ListingType, StoreAssumption
<1>2. Args(EmptyID) \in ArgType
  BY ArgsType
<1>3. PcOK /\ TriesOK /\ ReplyOK /\ ListingOK /\ arg \in [Clients -> ArgType]
  BY <1>1, <1>2 DEF Init, PcOK, TriesOK, ReplyOK, ListingOK
<1>4. LossesOK /\ crashes \in 0 .. MaxCrashes
  BY StoreAssumption DEF Init, LossesOK, StoreAssumption
<1>5. records \in [Names -> MaybeRecord] /\ locks \in SUBSET Names /\ mover \in SUBSET Clients
      /\ holds \in [Clients -> SUBSET (ResourceIDs \cup {EmptyID})]
      /\ steady \in [Clients -> SUBSET Names]
  BY DEF Init, MaybeRecord
<1>6. QED
  BY <1>3, <1>4, <1>5, TypeParts

\* Whatever request S3 carries out, gets lost, or is cut short by a crash.
LEMMA StoreStepType ==
  ASSUME TypeOK, NEW c \in Clients, Serve(c) \/ RequestLost(c) \/ Crash(c)
  PROVE  TypeOK'
BY GetObjectType, PutStateType, ListPageType, ListGetType, HeadStateType, RemoveStateType,
   PutLockType, HeadLockType, RemoveLockType, RequestLostType, CrashType DEF Serve

LEMMA IssueType ==
  ASSUME TypeOK, NEW c \in Clients, Issue(c)
  PROVE  TypeOK'
<1>1. NoRecord \in MaybeRecord
  BY DEF MaybeRecord
<1>2. CASE \E id \in ResourceIDs :
             GetState(c, id) \/ DeleteState(c, id, NoRecord) \/ Lock(c, id) \/ Unlock(c, id)
  BY <1>1, <1>2, GetStateType, DeleteStateType, LockType, UnlockType
<1>3. CASE \E id \in ResourceIDs \cup {EmptyID}, s \in Statuses :
             SaveState(c, [id |-> id, status |-> s, rev |-> 0], NoRecord)
  <2>1. PICK id \in ResourceIDs \cup {EmptyID}, s \in Statuses :
          SaveState(c, [id |-> id, status |-> s, rev |-> 0], NoRecord)
    BY <1>3
  <2> DEFINE rec == [id |-> id, status |-> s, rev |-> 0]
  <2>2. rec.id = EmptyID \/ rec \in Record
    BY StoreAssumption DEF Record, StoreAssumption
  <2>3. QED
    BY <1>1, <2>1, <2>2, SaveStateType
<1>4. CASE \E s \in Statuses \cup {AnyStatus} : ListStates(c, s)
  BY <1>4, ListStatesType
<1>5. QED
  BY <1>2, <1>3, <1>4 DEF Issue

\* The state store is well typed whatever its callers do, however many they
\* are, and whatever requests get lost: a listing never leaves the keys of the
\* bucket and the SDK never exceeds its attempts (s3.go).
THEOREM TypeCorrect == Spec => []TypeOK
<1>1. Init => TypeOK
  BY InitType
<1>2. TypeOK /\ [Next]_vars => TypeOK'
  <2>1. TypeOK /\ Next => TypeOK'
    BY StoreStepType, IssueType DEF Next
  <2>2. TypeOK /\ UNCHANGED vars => TypeOK'
    BY TypeParts, TypePartsNext DEF vars, PcOK, TriesOK, ReplyOK, ListingOK, LossesOK
  <2>3. QED
    BY <2>1, <2>2
<1>3. QED
  BY <1>1, <1>2, PTL DEF Spec

-----------------------------------------------------------------------------
(***************************************************************************)
(* The lock of the state store excludes sessions, and the store implements *)
(* the abstract lock, for any number of hosts and resources and with       *)
(* crashes anywhere, provided no request whose answer is lost is repeated. *)
(***************************************************************************)

\* The SDK makes one attempt, or no request gets lost.
NoRepeat == MaxAttempts = 1 \/ MaxLosses = 0

-----------------------------------------------------------------------------
\* Sessions are well typed: their steps are steps of the store.
LEMMA SessionType ==
  ASSUME TypeOK, NEW c \in Clients, Session(c)
  PROVE  TypeOK'
<1>1. reply[c].rec \in MaybeRecord
  BY TypeParts DEF ReplyOK, ReplyType
<1>2. PICK id \in ResourceIDs :
         \/ LockSession(c, id)
         \/ ReadSession(c, id)
         \/ \E s \in Statuses : SaveSession(c, id, s)
         \/ DeleteSession(c, id)
         \/ UnlockSession(c, id)
  BY DEF Session
<1>3. CASE LockSession(c, id) \/ ReadSession(c, id) \/ UnlockSession(c, id)
  BY <1>3, LockType, GetStateType, UnlockType DEF LockSession, ReadSession, UnlockSession
<1>4. CASE DeleteSession(c, id)
  BY <1>1, <1>4, DeleteStateType DEF DeleteSession
<1>5. CASE \E s \in Statuses : SaveSession(c, id, s)
  <2>1. PICK s \in Statuses : SaveSession(c, id, s)
    BY <1>5
  <2>2. NextRecord(c, id, s) \in Record
    <3>1. CASE reply[c].rec = NoRecord
      BY <3>1, StoreAssumption DEF NextRecord, Record, StoreAssumption
    <3>2. CASE reply[c].rec # NoRecord
      <4>1. reply[c].rec.rev \in 0 .. MaxRev /\ reply[c].rec.rev < MaxRev
        BY <1>1, <2>1, <3>2 DEF SaveSession, MaybeRecord, Record
      <4>2. reply[c].rec.rev + 1 \in 0 .. MaxRev
        BY <4>1, StoreAssumption DEF StoreAssumption
      <4>3. QED
        BY <3>2, <4>2 DEF NextRecord, Record
    <3>3. QED
      BY <3>1, <3>2
  <2>3. QED
    BY <1>1, <2>1, <2>2, SaveStateType DEF SaveSession
<1>6. QED
  BY <1>2, <1>3, <1>4, <1>5

\* The state store is well typed under the protocol of the hosts.
THEOREM SessionTypeCorrect == SessionSpec => []TypeOK
<1>1. Init => TypeOK
  BY InitType
<1>2. TypeOK /\ [SessionNext]_vars => TypeOK'
  <2>1. TypeOK /\ SessionNext => TypeOK'
    BY StoreStepType, SessionType DEF SessionNext
  <2>2. TypeOK /\ UNCHANGED vars => TypeOK'
    BY TypeParts, TypePartsNext DEF vars, PcOK, TriesOK, ReplyOK, ListingOK, LossesOK
  <2>3. QED
    BY <2>1, <2>2
<1>3. QED
  BY <1>1, <1>2, PTL DEF SessionSpec

-----------------------------------------------------------------------------
\* A request that is not answered is given up, so the call ends or, in
\* ListStates, goes on with another object.
LEMMA GivesUp ==
  ASSUME NoRepeat, TypeOK, NEW c \in Clients, pc[c] \in Requests, Unanswered(c) \/ BodyLost(c)
  PROVE  /\ \E q \in {"idle", "list page", "list get"} : pc' = [pc EXCEPT ![c] = q]
         /\ pc[c] # "list get" => pc' = [pc EXCEPT ![c] = "idle"]
<1>1. losses > 0 /\ losses \in 0 .. MaxLosses /\ tries[c] \in 0 .. MaxAttempts - 1
  BY TypeParts DEF Unanswered, BodyLost, LossesOK, TriesOK
<1>2. ~(tries[c] + 1 < MaxAttempts)
  BY <1>1, StoreAssumption DEF NoRepeat, StoreAssumption
<1>3. CASE pc[c] = "list get"
  <2>1. PICK n \in Names : SkipKey(c, n)
    BY <1>2, <1>3 DEF Unanswered, BodyLost
  <2>2. QED
    BY <1>3, <2>1 DEF SkipKey, Continue, Send, Return
<1>4. CASE pc[c] # "list get"
  BY <1>2, <1>4 DEF Unanswered, BodyLost, Return
<1>5. QED
  BY <1>3, <1>4

\* A step of client c makes no lock object, or one that c never gets to know of.
Unknown(c) ==
  \/ UNCHANGED << locks, mover >>
  \/ name(c) \notin locks /\ locks' = locks \cup {name(c)} /\ mover' = {c}

\* A step of client c is quiet when it neither takes nor frees a lock for c:
\* c may lose the locks it owns, and a lock object may only be added.
Quiet(c) ==
  /\ Unknown(c)
  /\ \E q \in (Requests \cup {"idle"}) \ LockRequests : pc' = [pc EXCEPT ![c] = q]
  /\ \E a \in ArgType : arg' = [arg EXCEPT ![c] = a]
  /\ \E ids \in SUBSET holds[c] : holds' = [holds EXCEPT ![c] = ids]

\* After a quiet step nobody owns a lock it did not own before.
LEMMA QuietOwns ==
  ASSUME TypeOK, NEW c \in Clients, Quiet(c), NEW d \in Clients, NEW n, Owns(d, n)'
  PROVE  Owns(d, n)
<1>1. holds'[d] \subseteq holds[d]
  BY TypeParts DEF Quiet
<1>2. d # c => pc'[d] = pc[d] /\ arg'[d] = arg[d]
  BY TypeParts DEF Quiet, PcOK
<1>3. pc'[c] \notin LockRequests
  BY TypeParts DEF Quiet, PcOK
<1>4. QED
  BY <1>1, <1>2, <1>3 DEF Owns, name, LockRequests

LEMMA QuietKeepsOwnership ==
  ASSUME TypeOK, OwnershipInv, NEW c \in Clients, Quiet(c)
  PROVE  OwnershipInv'
<1>1. UniqueOwner'
  BY QuietOwns DEF OwnershipInv, UniqueOwner
<1>2. OwnedIsLocked'
  BY QuietOwns DEF OwnershipInv, OwnedIsLocked, Quiet, Unknown
<1>3. OneAtATime'
  <2>1. ASSUME NEW d \in Clients
        PROVE  /\ \A i, j \in holds'[d] : i = j
               /\ pc'[d] \in LockRequests => holds'[d] = {}
    <3>1. holds'[d] \subseteq holds[d]
      BY TypeParts DEF Quiet
    <3>2. pc'[d] \in LockRequests => pc'[d] = pc[d]
      BY TypeParts DEF Quiet, PcOK
    <3>3. QED
      BY <3>1, <3>2 DEF OwnershipInv, OneAtATime
  <2>2. QED
    BY <2>1 DEF OneAtATime
<1>4. QED
  BY <1>1, <1>2, <1>3 DEF OwnershipInv

-----------------------------------------------------------------------------
\* The requests that a quiet step ends or leads to.
Other == (Requests \cup {"idle"}) \ LockRequests

LEMMA QuietIf ==
  ASSUME TypeOK, NEW c \in Clients, Unknown(c), UNCHANGED << arg, holds >>,
         NEW q \in Other, pc' = [pc EXCEPT ![c] = q]
  PROVE  Quiet(c)
<1>1. arg' = [arg EXCEPT ![c] = arg[c]] /\ arg[c] \in ArgType
  BY TypeParts
<1>2. holds' = [holds EXCEPT ![c] = holds[c]]
  BY TypeParts
<1>3. QED
  BY <1>1, <1>2 DEF Quiet, Other

LEMMA RequestLostQuiet ==
  ASSUME NoRepeat, TypeOK, NEW c \in Clients, RequestLost(c)
  PROVE  Quiet(c)
<1>1. pc[c] \in Requests
  BY TypeParts DEF RequestLost, PcOK
<1>2. PICK q \in {"idle", "list page", "list get"} : pc' = [pc EXCEPT ![c] = q]
  BY <1>1, GivesUp DEF RequestLost
<1>3. q \in Other
  BY <1>2 DEF Other, Requests, LockRequests
<1>4. QED
  BY <1>2, <1>3, QuietIf DEF RequestLost, bucket, Unknown

\* A request on a state object, or a listing.
LEMMA StateRequestQuiet ==
  ASSUME NoRepeat, TypeOK, NEW c \in Clients,
         GetObject(c) \/ PutState(c) \/ ListPage(c) \/ ListGet(c) \/ HeadState(c) \/ RemoveState(c)
  PROVE  Quiet(c)
<1>1. \A q \in {"idle", "list page", "list get", "delete state"} : q \in Other
  BY DEF Other, Requests, LockRequests
<1>2. UNCHANGED << locks, mover, arg, holds >>
  BY DEF GetObject, PutState, ListPage, ListGet, HeadState, RemoveState, bucket
<1>3. pc[c] \in Requests
  BY DEF GetObject, PutState, ListPage, ListGet, HeadState, RemoveState, Requests
<1>4. \E q \in Other : pc' = [pc EXCEPT ![c] = q]
  <2>1. CASE GetObject(c) \/ HeadState(c)
    BY <1>1, <2>1 DEF GetObject, HeadState, Return, Send
  <2>2. CASE ListPage(c) \/ ListGet(c)
    BY <1>1, <2>2 DEF ListPage, ListGet, NextKey, Continue, Send, Return
  <2>3. CASE PutState(c) \/ RemoveState(c)
    <3>1. Return(c, "none", NoRecord) \/ Unanswered(c)
      BY <2>3 DEF PutState, RemoveState, Carried
    <3>2. CASE Return(c, "none", NoRecord)
      BY <1>1, <3>2 DEF Return
    <3>3. CASE Unanswered(c)
      BY <1>1, <1>3, <3>3, GivesUp
    <3>4. QED
      BY <3>1, <3>2, <3>3
  <2>4. QED
    BY <2>1, <2>2, <2>3
<1>5. QED
  BY <1>2, <1>4, QuietIf DEF Unknown

LEMMA CrashQuiet ==
  ASSUME TypeOK, NEW c \in Clients, Crash(c)
  PROVE  Quiet(c)
<1>1. "idle" \in (Requests \cup {"idle"}) \ LockRequests
  BY DEF LockRequests
<1>2. arg' = [arg EXCEPT ![c] = arg[c]] /\ arg[c] \in ArgType
  BY TypeParts DEF Crash
<1>3. QED
  BY <1>1, <1>2 DEF Quiet, Unknown, Crash, bucket

\* A session reads, saves or deletes: no lock is touched.
LEMMA StateCallQuiet ==
  ASSUME TypeOK, NEW c \in Clients, NEW id \in ResourceIDs,
         \/ ReadSession(c, id)
         \/ \E s \in Statuses : SaveSession(c, id, s)
         \/ DeleteSession(c, id)
  PROVE  Quiet(c)
<1>1. TypeOK'
  BY SessionType DEF Session
<1>2. {"get", "put state", "head state"} \subseteq (Requests \cup {"idle"}) \ LockRequests
  BY DEF Requests, LockRequests
<1>3. holds' = [holds EXCEPT ![c] = holds[c]] /\ UNCHANGED << locks, mover >>
  BY TypeParts DEF ReadSession, SaveSession, DeleteSession, GetState, SaveState, DeleteState,
     Begin, bucket
<1>4. (\E a : arg' = [arg EXCEPT ![c] = a]) /\ arg'[c] \in ArgType
  BY <1>1, TypeParts, TypePartsNext DEF ReadSession, SaveSession, DeleteSession, GetState,
     SaveState, DeleteState, Begin
<1>5. \E a \in ArgType : arg' = [arg EXCEPT ![c] = a]
  BY <1>4, TypeParts
<1>6. \E q \in {"idle", "get", "put state", "head state"} : pc' = [pc EXCEPT ![c] = q]
  <2>1. pc[c] = "idle" => pc = [pc EXCEPT ![c] = "idle"]
    BY TypeParts DEF PcOK
  <2>2. QED
    BY <2>1 DEF ReadSession, SaveSession, DeleteSession, GetState, SaveState, DeleteState, Begin
<1>7. QED
  BY <1>2, <1>3, <1>5, <1>6 DEF Quiet, Unknown, LockRequests

-----------------------------------------------------------------------------
\* The steps that touch a lock.
LEMMA LockSessionOwnership ==
  ASSUME TypeOK, OwnershipInv, NEW c \in Clients, NEW id \in ResourceIDs, LockSession(c, id)
  PROVE  OwnershipInv' /\ \A d \in Clients : \A n : Owns(d, n)' <=> Owns(d, n)
<1>1. /\ pc[c] = "idle" /\ pc' = [pc EXCEPT ![c] = "put lock"]
      /\ arg' = [arg EXCEPT ![c] = Args(id)]
      /\ holds[c] = {} /\ UNCHANGED << locks, holds >>
  BY DEF LockSession, Lock, Begin, bucket
<1>2. \A d \in Clients : \A n : Owns(d, n)' <=> Owns(d, n)
  <2>1. TAKE d \in Clients
  <2>2. CASE d = c
    BY <1>1, <2>2, TypeParts DEF Owns, PcOK
  <2>3. CASE d # c
    BY <1>1, <2>3, TypeParts DEF Owns, PcOK, name
  <2>4. QED
    BY <2>2, <2>3
<1>3. OneAtATime'
  BY <1>1, TypeParts DEF OwnershipInv, OneAtATime, PcOK
<1>4. QED
  BY <1>1, <1>2, <1>3 DEF OwnershipInv, UniqueOwner, OwnedIsLocked

LEMMA UnlockSessionOwnership ==
  ASSUME TypeOK, OwnershipInv, NEW c \in Clients, NEW id \in ResourceIDs, UnlockSession(c, id)
  PROVE  OwnershipInv' /\ \A d \in Clients : \A n : Owns(d, n)' <=> Owns(d, n)
<1>1. /\ pc[c] = "idle" /\ pc' = [pc EXCEPT ![c] = "head lock"]
      /\ arg' = [arg EXCEPT ![c] = Args(id)]
      /\ holds[c] = {id} /\ holds' = [holds EXCEPT ![c] = {}] /\ UNCHANGED locks
  <2>1. id \in holds[c] /\ Unlock(c, id)
    BY DEF UnlockSession
  <2>2. holds[c] = {id}
    BY <2>1 DEF OwnershipInv, OneAtATime
  <2>3. QED
    BY <2>1, <2>2 DEF Unlock, Begin, bucket
<1>2. name(c)' = sanitizeID[id]
  BY <1>1, TypeParts DEF name, Args
<1>3. \A d \in Clients : \A n : Owns(d, n)' <=> Owns(d, n)
  <2>1. TAKE d \in Clients
  <2>2. CASE d = c
    BY <1>1, <1>2, <2>2, TypeParts DEF Owns, PcOK
  <2>3. CASE d # c
    BY <1>1, <2>3, TypeParts DEF Owns, PcOK, name
  <2>4. QED
    BY <2>2, <2>3
<1>4. OneAtATime'
  BY <1>1, TypeParts DEF OwnershipInv, OneAtATime, PcOK
<1>5. QED
  BY <1>1, <1>3, <1>4 DEF OwnershipInv, UniqueOwner, OwnedIsLocked

\* The conditional write creates the lock object: c is its only owner.
PutLockTaken(c) ==
  /\ pc[c] = "put lock"
  /\ name(c) \notin locks
  /\ locks' = locks \cup {name(c)}
  /\ mover' = {c}
  /\ pc' = [pc EXCEPT ![c] = "idle"]
  /\ holds' = [holds EXCEPT ![c] = @ \cup {arg[c].id}]
  /\ UNCHANGED arg

LEMMA PutLockCases ==
  ASSUME NoRepeat, TypeOK, NEW c \in Clients, PutLock(c)
  PROVE  Quiet(c) \/ PutLockTaken(c)
<1>1. pc[c] = "put lock" /\ pc[c] \in Requests /\ "idle" \in Other /\ UNCHANGED arg
  BY DEF PutLock, Requests, Other, LockRequests
<1>2. CASE /\ Return(c, "already locked", NoRecord)
           /\ UNCHANGED << locks, mover, listing, holds, losses >>
  BY <1>1, <1>2, QuietIf DEF Return, Unknown
<1>3. CASE /\ name(c) \notin locks
           /\ locks' = locks \cup {name(c)}
           /\ mover' = {c}
           /\ Return(c, "none", NoRecord)
           /\ holds' = [holds EXCEPT ![c] = @ \cup {arg[c].id}]
  BY <1>1, <1>3 DEF PutLockTaken, Return
<1>4. CASE /\ name(c) \notin locks /\ locks' = locks \cup {name(c)} /\ mover' = {c}
           /\ Unanswered(c) /\ UNCHANGED holds
  <2>1. pc' = [pc EXCEPT ![c] = "idle"]
    BY <1>1, <1>4, GivesUp
  <2>2. QED
    BY <1>1, <1>4, <2>1, QuietIf DEF Unknown
<1>5. QED
  BY <1>2, <1>3, <1>4 DEF PutLock

LEMMA PutLockTakenOwns ==
  ASSUME TypeOK, OwnershipInv, NEW c \in Clients, PutLockTaken(c)
  PROVE  /\ \A n : Owns(c, n)' <=> n = name(c)
         /\ \A d \in Clients \ {c} : \A n : Owns(d, n)' <=> Owns(d, n)
         /\ \A d \in Clients : ~Owns(d, name(c))
         /\ holds'[c] = {arg[c].id} /\ pc'[c] = "idle"
<1>1. holds[c] = {}
  BY DEF OwnershipInv, OneAtATime, PutLockTaken, LockRequests
<1>2. holds'[c] = {arg[c].id} /\ pc'[c] = "idle"
  BY <1>1, TypeParts DEF PutLockTaken, PcOK
<1>3. \A n : Owns(c, n)' <=> n = name(c)
  BY <1>2 DEF Owns, name
<1>4. \A d \in Clients \ {c} : \A n : Owns(d, n)' <=> Owns(d, n)
  BY TypeParts DEF PutLockTaken, Owns, name, PcOK
<1>5. \A d \in Clients : ~Owns(d, name(c))
  BY NameType DEF OwnershipInv, OwnedIsLocked, PutLockTaken
<1>6. QED
  BY <1>2, <1>3, <1>4, <1>5

LEMMA PutLockTakenOwnership ==
  ASSUME TypeOK, OwnershipInv, NEW c \in Clients, PutLockTaken(c)
  PROVE  OwnershipInv'
<1>1. UniqueOwner'
  <2>1. ASSUME NEW n \in Names, NEW d \in Clients, NEW e \in Clients, Owns(d, n)', Owns(e, n)'
        PROVE  d = e
    <3>1. CASE n = name(c)
      BY <2>1, <3>1, PutLockTakenOwns
    <3>2. CASE n # name(c)
      <4>1. Owns(d, n) /\ Owns(e, n)
        BY <2>1, <3>2, PutLockTakenOwns
      <4>2. QED
        BY <4>1 DEF OwnershipInv, UniqueOwner
    <3>3. QED
      BY <3>1, <3>2
  <2>2. QED
    BY <2>1 DEF UniqueOwner
<1>2. OwnedIsLocked'
  BY PutLockTakenOwns DEF OwnershipInv, OwnedIsLocked, PutLockTaken
<1>3. OneAtATime'
  BY PutLockTakenOwns, TypeParts DEF OwnershipInv, OneAtATime, PutLockTaken, PcOK, LockRequests
<1>4. QED
  BY <1>1, <1>2, <1>3 DEF OwnershipInv

\* HeadObject finds the lock object of its owner, always.
LEMMA HeadLockOwnership ==
  ASSUME TypeOK, OwnershipInv, NEW c \in Clients, HeadLock(c)
  PROVE  OwnershipInv' /\ \A d \in Clients : \A n : Owns(d, n)' <=> Owns(d, n)
<1>1. Owns(c, name(c)) /\ name(c) \in locks
  BY NameType DEF HeadLock, Owns, OwnershipInv, OwnedIsLocked
<1>2. /\ pc[c] = "head lock" /\ pc' = [pc EXCEPT ![c] = "delete lock"]
      /\ UNCHANGED << locks, arg, holds >>
  BY <1>1 DEF HeadLock, Send, bucket
<1>3. \A d \in Clients : \A n : Owns(d, n)' <=> Owns(d, n)
  BY <1>2, TypeParts DEF Owns, PcOK, name
<1>4. OneAtATime'
  BY <1>2, TypeParts DEF OwnershipInv, OneAtATime, PcOK, LockRequests
<1>5. QED
  BY <1>2, <1>3, <1>4 DEF OwnershipInv, UniqueOwner, OwnedIsLocked

LEMMA RemoveLockOwns ==
  ASSUME NoRepeat, TypeOK, OwnershipInv, NEW c \in Clients, RemoveLock(c)
  PROVE  /\ Owns(c, name(c)) /\ name(c) \in locks /\ locks' = locks \ {name(c)}
         /\ \A n : ~Owns(c, n)'
         /\ \A d \in Clients \ {c} : \A n : Owns(d, n)' <=> Owns(d, n)
         /\ pc' = [pc EXCEPT ![c] = "idle"] /\ UNCHANGED << holds, arg >> /\ mover' = {c}
<1>1. pc[c] = "delete lock" /\ pc[c] \in Requests /\ locks' = locks \ {name(c)}
      /\ UNCHANGED << holds, arg >>
  BY DEF RemoveLock, Requests
<1>2. pc' = [pc EXCEPT ![c] = "idle"]
  <2>1. CASE Return(c, "none", NoRecord)
    BY <2>1 DEF Return
  <2>2. CASE Unanswered(c)
    BY <1>1, <2>2, GivesUp
  <2>3. QED
    BY <2>1, <2>2 DEF RemoveLock, Carried
<1>3. Owns(c, name(c)) /\ name(c) \in locks
  BY <1>1, NameType DEF Owns, OwnershipInv, OwnedIsLocked
<1>4. holds[c] = {}
  BY <1>1 DEF OwnershipInv, OneAtATime, LockRequests
<1>5. \A n : ~Owns(c, n)'
  BY <1>1, <1>2, <1>4, TypeParts DEF Owns, PcOK
<1>6. \A d \in Clients \ {c} : \A n : Owns(d, n)' <=> Owns(d, n)
  BY <1>1, <1>2, TypeParts DEF Owns, name, PcOK
<1>7. mover' = {c}
  BY <1>3 DEF RemoveLock
<1>8. QED
  BY <1>1, <1>2, <1>3, <1>5, <1>6, <1>7

LEMMA RemoveLockOwnership ==
  ASSUME NoRepeat, TypeOK, OwnershipInv, NEW c \in Clients, RemoveLock(c)
  PROVE  OwnershipInv'
<1>1. UniqueOwner'
  BY RemoveLockOwns DEF OwnershipInv, UniqueOwner
<1>2. OwnedIsLocked'
  BY RemoveLockOwns, NameType DEF OwnershipInv, UniqueOwner, OwnedIsLocked
<1>3. OneAtATime'
  <2>1. pc' = [pc EXCEPT ![c] = "idle"] /\ UNCHANGED holds
    BY RemoveLockOwns
  <2>2. \A d \in Clients : pc'[d] \in LockRequests => pc[d] \in LockRequests
    BY <2>1, TypeParts DEF PcOK, LockRequests
  <2>3. QED
    BY <2>1, <2>2 DEF OwnershipInv, OneAtATime
<1>4. QED
  BY <1>1, <1>2, <1>3 DEF OwnershipInv

-----------------------------------------------------------------------------
\* Every step of a session keeps the ownership of locks.
LEMMA StepOwnership ==
  ASSUME NoRepeat, TypeOK, OwnershipInv, NEW c \in Clients,
         Session(c) \/ Serve(c) \/ RequestLost(c) \/ Crash(c)
  PROVE  OwnershipInv'
<1>1. CASE Session(c)
  BY <1>1, LockSessionOwnership, UnlockSessionOwnership, StateCallQuiet, QuietKeepsOwnership
     DEF Session
<1>2. CASE Serve(c)
  BY <1>2, StateRequestQuiet, PutLockCases, PutLockTakenOwnership, HeadLockOwnership,
     RemoveLockOwnership, QuietKeepsOwnership DEF Serve
<1>3. CASE RequestLost(c) \/ Crash(c)
  BY <1>3, RequestLostQuiet, CrashQuiet, QuietKeepsOwnership
<1>4. QED
  BY <1>1, <1>2, <1>3

\* Every lock object with an owner is there and has one owner only, although
\* Unlock never asks whose object it deletes (s3.go:363-386).
THEOREM LockOwnership ==
  ASSUME NoRepeat
  PROVE  SessionSpec => []OwnershipInv
<1>1. Init => OwnershipInv
  BY DEF Init, OwnershipInv, UniqueOwner, OwnedIsLocked, OneAtATime, Owns, LockRequests
<1>2. TypeOK /\ OwnershipInv /\ [SessionNext]_vars => OwnershipInv'
  <2>1. TypeOK /\ OwnershipInv /\ SessionNext => OwnershipInv'
    BY StepOwnership DEF SessionNext
  <2>2. ASSUME OwnershipInv, UNCHANGED vars PROVE OwnershipInv'
    <3>1. UNCHANGED << locks, pc, arg, holds >>
      BY <2>2 DEF vars
    <3>2. \A d \in Clients : \A n : Owns(d, n)' <=> Owns(d, n)
      BY <3>1 DEF Owns, name
    <3>3. OneAtATime'
      BY <2>2, <3>1 DEF OwnershipInv, OneAtATime
    <3>4. QED
      BY <2>2, <3>1, <3>2, <3>3 DEF OwnershipInv, UniqueOwner, OwnedIsLocked
  <2>3. QED
    BY <2>1, <2>2
<1>3. QED
  BY <1>1, <1>2, SessionTypeCorrect, PTL DEF SessionSpec

LEMMA OwnershipExcludes ==
  ASSUME TypeOK, OwnershipInv
  PROVE  MutualExclusion /\ LockOutlivesOthers
<1>1. \A c \in Clients : \A id \in holds[c] : sanitizeID[id] \in Names /\ Owns(c, sanitizeID[id])
  BY StoreAssumption, TypeParts DEF StoreAssumption, Owns
<1>2. QED
  BY <1>1 DEF MutualExclusion, LockOutlivesOthers, OwnershipInv, UniqueOwner, OwnedIsLocked

\* "Lock acquires an exclusive lock for the given resource ID" (s3.go:65), for
\* every number of hosts, whatever crashes, unless a request is repeated.
THEOREM SessionsExcludeEachOther ==
  ASSUME NoRepeat
  PROVE  SessionSpec => [](MutualExclusion /\ LockOutlivesOthers)
BY LockOwnership, SessionTypeCorrect, OwnershipExcludes, PTL

-----------------------------------------------------------------------------
(***************************************************************************)
(* No update is lost.                                                      *)
(***************************************************************************)

\* A step of client d leaves the call of another client c alone.
LEMMA StepIsLocal ==
  ASSUME TypeOK, NEW d \in Clients, Session(d) \/ Serve(d) \/ RequestLost(d) \/ Crash(d),
         NEW c \in Clients, c # d
  PROVE  /\ pc'[c] = pc[c] /\ arg'[c] = arg[c] /\ reply'[c] = reply[c]
         /\ holds'[c] = holds[c]
<1> USE TypeParts DEF PcOK, ReplyOK
<1>1. ASSUME NEW err, NEW rec, Return(d, err, rec)
      PROVE  pc'[c] = pc[c] /\ reply'[c] = reply[c]
  BY <1>1 DEF Return
<1>2. ASSUME NEW q, Send(d, q) PROVE pc'[c] = pc[c] /\ reply'[c] = reply[c]
  BY <1>2 DEF Send
<1>3. ASSUME NEW l, Continue(d, l) PROVE pc'[c] = pc[c] /\ reply'[c] = reply[c]
  BY <1>1, <1>2, <1>3 DEF Continue
<1>4. ASSUME Unanswered(d) \/ BodyLost(d) PROVE pc'[c] = pc[c] /\ reply'[c] = reply[c]
  BY <1>1, <1>3, <1>4 DEF Unanswered, BodyLost, SkipKey
<1>5. CASE Session(d)
  BY <1>5 DEF Session, LockSession, ReadSession, SaveSession, DeleteSession, UnlockSession,
     GetState, SaveState, DeleteState, Lock, Unlock, Begin
<1>6. CASE GetObject(d) \/ HeadState(d) \/ HeadLock(d) \/ PutState(d) \/ RemoveState(d)
           \/ RemoveLock(d)
  BY <1>1, <1>2, <1>4, <1>6 DEF GetObject, HeadState, HeadLock, PutState, RemoveState, RemoveLock,
     Carried
<1>7. CASE ListPage(d) \/ ListGet(d)
  BY <1>3, <1>7 DEF ListPage, ListGet, NextKey
<1>8. CASE PutLock(d)
  BY <1>1, <1>4, <1>8 DEF PutLock
<1>9. CASE RequestLost(d)
  BY <1>4, <1>9 DEF RequestLost
<1>10. CASE Crash(d)
  BY <1>10 DEF Crash
<1>11. QED
  BY <1>5, <1>6, <1>7, <1>8, <1>9, <1>10 DEF Serve

\* A record changes only at the name of the client that writes it.
LEMMA RecordsKept ==
  ASSUME NEW d \in Clients, Session(d) \/ Serve(d) \/ RequestLost(d) \/ Crash(d),
         ~(PutState(d) \/ RemoveState(d))
  PROVE  UNCHANGED records
<1>1. CASE Session(d)
  BY <1>1 DEF Session, LockSession, ReadSession, SaveSession, DeleteSession, UnlockSession,
     GetState, SaveState, DeleteState, Lock, Unlock, Begin, bucket
<1>2. CASE Serve(d)
  BY <1>2 DEF Serve, GetObject, ListPage, ListGet, HeadState, PutLock, HeadLock, RemoveLock, bucket
<1>3. CASE RequestLost(d) \/ Crash(d)
  BY <1>3 DEF RequestLost, Crash, bucket
<1>4. QED
  BY <1>1, <1>2, <1>3

\* The lock keeps other clients away from the record of a session.
LEMMA OthersKeepSession ==
  ASSUME TypeOK, OwnershipInv, SessionInv,
         NEW d \in Clients, Session(d) \/ Serve(d) \/ RequestLost(d) \/ Crash(d),
         NEW c \in Clients, c # d
  PROVE  SessionOK(c)'
<1>1. /\ pc'[c] = pc[c] /\ arg'[c] = arg[c] /\ reply'[c] = reply[c]
      /\ holds'[c] = holds[c] /\ name(c)' = name(c)
  BY StepIsLocal DEF name
<1>2. SessionOK(c)
  BY DEF SessionInv
<1>3. ASSUME arg[c].id \in holds[c] PROVE records'[name(c)] = records[name(c)]
  <2>1. CASE PutState(d) \/ RemoveState(d)
    <3>1. Owns(c, name(c)) /\ Owns(d, name(d))
      BY <1>3, <2>1 DEF Owns, name, SessionInv, SessionOK, StateRequests, PutState, RemoveState
    <3>2. name(c) # name(d)
      BY <3>1, NameType DEF OwnershipInv, UniqueOwner
    <3>3. QED
      BY <2>1, <3>2, NameType, TypeParts DEF PutState, RemoveState
  <2>2. QED
    BY <2>1, RecordsKept
<1>4. QED
  BY <1>1, <1>2, <1>3 DEF SessionOK, StateRequests

\* A call whose request is given up fails.
LEMMA GivesUpReply ==
  ASSUME NoRepeat, TypeOK, NEW c \in Clients, pc[c] \in Requests, Unanswered(c) \/ BodyLost(c)
  PROVE  /\ pc'[c] \notin StateRequests
         /\ pc'[c] = "idle" => reply'[c].rpc # "get" \/ reply'[c].err = "request failed"
<1>1. pc'[c] \notin StateRequests /\ pc[c] # "idle"
  BY GivesUp, TypeParts DEF StateRequests, PcOK, Requests
<1>2. ASSUME NEW err, NEW rec, Return(c, err, rec)
      PROVE  reply'[c].rpc = rpcOf[pc[c]] /\ reply'[c].err = err
  <2>1. reply'[c] = [rpc |-> rpcOf[pc[c]], err |-> err, rec |-> rec]
    BY <1>2, TypeParts DEF Return, ReplyOK
  <2>2. QED
    BY <2>1
<1>3. CASE pc[c] = "list get"
  <2>1. rpcOf[pc[c]] = "list"
    BY <1>3 DEF rpcOf, Requests
  <2>2. (\E n \in Names : SkipKey(c, n)) \/ pc'[c] = pc[c]
    BY <1>3, TypeParts DEF Unanswered, BodyLost
  <2>3. CASE \E n \in Names : SkipKey(c, n)
    <3>1. Return(c, "none", NoRecord) \/ Send(c, "list get") \/ Send(c, "list page")
      BY <2>3 DEF SkipKey, Continue
    <3>2. Send(c, "list get") \/ Send(c, "list page") => pc'[c] # "idle"
      BY TypeParts DEF Send, PcOK
    <3>3. QED
      BY <1>1, <1>2, <2>1, <3>1, <3>2
  <2>4. QED
    BY <1>1, <1>3, <2>2, <2>3
<1>4. CASE pc[c] # "list get"
  <2>1. Return(c, "request failed", NoRecord) \/ pc'[c] = pc[c]
    BY <1>4, TypeParts DEF Unanswered, BodyLost
  <2>2. QED
    BY <1>1, <1>2, <2>1
<1>5. QED
  BY <1>3, <1>4

\* The answer of a call, field by field.
LEMMA ReplyFields ==
  ASSUME TypeOK, NEW c \in Clients, NEW err, NEW rec, Return(c, err, rec)
  PROVE  /\ pc'[c] = "idle" /\ reply'[c].rpc = rpcOf[pc[c]]
         /\ reply'[c].err = err /\ reply'[c].rec = rec
<1>1. reply'[c] = [rpc |-> rpcOf[pc[c]], err |-> err, rec |-> rec] /\ pc'[c] = "idle"
  BY TypeParts DEF Return, ReplyOK, PcOK
<1>2. QED
  BY <1>1

\* The fields of an answer and of the arguments of a call.
LEMMA ReplyRecord ==
  ASSUME NEW r, NEW rpc, NEW err, NEW rec, r = [rpc |-> rpc, err |-> err, rec |-> rec]
  PROVE  r.rpc = rpc
OBVIOUS

LEMMA ArgRecord ==
  ASSUME NEW a, NEW id, NEW rec, NEW base, NEW status,
         a = [id |-> id, rec |-> rec, base |-> base, status |-> status]
  PROVE  a.id = id /\ a.base = base
OBVIOUS

\* A SaveState is sent, or refused for its empty ID, field by field.
LEMMA SaveFields ==
  ASSUME TypeOK, NEW c \in Clients, NEW rec, NEW base, SaveState(c, rec, base)
  PROVE  /\ rec.id # EmptyID =>
              pc'[c] = "put state" /\ arg'[c].id = rec.id /\ arg'[c].base = base
         /\ rec.id = EmptyID => pc'[c] = "idle" /\ reply'[c].rpc = "save"
<1>1. CASE rec.id # EmptyID
  <2>1. Begin(c, "save", "put state",
              [id |-> rec.id, rec |-> rec, base |-> base, status |-> AnyStatus])
    BY <1>1 DEF SaveState
  <2>2. pc' = [pc EXCEPT ![c] = "put state"]
    BY <2>1 DEF Begin
  <2>3. PICK a : a = [id |-> rec.id, rec |-> rec, base |-> base, status |-> AnyStatus]
    OBVIOUS
  <2>4. arg' = [arg EXCEPT ![c] = a]
    BY <2>1, <2>3 DEF Begin
  <2>5. pc'[c] = "put state" /\ arg'[c] = a
    BY <2>2, <2>4, TypeParts DEF PcOK
  <2>6. a.id = rec.id /\ a.base = base
    BY <2>3, ArgRecord
  <2>7. QED
    BY <1>1, <2>5, <2>6
<1>2. CASE rec.id = EmptyID
  <2>1. pc'[c] = "idle" /\ reply'[c] = [rpc |-> "save", err |-> "empty id", rec |-> NoRecord]
    BY <1>2, TypeParts DEF SaveState, ReplyOK, PcOK
  <2>2. reply'[c].rpc = "save"
    BY <2>1, ReplyRecord
  <2>3. QED
    BY <1>2, <2>1, <2>2
<1>3. QED
  BY <1>1, <1>2

\* A call that ends with another answer than that of GetState, or that goes on
\* with a request that is not about a record, asks nothing of the session.
LEMMA SessionOver ==
  ASSUME NEW c \in Clients, pc'[c] \notin StateRequests,
         pc'[c] = "idle" => reply'[c].rpc # "get" \/ reply'[c].err = "request failed"
  PROVE  SessionOK(c)'
BY DEF SessionOK

\* A session on a request about the record of id, which it has read.
LEMMA SessionGoesOn ==
  ASSUME NEW c \in Clients, pc'[c] \in StateRequests, arg'[c].id \in holds'[c],
         pc'[c] # "get" => records'[name(c)'] = arg'[c].base
  PROVE  SessionOK(c)'
<1>1. pc'[c] # "idle"
  BY DEF StateRequests
<1>2. QED
  BY <1>1 DEF SessionOK

\* GetState, SaveState, DeleteState and the locks of a session, from its side.
LEMMA SessionCallOK ==
  ASSUME TypeOK, OwnershipInv, SessionInv, NEW c \in Clients, Session(c)
  PROVE  SessionOK(c)'
<1>1. PICK id \in ResourceIDs :
         \/ LockSession(c, id)
         \/ ReadSession(c, id)
         \/ \E s \in Statuses : SaveSession(c, id, s)
         \/ DeleteSession(c, id)
         \/ UnlockSession(c, id)
  BY DEF Session
<1>2. SessionOK(c)
  BY DEF SessionInv
<1>3. \A i \in holds[c] : \A j \in holds[c] : i = j
  BY DEF OwnershipInv, OneAtATime
<1>4. CASE LockSession(c, id) \/ UnlockSession(c, id)
  <2>1. pc'[c] \in {"put lock", "head lock"}
    BY <1>4, TypeParts DEF LockSession, UnlockSession, Lock, Unlock, Begin, PcOK
  <2>2. QED
    BY <2>1, SessionOver DEF StateRequests
<1>5. CASE ReadSession(c, id)
  <2>1. id \in holds[c] /\ UNCHANGED holds /\ pc'[c] = "get" /\ arg'[c] = Args(id)
    BY <1>5, TypeParts DEF ReadSession, GetState, Begin, PcOK
  <2>2. QED
    BY <2>1 DEF SessionOK, Args
<1>6. CASE DeleteSession(c, id)
  <2>1. /\ id \in holds[c] /\ UNCHANGED << holds, records >> /\ pc'[c] = "head state"
        /\ arg'[c] = [Args(id) EXCEPT !.base = reply[c].rec]
        /\ pc[c] = "idle" /\ reply[c].rpc = "get" /\ reply[c].err = "none"
    BY <1>6, TypeParts DEF DeleteSession, DeleteState, Begin, PcOK, bucket, Succeeded
  <2>2. arg[c].id = id /\ records[name(c)] = reply[c].rec
    BY <1>2, <1>3, <2>1 DEF SessionOK
  <2>3. arg'[c].id = id /\ arg'[c].base = reply[c].rec
    BY <2>1 DEF Args
  <2>4. name(c)' = name(c)
    BY <2>2, <2>3 DEF name
  <2>5. pc'[c] \in StateRequests
    BY <2>1 DEF StateRequests
  <2>6. arg'[c].id \in holds'[c] /\ records'[name(c)'] = arg'[c].base
    BY <2>1, <2>2, <2>3, <2>4
  <2>7. QED
    BY <2>5, <2>6, SessionGoesOn
<1>7. CASE \E s \in Statuses : SaveSession(c, id, s)
  <2>1. PICK s \in Statuses : SaveSession(c, id, s)
    BY <1>7
  <2>2. /\ id \in holds[c] /\ UNCHANGED << holds, records >>
        /\ pc[c] = "idle" /\ reply[c].rpc = "get" /\ reply[c].err # "request failed"
        /\ SaveState(c, NextRecord(c, id, s), reply[c].rec)
    BY <2>1 DEF SaveSession, SaveState, Begin, bucket
  <2>3. arg[c].id = id /\ records[name(c)] = reply[c].rec
    BY <1>2, <1>3, <2>2 DEF SessionOK
  <2>4. NextRecord(c, id, s).id = id
    BY DEF NextRecord
  <2>5. CASE id = EmptyID
    <3>1. pc'[c] = "idle" /\ reply'[c].rpc = "save"
      BY <2>2, <2>4, <2>5, SaveFields
    <3>2. pc'[c] \notin StateRequests /\ reply'[c].rpc # "get"
      BY <3>1 DEF StateRequests
    <3>3. QED
      BY <3>2, SessionOver
  <2>6. CASE id # EmptyID
    <3>1. pc'[c] = "put state"
      BY <2>2, <2>4, <2>6, SaveFields
    <3>2. arg'[c].id = id /\ arg'[c].base = reply[c].rec
      BY <2>2, <2>4, <2>6, SaveFields
    <3>3. name(c)' = name(c)
      BY <2>3, <3>2 DEF name
    <3>4. pc'[c] \in StateRequests
      BY <3>1 DEF StateRequests
    <3>5. arg'[c].id \in holds'[c] /\ records'[name(c)'] = arg'[c].base
      BY <2>2, <2>3, <3>2, <3>3
    <3>6. QED
      BY <3>4, <3>5, SessionGoesOn
  <2>7. QED
    BY <2>5, <2>6
<1>8. QED
  BY <1>1, <1>4, <1>5, <1>6, <1>7

\* The requests of the session's own call.
LEMMA SessionRequestOK ==
  ASSUME NoRepeat, TypeOK, SessionInv, NEW c \in Clients, Serve(c) \/ RequestLost(c) \/ Crash(c)
  PROVE  SessionOK(c)'
<1>1. SessionOK(c)
  BY DEF SessionInv
<1>2. \A q \in Requests \ {"get"} : rpcOf[q] # "get"
  BY DEF rpcOf, Requests
<1>3. CASE GetObject(c)
  <2>1. arg[c].id \in holds[c] /\ UNCHANGED << records, arg, holds >>
    BY <1>1, <1>3 DEF GetObject, SessionOK, StateRequests, bucket
  <2>2. pc'[c] = "idle" /\ reply'[c].rec = records[name(c)]
    <3>1. \E err : Return(c, err, records[name(c)])
      BY <1>3 DEF GetObject
    <3>2. QED
      BY <3>1, ReplyFields
  <2>3. name(c)' = name(c)
    BY <2>1 DEF name
  <2>4. arg'[c].id \in holds'[c] /\ records'[name(c)'] = reply'[c].rec
    BY <2>1, <2>2, <2>3
  <2>5. pc'[c] \notin StateRequests
    BY <2>2 DEF StateRequests
  <2>6. QED
    BY <2>4, <2>5 DEF SessionOK
<1>4. CASE HeadState(c)
  <2>1. /\ pc[c] = "head state" /\ arg[c].id \in holds[c] /\ records[name(c)] = arg[c].base
        /\ UNCHANGED << records, arg, holds >>
    BY <1>1, <1>4 DEF HeadState, SessionOK, StateRequests, bucket
  <2>2. CASE Return(c, "not found", NoRecord)
    <3>1. rpcOf[pc[c]] # "get"
      BY <1>2, <2>1 DEF Requests
    <3>2. QED
      BY <2>2, <3>1, ReplyFields, SessionOver DEF StateRequests
  <2>3. CASE Send(c, "delete state")
    <3>1. pc'[c] = "delete state"
      BY <2>3, TypeParts DEF Send, PcOK
    <3>2. name(c)' = name(c)
      BY <2>1 DEF name
    <3>3. pc'[c] \in StateRequests
      BY <3>1 DEF StateRequests
    <3>4. QED
      BY <2>1, <3>2, <3>3, SessionGoesOn
  <2>4. QED
    BY <1>4, <2>2, <2>3 DEF HeadState
<1>5. CASE PutState(c) \/ RemoveState(c) \/ RemoveLock(c) \/ RequestLost(c)
  <2>1. pc[c] \in Requests
    BY <1>5, TypeParts DEF PutState, RemoveState, RemoveLock, RequestLost, PcOK, Requests
  <2>2. (Return(c, "none", NoRecord) /\ pc[c] # "get") \/ Unanswered(c) \/ BodyLost(c)
    BY <1>5 DEF PutState, RemoveState, RemoveLock, RequestLost, Carried
  <2>3. CASE Return(c, "none", NoRecord) /\ pc[c] # "get"
   <3>1. pc'[c] = "idle" /\ reply'[c].rpc = rpcOf[pc[c]]
     BY <2>3, ReplyFields
   <3>2. rpcOf[pc[c]] # "get"
     BY <1>2, <2>1, <2>3
   <3>3. pc'[c] \notin StateRequests
     BY <3>1 DEF StateRequests
   <3>4. QED
     BY <3>1, <3>2, <3>3, SessionOver
  <2>4. CASE Unanswered(c) \/ BodyLost(c)
    BY <2>1, <2>4, GivesUpReply, SessionOver
  <2>5. QED
    BY <2>2, <2>3, <2>4
<1>6. CASE PutLock(c)
  <2>1. pc[c] = "put lock" /\ pc[c] \in Requests
    BY <1>6 DEF PutLock, Requests
  <2>2. rpcOf[pc[c]] # "get"
    BY <1>2, <2>1
  <2>3. Return(c, "already locked", NoRecord) \/ Return(c, "none", NoRecord) \/ Unanswered(c)
    BY <1>6 DEF PutLock
  <2>4. CASE Return(c, "already locked", NoRecord) \/ Return(c, "none", NoRecord)
    BY <2>2, <2>4, ReplyFields, SessionOver DEF StateRequests
  <2>5. CASE Unanswered(c)
    BY <2>1, <2>5, GivesUpReply, SessionOver
  <2>6. QED
    BY <2>3, <2>4, <2>5
<1>7. CASE HeadLock(c) \/ ListPage(c) \/ ListGet(c)
  <2>1. pc[c] \in Requests \ {"get"}
    BY <1>7 DEF HeadLock, ListPage, ListGet, Requests
  <2>2. \/ Return(c, "not locked", NoRecord) \/ Return(c, "none", NoRecord)
        \/ Send(c, "delete lock") \/ Send(c, "list get") \/ Send(c, "list page")
    BY <1>7 DEF HeadLock, ListPage, ListGet, NextKey, Continue
  <2>3. CASE Return(c, "not locked", NoRecord) \/ Return(c, "none", NoRecord)
    BY <1>2, <2>1, <2>3, ReplyFields, SessionOver DEF StateRequests
  <2>4. CASE Send(c, "delete lock") \/ Send(c, "list get") \/ Send(c, "list page")
    <3>1. pc'[c] \in {"delete lock", "list get", "list page"}
      BY <2>4, TypeParts DEF Send, PcOK
    <3>2. QED
      BY <3>1, SessionOver DEF StateRequests
  <2>5. QED
    BY <2>2, <2>3, <2>4
<1>8. CASE Crash(c)
  <2>1. pc'[c] = "idle" /\ reply'[c] = NoReply
    BY <1>8, TypeParts DEF Crash, PcOK, ReplyOK
  <2>2. pc'[c] \notin StateRequests /\ reply'[c].rpc = "none"
    BY <2>1 DEF StateRequests, NoReply
  <2>3. QED
    BY <2>2, SessionOver
<1>9. QED
  BY <1>3, <1>4, <1>5, <1>6, <1>7, <1>8 DEF Serve

LEMMA SessionInvStep ==
  ASSUME NoRepeat, TypeOK, OwnershipInv, SessionInv, SessionNext
  PROVE  SessionInv'
<1>1. PICK d \in Clients : Session(d) \/ Serve(d) \/ RequestLost(d) \/ Crash(d)
  BY DEF SessionNext
<1>2. SessionOK(d)'
  BY <1>1, SessionCallOK, SessionRequestOK
<1>3. \A c \in Clients \ {d} : SessionOK(c)'
  BY <1>1, OthersKeepSession
<1>4. QED
  BY <1>2, <1>3 DEF SessionInv

\* No update is lost under the lock: SaveState overwrites and DeleteState
\* deletes (s3.go:242, 329) only the record its session has read.
THEOREM UpdatesAreNotLost ==
  ASSUME NoRepeat
  PROVE  SessionSpec => NoLostUpdate
<1>1. Init => SessionInv
  <2>1. SUFFICES ASSUME Init, NEW c \in Clients PROVE SessionOK(c)
    BY DEF SessionInv
  <2>2. pc[c] = "idle" /\ reply[c] = NoReply
    BY <2>1 DEF Init
  <2>3. pc[c] \notin StateRequests /\ reply[c].rpc # "get"
    BY <2>2 DEF StateRequests, NoReply
  <2>4. QED
    BY <2>3 DEF SessionOK
<1>2. TypeOK /\ OwnershipInv /\ SessionInv /\ [SessionNext]_vars => SessionInv'
  <2>1. ASSUME SessionInv, UNCHANGED vars PROVE SessionInv'
    <3>1. UNCHANGED << records, pc, arg, reply, holds >>
      BY <2>1 DEF vars
    <3>2. QED
      BY <2>1, <3>1 DEF SessionInv, SessionOK, name
  <2>2. QED
    BY <2>1, SessionInvStep
<1>3. SessionInv =>
        \A c \in Clients : (PutState(c) \/ RemoveState(c)) =>
                            records[name(c)] \in {arg[c].base, arg[c].rec}
  BY DEF SessionInv, SessionOK, StateRequests, PutState, RemoveState
<1>4. QED
  BY <1>1, <1>2, <1>3, LockOwnership, SessionTypeCorrect, PTL DEF SessionSpec, NoLostUpdate

-----------------------------------------------------------------------------
(***************************************************************************)
(* The store implements the abstract lock.                                 *)
(***************************************************************************)

\* The owner of a lock object, in the current and in the next state.
LEMMA OwnerIs ==
  ASSUME OwnershipInv, NEW n \in Names
  PROVE  /\ n \notin locks => ownerOf[n] = Free
         /\ \A c \in Clients : Owns(c, n) => ownerOf[n] = c
         /\ n \in locks /\ (\A c \in Clients : ~Owns(c, n)) => ownerOf[n] = Abandoned
<1>1. \A c, d \in Clients : Owns(c, n) /\ Owns(d, n) => c = d
  BY DEF OwnershipInv, UniqueOwner
<1>2. \A c \in Clients : Owns(c, n) => n \in locks
  BY DEF OwnershipInv, OwnedIsLocked
<1>3. QED
  BY <1>1, <1>2 DEF ownerOf

LEMMA OwnerIsNext ==
  ASSUME OwnershipInv', NEW n \in Names
  PROVE  /\ n \notin locks' => ownerOf'[n] = Free
         /\ \A c \in Clients : Owns(c, n)' => ownerOf'[n] = c
         /\ n \in locks' /\ (\A c \in Clients : ~Owns(c, n)') => ownerOf'[n] = Abandoned
<1>1. \A c, d \in Clients : Owns(c, n)' /\ Owns(d, n)' => c = d
  BY DEF OwnershipInv, UniqueOwner
<1>2. \A c \in Clients : Owns(c, n)' => n \in locks'
  BY DEF OwnershipInv, OwnedIsLocked
<1>3. QED
  BY <1>1, <1>2 DEF ownerOf

\* A name whose lock object and whose owners stay has the same owner.
LEMMA SameOwner ==
  ASSUME OwnershipInv, OwnershipInv', NEW n \in Names, n \in locks' <=> n \in locks,
         \A d \in Clients : Owns(d, n)' <=> Owns(d, n)
  PROVE  ownerOf'[n] = ownerOf[n]
<1>1. CASE \E d \in Clients : Owns(d, n)
  BY <1>1, OwnerIs, OwnerIsNext
<1>2. CASE \A d \in Clients : ~Owns(d, n)
  BY <1>2, OwnerIs, OwnerIsNext
<1>3. QED
  BY <1>1, <1>2

LEMMA SameOwners ==
  ASSUME OwnershipInv, OwnershipInv', UNCHANGED locks,
         \A d \in Clients : \A n : Owns(d, n)' <=> Owns(d, n)
  PROVE  UNCHANGED ownerOf
<1>1. \A n \in Names : ownerOf'[n] = ownerOf[n]
  BY SameOwner
<1>2. QED
  BY <1>1 DEF ownerOf

\* A quiet step abandons the locks its client stops to own, and the one a lost
\* Lock has made.
LEMMA QuietAbandons ==
  ASSUME TypeOK, TypeOK', OwnershipInv, OwnershipInv', NEW c \in Clients, Quiet(c)
  PROVE  Abstract!Next
<1> DEFINE gone == {n \in Names : n \in locks' /\ \A d \in Clients : ~Owns(d, n)'}
           ns   == {n \in gone : ownerOf[n] \in {c, Free}}
<1>1. Unknown(c) /\ name(c) \in Names /\ locks \subseteq Names
  BY NameType, TypeParts DEF Quiet
<1>2. ASSUME NEW n \in Names, NEW d \in Clients, d # c PROVE Owns(d, n)' <=> Owns(d, n)
  <2>1. holds'[d] = holds[d] /\ pc'[d] = pc[d] /\ arg'[d] = arg[d]
    BY <1>2, TypeParts DEF Quiet, PcOK
  <2>2. QED
    BY <2>1 DEF Owns, name
<1>3. ASSUME NEW n \in Names, n \in gone PROVE ownerOf'[n] = Abandoned
  BY <1>3, OwnerIsNext
<1>4. ASSUME NEW n \in Names, n \in gone PROVE ownerOf[n] \in {c, Free, Abandoned}
  <2>1. CASE \E d \in Clients : Owns(d, n)
    <3>1. PICK d \in Clients : Owns(d, n)
      BY <2>1
    <3>2. d = c
      BY <1>2, <1>4, <3>1
    <3>3. QED
      BY <3>1, <3>2, OwnerIs
  <2>2. CASE \A d \in Clients : ~Owns(d, n)
    BY <2>2, OwnerIs
  <2>3. QED
    BY <2>1, <2>2
<1>5. ASSUME NEW n \in Names, n \notin gone PROVE ownerOf'[n] = ownerOf[n]
  <2>1. CASE n \notin locks'
    <3>1. n \notin locks
      BY <1>1, <2>1 DEF Unknown
    <3>2. QED
      BY <2>1, <3>1, OwnerIs, OwnerIsNext
  <2>2. CASE \E d \in Clients : Owns(d, n)'
    <3>1. PICK d \in Clients : Owns(d, n)'
      BY <2>2
    <3>2. Owns(d, n)
      BY <3>1, QuietOwns
    <3>3. QED
      BY <3>1, <3>2, OwnerIs, OwnerIsNext
  <2>3. QED
    BY <1>5, <2>1, <2>2
<1>6. ownerOf' = [n \in Names |-> ownerOf'[n]]
  BY DEF ownerOf
<1>7. ownerOf' = [n \in Names |-> IF n \in ns THEN Abandoned ELSE ownerOf[n]]
  <2>1. ASSUME NEW n \in Names
        PROVE  ownerOf'[n] = IF n \in ns THEN Abandoned ELSE ownerOf[n]
    BY <1>3, <1>4, <1>5
  <2> HIDE DEF ns
  <2>2. QED
    BY <1>6, <2>1
<1>8. ASSUME NEW n \in Names PROVE ownerOf[n] = Free => n \notin locks
  <2>1. \A d \in Clients : d # Free
    BY SessionAssumption DEF SessionAssumption
  <2>2. Abandoned # Free
    BY SessionAssumption DEF SessionAssumption
  <2>3. QED
    BY <2>1, <2>2, OwnerIs
<1>9. mover' = IF \E n \in ns : ownerOf[n] = Free THEN {c} ELSE mover
  <2>1. CASE UNCHANGED << locks, mover >>
    <3>1. ~ \E n \in ns : ownerOf[n] = Free
      BY <1>8, <2>1
    <3>2. QED
      BY <2>1, <3>1
  <2>2. CASE name(c) \notin locks /\ locks' = locks \cup {name(c)} /\ mover' = {c}
    <3>1. \A d \in Clients : ~Owns(d, name(c))
      BY <1>1, <2>2 DEF OwnershipInv, OwnedIsLocked
    <3>2. name(c) \in gone
      BY <1>1, <2>2, <3>1, QuietOwns
    <3>3. ownerOf[name(c)] = Free
      BY <1>1, <2>2, OwnerIs
    <3>4. QED
      BY <2>2, <3>2, <3>3
  <2>3. QED
    BY <1>1, <2>1, <2>2 DEF Unknown
<1>10. ns \in SUBSET Names /\ \A n \in ns : ownerOf[n] \in {c, Free}
  OBVIOUS
<1> HIDE DEF ns
<1>11. Abstract!Abandon(c, ns)
  BY <1>7, <1>9, <1>10 DEF Abstract!Abandon
<1>12. QED
  BY <1>10, <1>11 DEF Abstract!Next

\* The conditional write of Lock acquires the abstract lock.
LEMMA PutLockAcquires ==
  ASSUME TypeOK, OwnershipInv, OwnershipInv', NEW c \in Clients, PutLockTaken(c)
  PROVE  Abstract!Next
<1>1. name(c) \in Names /\ name(c) \notin locks /\ locks' = locks \cup {name(c)}
  BY NameType DEF PutLockTaken
<1>2. ownerOf[name(c)] = Free
  BY <1>1, OwnerIs
<1>3. ownerOf'[name(c)] = c
  BY <1>1, PutLockTakenOwns, OwnerIsNext
<1>4. \A n \in Names \ {name(c)} : ownerOf'[n] = ownerOf[n]
  <2>1. \A n : ~Owns(c, n)
    BY DEF Owns, OwnershipInv, OneAtATime, PutLockTaken, LockRequests
  <2>2. \A n \in Names \ {name(c)} : \A d \in Clients : Owns(d, n)' <=> Owns(d, n)
    BY <2>1, PutLockTakenOwns
  <2>3. QED
    BY <1>1, <2>2, SameOwner
<1>5. ownerOf' = [n \in Names |-> ownerOf'[n]] /\ ownerOf = [n \in Names |-> ownerOf[n]]
  BY DEF ownerOf
<1>6. ownerOf' = [ownerOf EXCEPT ![name(c)] = c]
  BY <1>3, <1>4, <1>5
<1>7. mover' = {c}
  BY DEF PutLockTaken
<1>8. QED
  BY <1>1, <1>2, <1>6, <1>7 DEF Abstract!Next, Abstract!Acquire

\* The DeleteObject of Unlock is one of the owner, and releases it.
LEMMA RemoveLockReleases ==
  ASSUME NoRepeat, TypeOK, OwnershipInv, OwnershipInv', NEW c \in Clients, RemoveLock(c)
  PROVE  Abstract!Next
<1>1. name(c) \in Names /\ locks' = locks \ {name(c)}
  BY NameType, RemoveLockOwns
<1>2. ownerOf[name(c)] = c
  BY <1>1, RemoveLockOwns, OwnerIs
<1>3. ownerOf'[name(c)] = Free
  BY <1>1, OwnerIsNext
<1>4. \A n \in Names \ {name(c)} : ownerOf'[n] = ownerOf[n]
  <2>1. \A n \in Names \ {name(c)} : ~Owns(c, n)
    <3>1. pc[c] = "delete lock" /\ holds[c] = {}
      BY DEF OwnershipInv, OneAtATime, RemoveLock, LockRequests
    <3>2. QED
      BY <3>1 DEF Owns
  <2>2. \A n \in Names \ {name(c)} : \A d \in Clients : Owns(d, n)' <=> Owns(d, n)
    BY <2>1, RemoveLockOwns
  <2>3. QED
    BY <1>1, <2>2, SameOwner
<1>5. ownerOf' = [n \in Names |-> ownerOf'[n]] /\ ownerOf = [n \in Names |-> ownerOf[n]]
  BY DEF ownerOf
<1>6. ownerOf' = [ownerOf EXCEPT ![name(c)] = Free]
  BY <1>3, <1>4, <1>5
<1>7. mover' = {c}
  BY RemoveLockOwns
<1>8. QED
  BY <1>1, <1>2, <1>6, <1>7 DEF Abstract!Next, Abstract!Release

\* Sessions see an exclusive lock: Lock and Unlock (s3.go:339-386) take and
\* free it atomically although each is several requests, and it is a request of
\* its owner, and of nobody else, that frees a lock.
THEOREM StoreImplementsLock ==
  ASSUME NoRepeat
  PROVE  SessionSpec => ImplementsExclusiveLock
<1>1. Init => Abstract!Init
  BY DEF Init, Abstract!Init, ownerOf
<1>2. /\ TypeOK /\ TypeOK' /\ OwnershipInv /\ OwnershipInv' /\ [SessionNext]_vars
      => [Abstract!Next]_<< ownerOf, mover >>
  <2> SUFFICES ASSUME TypeOK, TypeOK', OwnershipInv, OwnershipInv', [SessionNext]_vars
               PROVE  Abstract!Next \/ UNCHANGED << ownerOf, mover >>
    OBVIOUS
  <2>1. CASE UNCHANGED vars
    <3>1. UNCHANGED << locks, mover, pc, arg, holds >>
      BY <2>1 DEF vars
    <3>2. \A d \in Clients : \A n : Owns(d, n)' <=> Owns(d, n)
      BY <3>1 DEF Owns, name
    <3>3. QED
      BY <3>1, <3>2, SameOwners
  <2>2. ASSUME NEW c \in Clients, NEW id \in ResourceIDs,
               LockSession(c, id) \/ UnlockSession(c, id)
        PROVE  UNCHANGED << ownerOf, mover >>
    <3>1. UNCHANGED << locks, mover >>
      BY <2>2 DEF LockSession, UnlockSession, Lock, Unlock, Begin, bucket
    <3>2. QED
      BY <2>2, <3>1, LockSessionOwnership, UnlockSessionOwnership, SameOwners
  <2>3. ASSUME NEW c \in Clients, Session(c) PROVE Abstract!Next \/ UNCHANGED << ownerOf, mover >>
    BY <2>2, <2>3, StateCallQuiet, QuietAbandons DEF Session
  <2>4. ASSUME NEW c \in Clients, HeadLock(c) PROVE UNCHANGED << ownerOf, mover >>
    BY <2>4, HeadLockOwnership, SameOwners DEF HeadLock, bucket
  <2>5. ASSUME NEW c \in Clients, Serve(c) PROVE Abstract!Next \/ UNCHANGED << ownerOf, mover >>
    BY <2>4, <2>5, StateRequestQuiet, QuietAbandons, PutLockCases, PutLockAcquires,
       RemoveLockReleases DEF Serve
  <2>6. ASSUME NEW c \in Clients, RequestLost(c) \/ Crash(c) PROVE Abstract!Next
    BY <2>6, RequestLostQuiet, CrashQuiet, QuietAbandons
  <2>7. QED
    BY <2>1, <2>3, <2>5, <2>6 DEF SessionNext
<1>3. QED
  BY <1>1, <1>2, LockOwnership, SessionTypeCorrect, PTL
     DEF SessionSpec, ImplementsExclusiveLock, Abstract!Spec, Abstract!vars

-----------------------------------------------------------------------------
(***************************************************************************)
(* Lock is refused only when the lock is owned.                            *)
(***************************************************************************)

\* Every lock object has an owner.
AllOwned == \A n \in locks : \E c \in Clients : Owns(c, n)

\* A Lock that is not answered has no answer.
NewLock(c) == pc[c] = "put lock" => reply[c].err = "none"

\* The inductive invariant: until something goes wrong no lock is left behind.
CalmInv == Undisturbed => OneAtATime /\ AllOwned /\ \A c \in Clients : NewLock(c)

\* Nothing is lost and nobody crashes in a step after which still nothing has
\* gone wrong.
LEMMA StaysCalm ==
  ASSUME TypeOK, NEW c \in Clients, Session(c) \/ Serve(c) \/ RequestLost(c) \/ Crash(c),
         Undisturbed'
  PROVE  Undisturbed /\ ~Unanswered(c) /\ ~RequestLost(c) /\ ~Crash(c)
<1>1. losses \in 0 .. MaxLosses /\ crashes \in 0 .. MaxCrashes
      /\ MaxLosses \in Nat /\ MaxCrashes \in Nat
  BY TypeParts, StoreAssumption DEF LossesOK, StoreAssumption
<1>2. losses - 1 # MaxLosses /\ crashes - 1 # MaxCrashes
  BY <1>1
<1>3. ~Unanswered(c) /\ ~RequestLost(c) /\ ~Crash(c)
  BY <1>2 DEF Unanswered, BodyLost, RequestLost, Crash, Undisturbed
<1>4. UNCHANGED << losses, crashes >>
  <2>1. CASE Session(c)
    BY <2>1 DEF Session, LockSession, ReadSession, SaveSession, DeleteSession, UnlockSession,
       GetState, SaveState, DeleteState, Lock, Unlock, Begin, budget
  <2>2. CASE Serve(c)
    BY <1>3, <2>2 DEF Serve, GetObject, PutState, ListPage, ListGet, HeadState, RemoveState,
       PutLock, HeadLock, RemoveLock, Carried, budget
  <2>. QED BY <1>3, <2>1, <2>2
<1>. QED BY <1>3, <1>4 DEF Undisturbed

\* What a step of c must do to the locks that c owns.
LEMMA CalmStep ==
  ASSUME TypeOK, OneAtATime, AllOwned, \A d \in Clients : NewLock(d),
         NEW c \in Clients, Session(c) \/ Serve(c),
         \A n \in locks' : IF n \in locks THEN Owns(c, n) => Owns(c, n)' ELSE Owns(c, n)',
         \A i, j \in holds'[c] : i = j,
         pc'[c] \in LockRequests => holds'[c] = {},
         NewLock(c)'
  PROVE  OneAtATime' /\ AllOwned' /\ \A d \in Clients : NewLock(d)'
<1>1. ASSUME NEW d \in Clients, d # c
      PROVE  /\ NewLock(d)' /\ \A n : Owns(d, n) => Owns(d, n)'
             /\ \A i, j \in holds'[d] : i = j
             /\ pc'[d] \in LockRequests => holds'[d] = {}
  <2>1. pc'[d] = pc[d] /\ arg'[d] = arg[d] /\ reply'[d] = reply[d] /\ holds'[d] = holds[d]
    BY <1>1, StepIsLocal
  <2>2. NewLock(d)'
    BY <2>1 DEF NewLock
  <2>3. \A n : Owns(d, n) => Owns(d, n)'
    BY <2>1 DEF Owns, name
  <2>4. /\ \A i, j \in holds'[d] : i = j
        /\ pc'[d] \in LockRequests => holds'[d] = {}
    BY <2>1 DEF OneAtATime
  <2>. QED BY <2>2, <2>3, <2>4
<1>2. AllOwned'
  BY <1>1 DEF AllOwned
<1>. QED BY <1>1, <1>2 DEF OneAtATime

\* Every call of a session takes this care, and every request.
LEMMA CalmSession ==
  ASSUME TypeOK, OneAtATime, AllOwned, \A d \in Clients : NewLock(d), NEW c \in Clients, Session(c)
  PROVE  OneAtATime' /\ AllOwned' /\ \A d \in Clients : NewLock(d)'
<1> USE TypeParts DEF PcOK, ReplyOK
<1>1. ASSUME NEW rpc, NEW q, NEW a, Begin(c, rpc, q, a)
      PROVE  /\ pc[c] = "idle" /\ pc'[c] = q /\ arg'[c] = a /\ reply'[c] = NoReply
             /\ UNCHANGED locks
  BY <1>1 DEF Begin, bucket
<1>2. NoReply.err = "none"
  BY DEF NoReply
<1>3. ASSUME NEW id \in ResourceIDs, LockSession(c, id)
      PROVE  OneAtATime' /\ AllOwned' /\ \A d \in Clients : NewLock(d)'
  <2>1. /\ pc[c] = "idle" /\ holds[c] = {} /\ holds' = holds /\ UNCHANGED locks
        /\ reply'[c] = NoReply
    BY <1>1, <1>3 DEF LockSession, Lock
  <2>2. \A n : ~Owns(c, n)
    BY <2>1 DEF Owns
  <2>. QED BY <1>2, <1>3, <2>1, <2>2, CalmStep DEF Session, NewLock
<1>4. ASSUME NEW id \in ResourceIDs, UnlockSession(c, id)
      PROVE  OneAtATime' /\ AllOwned' /\ \A d \in Clients : NewLock(d)'
  <2>1. /\ pc[c] = "idle" /\ id \in holds[c] /\ holds'[c] = holds[c] \ {id} /\ UNCHANGED locks
        /\ reply'[c] = NoReply /\ pc'[c] = "head lock" /\ arg'[c] = Args(id)
    BY <1>1, <1>4 DEF UnlockSession, Unlock
  <2>2. holds[c] = {id} /\ holds'[c] = {}
    <3>1. \A j \in holds[c] : j = id
      BY <2>1 DEF OneAtATime
    <3>. QED BY <2>1, <3>1
  <2>3. arg'[c].id = id
    <3>1. Args(id).id = id
      BY DEF Args
    <3>. QED BY <2>1, <3>1
  <2>4. \A n : Owns(c, n) => Owns(c, n)'
    BY <2>1, <2>2, <2>3 DEF Owns, name
  <2>. QED BY <1>2, <1>4, <2>1, <2>2, <2>4, CalmStep DEF Session, NewLock
<1>5. CASE /\ UNCHANGED << locks, holds >> /\ pc[c] = "idle"
           /\ pc'[c] \in {"idle", "get", "put state", "head state"}
  <2>1. \A n : Owns(c, n) => Owns(c, n)'
    BY <1>5 DEF Owns
  <2>2. \A i, j \in holds'[c] : i = j
    BY <1>5 DEF OneAtATime
  <2>. QED BY <1>5, <2>1, <2>2, CalmStep DEF NewLock, LockRequests
<1>6. ASSUME NEW id \in ResourceIDs,
             \/ ReadSession(c, id) \/ DeleteSession(c, id)
             \/ \E s \in Statuses : SaveSession(c, id, s)
      PROVE  /\ UNCHANGED << locks, holds >> /\ pc[c] = "idle"
             /\ pc'[c] \in {"idle", "get", "put state", "head state"}
  BY <1>1, <1>6 DEF ReadSession, DeleteSession, SaveSession, GetState, DeleteState, SaveState, bucket
<1>. QED BY <1>3, <1>4, <1>5, <1>6 DEF Session

LEMMA CalmServe ==
  ASSUME TypeOK, OneAtATime, AllOwned, \A d \in Clients : NewLock(d), NEW c \in Clients, Serve(c),
         ~Unanswered(c)
  PROVE  OneAtATime' /\ AllOwned' /\ \A d \in Clients : NewLock(d)'
<1> USE TypeParts DEF PcOK
<1>0. \A i, j \in holds[c] : i = j
  BY DEF OneAtATime
<1>1. ASSUME NEW err, NEW rec, Return(c, err, rec) PROVE pc'[c] = "idle"
  BY <1>1 DEF Return
<1>2. ASSUME NEW q, Send(c, q) PROVE pc'[c] = q
  BY <1>2 DEF Send
<1>3. ASSUME NEW l, Continue(c, l) PROVE pc'[c] \in {"idle", "list page", "list get"}
  BY <1>1, <1>2, <1>3 DEF Continue
<1>4. CASE GetObject(c) \/ PutState(c) \/ ListPage(c) \/ ListGet(c) \/ HeadState(c) \/ RemoveState(c)
  <2>1. UNCHANGED << locks, holds >> /\ pc[c] \notin {"head lock", "delete lock"}
    BY <1>4 DEF GetObject, PutState, ListPage, ListGet, HeadState, RemoveState, bucket
  <2>2. pc'[c] \in {"idle", "list page", "list get", "delete state"}
    BY <1>1, <1>2, <1>3, <1>4 DEF GetObject, PutState, ListPage, ListGet, NextKey, HeadState,
       RemoveState, Carried
  <2>3. \A n : Owns(c, n) => Owns(c, n)'
    BY <2>1 DEF Owns
  <2>. QED BY <1>0, <2>1, <2>2, <2>3, CalmStep DEF NewLock, LockRequests
<1>5. CASE PutLock(c)
  <2>1. pc[c] = "put lock" /\ holds[c] = {} /\ pc'[c] = "idle"
    BY <1>1, <1>5 DEF PutLock, OneAtATime, LockRequests
  <2>2. \A n : ~Owns(c, n)
    BY <2>1 DEF Owns
  <2>3. CASE UNCHANGED << locks, holds >>
    BY <1>0, <2>1, <2>2, <2>3, CalmStep DEF NewLock, LockRequests
  <2>4. CASE locks' = locks \cup {name(c)} /\ holds' = [holds EXCEPT ![c] = @ \cup {arg[c].id}]
    <3>1. holds'[c] = {arg[c].id}
      BY <2>1, <2>4, TypeParts
    <3>2. Owns(c, name(c))'
      <4>1. arg[c].id \in holds'[c] /\ sanitizeID[arg[c].id] = name(c) /\ name(c)' = name(c)
        BY <1>5, <3>1 DEF name, PutLock
      <4>. QED BY <4>1 DEF Owns
    <3>3. name(c)' = name(c)
      BY <1>5 DEF name, PutLock
    <3>. QED BY <2>1, <2>2, <2>4, <3>1, <3>2, <3>3, CalmStep DEF NewLock, LockRequests
  <2>. QED BY <1>5, <2>3, <2>4 DEF PutLock
<1>6. CASE HeadLock(c)
  <2>1. /\ pc[c] = "head lock" /\ holds[c] = {} /\ UNCHANGED << locks, holds, arg >>
        /\ \/ pc'[c] = "idle" /\ name(c) \notin locks
           \/ pc'[c] = "delete lock"
    BY <1>1, <1>2, <1>6 DEF HeadLock, OneAtATime, LockRequests, bucket
  <2>2. \A n \in locks : Owns(c, n) => Owns(c, n)'
    BY <2>1 DEF Owns, name
  <2>. QED BY <1>0, <2>1, <2>2, CalmStep DEF NewLock
<1>7. CASE RemoveLock(c)
  <2>1. /\ pc[c] = "delete lock" /\ holds[c] = {} /\ UNCHANGED holds /\ pc'[c] = "idle"
        /\ locks' = locks \ {name(c)}
    BY <1>1, <1>7 DEF RemoveLock, Carried, OneAtATime, LockRequests
  <2>2. \A n \in locks' : n \in locks /\ ~Owns(c, n)
    BY <2>1 DEF Owns
  <2>. QED BY <1>0, <2>1, <2>2, CalmStep DEF NewLock, LockRequests
<1>. QED BY <1>4, <1>5, <1>6, <1>7 DEF Serve

\* Lock fails only while another client owns the lock, until a request or an
\* answer gets lost or a host crashes, for any number of attempts of the SDK
\* (s3.go:339-362).
THEOREM LockIsRefusedOnlyWhenOwned == SessionSpec => RefusedOnlyWhenOwned
<1>1. Init => CalmInv
  <2> SUFFICES ASSUME Init PROVE CalmInv
    OBVIOUS
  <2>1. /\ locks = {} /\ \A c \in Clients : pc[c] = "idle" /\ holds[c] = {}
    BY DEF Init
  <2>. QED BY <2>1 DEF CalmInv, OneAtATime, AllOwned, NewLock, LockRequests
<1>2. TypeOK /\ CalmInv /\ [SessionNext]_vars => CalmInv'
  <2> SUFFICES ASSUME TypeOK, CalmInv, [SessionNext]_vars PROVE CalmInv'
    OBVIOUS
  <2>1. CASE SessionNext
    <3>1. PICK c \in Clients : Session(c) \/ Serve(c) \/ RequestLost(c) \/ Crash(c)
      BY <2>1 DEF SessionNext
    <3>2. SUFFICES ASSUME Undisturbed' PROVE CalmInv'
      BY DEF CalmInv
    <3>3. Undisturbed /\ ~Unanswered(c) /\ ~RequestLost(c) /\ ~Crash(c)
      BY <3>1, <3>2, StaysCalm
    <3>4. OneAtATime /\ AllOwned /\ \A d \in Clients : NewLock(d)
      BY <3>3 DEF CalmInv
    <3>. QED BY <3>1, <3>3, <3>4, CalmSession, CalmServe DEF CalmInv
  <2>2. CASE UNCHANGED vars
    BY <2>2 DEF vars, CalmInv, Undisturbed, OneAtATime, AllOwned, NewLock, Owns, name
  <2>. QED BY <2>1, <2>2
<1>3. TypeOK /\ CalmInv =>
        \A c \in Clients : (PutLock(c) /\ reply'[c].err = "already locked" /\ Undisturbed) =>
                             \E d \in Clients \ {c} : Owns(d, name(c))
  <2> SUFFICES ASSUME TypeOK, CalmInv, NEW c \in Clients, PutLock(c),
                      reply'[c].err = "already locked", Undisturbed
               PROVE  \E d \in Clients \ {c} : Owns(d, name(c))
    OBVIOUS
  <2>1. OneAtATime /\ AllOwned /\ NewLock(c) /\ pc[c] = "put lock"
    BY DEF CalmInv, PutLock
  <2>2. name(c) \in locks
    <3>1. ASSUME NEW err, err # "already locked" PROVE ~Return(c, err, NoRecord)
      BY <3>1, ReplyFields
    <3>2. reply' # reply
      BY <2>1 DEF NewLock
    <3>3. ~Unanswered(c)
      BY <2>1, <3>1, <3>2 DEF Unanswered
    <3>. QED BY <3>1, <3>3 DEF PutLock
  <2>3. ~Owns(c, name(c))
    BY <2>1 DEF OneAtATime, LockRequests, Owns
  <2>. QED BY <2>1, <2>2, <2>3 DEF AllOwned
<1>. QED BY <1>1, <1>2, <1>3, SessionTypeCorrect, PTL DEF SessionSpec, RefusedOnlyWhenOwned

-----------------------------------------------------------------------------
(***************************************************************************)
(* A listing is exact, whatever other clients do between its pages, when   *)
(* no request is lost so often that the SDK gives it up: a listing that    *)
(* meets such an object leaves it out and succeeds (s3.go:287).            *)
(*                                                                         *)
(* The argument: a listing has read every record it watches up to its      *)
(* token, but for those it still has to do; a page covers all keys up to   *)
(* the next token (PageCovers); and it reads no name twice, while a record *)
(* lies under the name of its own resource (Placed).                       *)
(***************************************************************************)

\* A record lies under the name of its resource.
Placed == \A n \in Names : records[n] # NoRecord => sanitizeID[records[n].id] = n

\* SaveState writes the record of the resource it was called for.
Saving(c) == pc[c] = "put state" => arg[c].rec \in Record /\ arg[c].rec.id = arg[c].id

\* Every object that was skipped took a loss.
SkipsAreLosses(l) == Cardinality(l.skipped) <= MaxLosses - losses

\* A listing with local variables l is done with name n.
Past(l, n) == stateKey(n) <= l.token /\ n \notin l.todo

\* It has found records only of names it is done with, no resource twice, and
\* has read on only what its pages held.
Once(l) ==
  /\ \A i \in DOMAIN l.found : Past(l, sanitizeID[l.found[i].id])
  /\ \A i, j \in DOMAIN l.found : l.found[i].id = l.found[j].id => i = j
  /\ \A n \in l.todo : stateKey(n) <= l.token

\* It has found all matching records that it watches, of the names it is done
\* with and did not skip.
HasRead(c, l) ==
  \A n \in steady[c] \ l.skipped :
    Past(l, n) /\ matchesFilter(records[n], arg[c].status) =>
      \E i \in DOMAIN l.found : l.found[i] = records[n]

\* Its pages reach every record it watches.
ReachesAll(c, l) == \A n \in steady[c] : stateKey(n) <= l.token

\* The state of a listing: what it watches is there, what it is done with it
\* has found, and after the last page nothing is left.
ReadOK(c) ==
  /\ \A n \in steady[c] : records[n] # NoRecord
  /\ Once(listing[c])
  /\ pc[c] \in {"list page", "list get"} \/ Listed(c) => HasRead(c, listing[c])
  /\ pc[c] = "list page" \/ Listed(c) => listing[c].todo = {}
  /\ (pc[c] = "list get" /\ ~listing[c].more) \/ Listed(c) => ReachesAll(c, listing[c])
  /\ pc[c] # "idle" => ~Listed(c)

\* The inductive invariant. ListExact says nothing of a listing that runs.
ListOK(c) == Saving(c) /\ SkipsAreLosses(listing[c]) /\ ReadOK(c)
ListInv   == Placed /\ \A c \in Clients : ListOK(c)

-----------------------------------------------------------------------------
\* The keys count from 1.
LEMMA KeysCount == \A n \in Names : ~(stateKey(n) <= 0)
<1>1. MaxName \in Nat
  BY StoreAssumption DEF StoreAssumption
<1>2. ASSUME NEW n \in Names PROVE ~(2 * n - 1 <= 0)
  BY <1>1 DEF Names
<1>. QED BY <1>2 DEF stateKey

\* A listing that has not begun has found nothing twice.
LEMMA NoListingOnce == Once(NoListing)
<1>1. NoListing.found = << >> /\ NoListing.todo = {}
  BY DEF NoListing
<1>2. \A i : i \notin DOMAIN << >>
  OBVIOUS
<1>. QED BY <1>1, <1>2 DEF Once

\* A page leaves out no state object up to the token it returns, and the last
\* page none at all.
LEMMA PageCovers ==
  ASSUME TypeOK, NEW token \in 0 .. 2 * MaxName, NEW next \in 0 .. 2 * MaxName,
         IsNextToken(token, next)
  PROVE  /\ token <= next
         /\ \A n \in StatesIn(Page(token)) : token < stateKey(n) /\ stateKey(n) <= next
         /\ \A n \in Names : records[n] # NoRecord =>
              /\ token < stateKey(n) /\ stateKey(n) <= next => n \in StatesIn(Page(token))
              /\ ~IsTruncated(token) => stateKey(n) <= next
<1>0. MaxName \in Nat /\ PageSize \in Nat /\ token \in Int /\ next \in Int
  BY StoreAssumption DEF StoreAssumption
<1>1. Keys \subseteq 1 .. 2 * MaxName
  <2>1. \A n \in Names : stateKey(n) \in 1 .. 2 * MaxName /\ lockKey(n) \in 1 .. 2 * MaxName
    BY <1>0 DEF Names, stateKey, lockKey
  <2>2. locks \subseteq Names
    BY TypeParts
  <2>. QED BY <2>1, <2>2 DEF Keys
<1>2. IsFiniteSet(Keys)
  <2>1. IsFiniteSet(1 .. 2 * MaxName)
    BY <1>0, FS_Interval
  <2>. QED BY <1>1, <2>1, FS_Subset
<1>3. \A k \in Page(token) : k \in Keys /\ token < k /\ k \in Int
  BY <1>0, <1>1 DEF Page
<1>4. token <= next
  BY <1>0, <1>3 DEF IsNextToken
<1>5. ASSUME NEW k \in Keys, token < k, k <= next
      PROVE  k \in Page(token)
  <2>1. next \in Page(token)
    BY <1>1, <1>5 DEF IsNextToken
  <2> DEFINE before(x) == {j \in Keys : token < j /\ j < x}
  <2>2. Cardinality(before(next)) < PageSize
    BY <2>1 DEF Page
  <2>3. before(k) \subseteq before(next)
    <3>1. \A j \in Keys : j \in Int
      BY <1>1
    <3>. QED BY <1>0, <1>5, <3>1
  <2>4. IsFiniteSet(before(next)) /\ before(next) \subseteq Keys
    BY <1>2, FS_Subset
  <2>5. /\ Cardinality(before(k)) <= Cardinality(before(next))
        /\ Cardinality(before(k)) \in Nat /\ Cardinality(before(next)) \in Nat
    <3>1. IsFiniteSet(before(k))
      BY <2>3, <2>4, FS_Subset
    <3>. QED BY <2>3, <2>4, <3>1, FS_Subset, FS_CardinalityType
  <2>6. Cardinality(before(k)) < PageSize
    BY <1>0, <2>2, <2>5
  <2>. QED BY <1>5, <2>6 DEF Page
<1>6. ASSUME NEW n \in Names, records[n] # NoRecord
      PROVE  stateKey(n) \in Keys /\ stateKey(n) \in Int
  BY <1>0, <1>6 DEF Keys, stateKey, Names
<1>7. ASSUME NEW n \in Names, records[n] # NoRecord, ~IsTruncated(token)
      PROVE  stateKey(n) <= next
  <2>1. CASE stateKey(n) > token
    <3>1. stateKey(n) \in Page(token)
      BY <1>6, <1>7, <2>1 DEF IsTruncated
    <3>. QED BY <3>1 DEF IsNextToken
  <2>2. CASE ~(stateKey(n) > token)
    BY <1>0, <1>4, <1>6, <1>7, <2>2
  <2>. QED BY <2>1, <2>2
<1>8. \A n \in StatesIn(Page(token)) : token < stateKey(n) /\ stateKey(n) <= next
  BY <1>3 DEF StatesIn, IsNextToken
<1>9. ASSUME NEW n \in Names, records[n] # NoRecord, token < stateKey(n), stateKey(n) <= next
      PROVE  n \in StatesIn(Page(token))
  BY <1>5, <1>6, <1>9 DEF StatesIn
<1>. QED BY <1>4, <1>7, <1>8, <1>9

\* The names a listing skipped are finitely many.
LEMMA SkipsAreFinite ==
  ASSUME NEW S \in SUBSET Names
  PROVE  IsFiniteSet(S) /\ Cardinality(S) \in Nat
<1>1. IsFiniteSet(Names)
  BY StoreAssumption, FS_Interval DEF Names, StoreAssumption
<1>. QED BY <1>1, FS_Subset, FS_CardinalityType

\* Losses only grow in number, so that what was skipped stays accounted for.
LEMMA SkipsStay ==
  ASSUME TypeOK, NEW l, SkipsAreLosses(l), l.skipped \subseteq Names,
         losses' = losses \/ losses' = losses - 1
  PROVE  SkipsAreLosses(l)'
<1>1. Cardinality(l.skipped) \in Nat
  BY SkipsAreFinite
<1>2. losses \in Int /\ MaxLosses \in Int
  BY TypeParts, StoreAssumption DEF LossesOK, StoreAssumption
<1>. QED BY <1>1, <1>2 DEF SkipsAreLosses

\* One object more is skipped with one loss more.
LEMMA SkipsGrow ==
  ASSUME TypeOK, NEW l, SkipsAreLosses(l), l.skipped \subseteq Names,
         NEW m, NEW n \in Names, m.skipped = l.skipped \cup {n}, losses' = losses - 1
  PROVE  SkipsAreLosses(m)'
<1>1. Cardinality(l.skipped) \in Nat /\ IsFiniteSet(l.skipped)
  BY SkipsAreFinite
<1>2. losses \in Int /\ MaxLosses \in Int
  BY TypeParts, StoreAssumption DEF LossesOK, StoreAssumption
<1>3. \/ Cardinality(m.skipped) = Cardinality(l.skipped)
      \/ Cardinality(m.skipped) = Cardinality(l.skipped) + 1
  BY <1>1, FS_AddElement
<1>. QED BY <1>1, <1>2, <1>3 DEF SkipsAreLosses

LEMMA NoListingSkips == ASSUME TypeOK' PROVE SkipsAreLosses(NoListing)'
<1>1. NoListing.skipped = {} /\ Cardinality({}) = 0
  BY FS_EmptySet DEF NoListing
<1>2. losses' \in 0 .. MaxLosses /\ MaxLosses \in Nat
  BY TypePartsNext, StoreAssumption DEF LossesOK, StoreAssumption
<1>3. \A x \in 0 .. MaxLosses : 0 <= MaxLosses - x
  BY <1>2
<1>4. 0 <= MaxLosses - losses'
  BY <1>2, <1>3
<1>. QED BY <1>1, <1>4 DEF SkipsAreLosses

\* What client c watches of the bucket stays, or c stops to watch it.
Watched(c) ==
  /\ steady'[c] \subseteq steady[c]
  /\ \A n \in steady'[c] : records'[n] = records[n]

\* A step that leaves the listing alone, but may end another call of its
\* client.
LEMMA QuietReadOK ==
  ASSUME NEW c, ReadOK(c), Watched(c), listing'[c] = listing[c], arg'[c] = arg[c],
         \/ pc'[c] = pc[c] /\ reply'[c] = reply[c]
         \/ pc'[c] \notin {"list page", "list get"} /\ ~Listed(c)'
  PROVE  ReadOK(c)'
<1>1. \A n \in steady'[c] : n \in steady[c] /\ records'[n] = records[n]
  BY DEF Watched
<1>2. HasRead(c, listing[c]) => HasRead(c, listing[c])'
  BY <1>1 DEF HasRead, Past, matchesFilter
<1>3. ReachesAll(c, listing[c]) => ReachesAll(c, listing[c])'
  BY <1>1 DEF ReachesAll
<1>4. Once(listing[c])'
  BY DEF ReadOK, Once, Past
<1>5. \A n \in steady'[c] : records'[n] # NoRecord
  BY <1>1 DEF ReadOK
<1>6. pc'[c] = pc[c] /\ reply'[c] = reply[c] => (Listed(c)' <=> Listed(c))
  BY DEF Listed
<1>. QED BY <1>2, <1>3, <1>4, <1>5, <1>6 DEF ReadOK

\* A step that begins or forgets a listing.
LEMMA FreshReadOK ==
  ASSUME NEW c, ~Listed(c)', listing'[c] = NoListing, pc'[c] # "list get",
         steady'[c] \subseteq {n \in Names : records'[n] # NoRecord}
  PROVE  ReadOK(c)'
<1>1. NoListing.found = << >> /\ NoListing.token = 0 /\ NoListing.todo = {}
  BY DEF NoListing
<1>2. Once(listing[c])'
  <2>1. Once(NoListing)'
    BY NoListingOnce DEF Once, Past
  <2>. QED BY <2>1
<1>3. HasRead(c, listing[c])'
  <2>1. \A n \in steady'[c] : n \in Names /\ ~Past(NoListing, n)
    BY <1>1, KeysCount DEF Past
  <2>. QED BY <2>1 DEF HasRead, Past
<1>. QED BY <1>1, <1>2, <1>3 DEF ReadOK

\* A step of the loop of ListStates.
LEMMA ContinueReadOK ==
  ASSUME TypeOK, NEW c \in Clients, pc[c] \in {"list page", "list get"}, ReadOK(c), NEW l,
         Continue(c, l), UNCHANGED << records, arg, steady >>,
         Once(l), HasRead(c, l), l.more \in BOOLEAN, ~l.more => ReachesAll(c, l)
  PROVE  ReadOK(c)'
<1>1. listing'[c] = l
  BY TypeParts DEF Continue, ListingOK
<1>2. Once(listing[c])' /\ HasRead(c, listing[c])' /\ (~l.more => ReachesAll(c, listing[c])')
  BY <1>1 DEF Once, Past, HasRead, ReachesAll
<1>3. \A n \in steady'[c] : records'[n] # NoRecord
  BY DEF ReadOK
<1>4. ~Listed(c)
  BY DEF ReadOK
<1>5. ASSUME NEW q, Send(c, q) PROVE pc'[c] = q /\ ~Listed(c)'
  BY <1>4, <1>5, TypeParts DEF Send, PcOK, Listed
<1>6. CASE l.todo # {}
  <2>1. pc'[c] = "list get" /\ ~Listed(c)'
    BY <1>5, <1>6 DEF Continue
  <2>. QED BY <1>1, <1>2, <1>3, <2>1 DEF ReadOK
<1>7. CASE l.todo = {} /\ l.more
  <2>1. pc'[c] = "list page" /\ ~Listed(c)'
    BY <1>5, <1>7 DEF Continue
  <2>. QED BY <1>1, <1>2, <1>3, <1>7, <2>1 DEF ReadOK
<1>8. CASE l.todo = {} /\ ~l.more
  <2>1. pc'[c] = "idle"
    BY <1>8, TypeParts DEF Continue, Return, PcOK
  <2>. QED BY <1>1, <1>2, <1>3, <1>8, <2>1 DEF ReadOK
<1>. QED BY <1>6, <1>7, <1>8

\* A page was read.
LEMMA ListPageReadOK ==
  ASSUME TypeOK, NEW c \in Clients, ReadOK(c), ListPage(c)
  PROVE  ReadOK(c)'
<1> DEFINE l == listing[c]
<1>1. l \in ListingType /\ l.token \in 0 .. 2 * MaxName /\ steady[c] \subseteq Names
  BY TypeParts DEF ListingOK, ListingType
<1>2. PICK next \in 0 .. 2 * MaxName :
        /\ IsNextToken(l.token, next)
        /\ Continue(c, [token |-> next, todo |-> StatesIn(Page(l.token)),
                        more |-> IsTruncated(l.token), found |-> l.found,
                        skipped |-> l.skipped])
  BY DEF ListPage
<1> DEFINE m == [token |-> next, todo |-> StatesIn(Page(l.token)),
                 more |-> IsTruncated(l.token), found |-> l.found, skipped |-> l.skipped]
<1>3. /\ m.token = next /\ m.todo = StatesIn(Page(l.token))
      /\ m.more = IsTruncated(l.token) /\ m.found = l.found /\ m.skipped = l.skipped
  OBVIOUS
<1>4. /\ l.token <= next
      /\ \A n \in StatesIn(Page(l.token)) : l.token < stateKey(n) /\ stateKey(n) <= next
      /\ \A n \in Names : records[n] # NoRecord =>
           /\ l.token < stateKey(n) /\ stateKey(n) <= next => n \in StatesIn(Page(l.token))
           /\ ~IsTruncated(l.token) => stateKey(n) <= next
  BY <1>1, <1>2, PageCovers
<1>5. Continue(c, m) /\ pc[c] = "list page" /\ UNCHANGED << records, arg, steady >>
      /\ l.todo = {} /\ Once(l) /\ HasRead(c, l) /\ \A n \in steady[c] : records[n] # NoRecord
  BY <1>2 DEF ListPage, bucket, ReadOK
<1> HIDE DEF m
<1>6. \A n : Past(l, n) /\ stateKey(n) \in Int => Past(m, n)
  BY <1>1, <1>3, <1>4 DEF Past
<1>7. Once(m)
  <2>1. ASSUME NEW i \in DOMAIN l.found
        PROVE  stateKey(sanitizeID[l.found[i].id]) \in Int
    <3>1. l.found[i] \in Record
      BY <1>1 DEF ListingType
    <3>2. sanitizeID[l.found[i].id] \in Names
      BY <3>1, StoreAssumption DEF Record, StoreAssumption
    <3>. QED BY <3>2 DEF stateKey, Names
  <2>. QED BY <1>3, <1>4, <1>5, <1>6, <2>1 DEF Once
<1>8. HasRead(c, m)
  <2>1. ASSUME NEW n \in steady[c], Past(m, n) PROVE Past(l, n)
    <3>1. n \in Names /\ stateKey(n) \in Int /\ records[n] # NoRecord
      <4>1. n \in Names /\ records[n] # NoRecord
        BY <1>1, <1>5
      <4>2. n \in Int
        BY <4>1 DEF Names
      <4>. QED BY <4>1, <4>2 DEF stateKey
    <3>2. ~(l.token < stateKey(n))
      BY <1>3, <1>4, <2>1, <3>1 DEF Past
    <3>3. stateKey(n) <= l.token /\ l.token \in Int
      BY <1>1, <3>1, <3>2
    <3>. QED BY <1>5, <3>3 DEF Past
  <2>. QED BY <1>3, <1>5, <2>1 DEF HasRead
<1>9. ~m.more => ReachesAll(c, m)
  BY <1>1, <1>3, <1>4, <1>5 DEF ReachesAll
<1>10. m.more \in BOOLEAN
  BY <1>3 DEF IsTruncated
<1>. QED BY <1>5, <1>7, <1>8, <1>9, <1>10, ContinueReadOK

\* An object was read.
LEMMA ListGetReadOK ==
  ASSUME TypeOK, Placed, NEW c \in Clients, ReadOK(c), ListGet(c)
  PROVE  ReadOK(c)'
<1> DEFINE l == listing[c]
<1>1. /\ l.found \in Seq(Record) /\ l.todo \subseteq Names /\ l.token \in Int
      /\ l.more \in BOOLEAN /\ steady[c] \subseteq Names
  BY TypeParts DEF ListingOK, ListingType
<1>2. PICK n \in Names : IsNextKey(c, n) /\ NextKey(c, n, records[n])
  BY DEF ListGet
<1> DEFINE keep == records[n] # NoRecord /\ matchesFilter(records[n], arg[c].status)
           m == [token |-> l.token, todo |-> l.todo \ {n}, more |-> l.more,
                 found |-> IF keep THEN Append(l.found, records[n]) ELSE l.found,
                 skipped |-> l.skipped]
<1>3. /\ m.token = l.token /\ m.todo = l.todo \ {n} /\ m.more = l.more
      /\ m.skipped = l.skipped
      /\ m.found = IF keep THEN Append(l.found, records[n]) ELSE l.found
  OBVIOUS
<1>4. /\ Continue(c, m) /\ pc[c] = "list get" /\ UNCHANGED << records, arg, steady >>
      /\ n \in l.todo /\ Once(l) /\ HasRead(c, l) /\ (~l.more => ReachesAll(c, l))
      /\ \A k \in steady[c] : records[k] # NoRecord
  BY <1>2 DEF ListGet, NextKey, IsNextKey, bucket, ReadOK
<1>5. keep => records[n] \in Record /\ sanitizeID[records[n].id] = n
  BY TypeParts DEF MaybeRecord, Placed
<1>6. /\ DOMAIN l.found = 1 .. Len(l.found) /\ Len(l.found) \in Nat
      /\ keep => /\ DOMAIN m.found = 1 .. Len(l.found) + 1
                 /\ m.found[Len(l.found) + 1] = records[n]
                 /\ \A i \in DOMAIN l.found : m.found[i] = l.found[i]
  BY <1>1, <1>3, <1>5
<1>7. PICK g : g = Len(l.found) + 1
  OBVIOUS
<1> HIDE DEF m, keep
<1>8. CASE ~keep
  <2>0. m.found = l.found
    BY <1>3, <1>8
  <2>1. Once(m)
    BY <1>3, <1>4, <2>0 DEF Once, Past
  <2>2. HasRead(c, m)
    <3>1. \A k \in steady[c] : Past(m, k) => Past(l, k) \/ k = n
      BY <1>3 DEF Past
    <3>2. n \in steady[c] => ~matchesFilter(records[n], arg[c].status)
      BY <1>4, <1>8 DEF keep
    <3>. QED BY <1>3, <1>4, <2>0, <3>1, <3>2 DEF HasRead
  <2>3. ~m.more => ReachesAll(c, m)
    BY <1>3, <1>4 DEF ReachesAll
  <2>. QED BY <1>1, <1>3, <1>4, <2>1, <2>2, <2>3, ContinueReadOK
<1>9. CASE keep
  <2>0. /\ DOMAIN m.found = DOMAIN l.found \cup {g} /\ g \notin DOMAIN l.found
        /\ m.found[g] = records[n] /\ \A i \in DOMAIN l.found : m.found[i] = l.found[i]
    BY <1>6, <1>7, <1>9
  <2>1. \A i \in DOMAIN l.found : l.found[i].id # records[n].id
    BY <1>4, <1>5, <1>9 DEF Once, Past
  <2>2. Once(m)
    <3>1. Past(m, n)
      BY <1>3, <1>4 DEF Past, Once
    <3>. QED BY <1>3, <1>4, <1>5, <1>9, <2>0, <2>1 DEF Once, Past
  <2>3. HasRead(c, m)
    <3>1. \A k \in steady[c] : Past(m, k) => Past(l, k) \/ k = n
      BY <1>3 DEF Past
    <3>2. ASSUME NEW k \in steady[c] \ m.skipped, Past(m, k),
                 matchesFilter(records[k], arg[c].status)
          PROVE  \E i \in DOMAIN m.found : m.found[i] = records[k]
      <4>1. CASE k = n
        BY <2>0, <4>1
      <4>2. CASE Past(l, k)
        <5>1. PICK i \in DOMAIN l.found : l.found[i] = records[k]
          BY <1>3, <1>4, <3>2, <4>2 DEF HasRead
        <5>. QED BY <2>0, <5>1
      <4>. QED BY <3>1, <3>2, <4>1, <4>2
    <3>. QED BY <3>2 DEF HasRead
  <2>4. ~m.more => ReachesAll(c, m)
    BY <1>3, <1>4 DEF ReachesAll
  <2>. QED BY <1>1, <1>3, <1>4, <2>2, <2>3, <2>4, ContinueReadOK
<1>. QED BY <1>8, <1>9

\* An object was skipped.
LEMMA SkipKeyReadOK ==
  ASSUME TypeOK, NEW c \in Clients, ReadOK(c), pc[c] = "list get", NEW n \in Names,
         IsNextKey(c, n), SkipKey(c, n), UNCHANGED << records, arg, steady >>
  PROVE  ReadOK(c)'
<1> DEFINE l == listing[c]
           m == [token |-> l.token, todo |-> l.todo \ {n}, more |-> l.more,
                 found |-> l.found, skipped |-> l.skipped \cup {n}]
<1>1. l.more \in BOOLEAN
  BY TypeParts DEF ListingOK, ListingType
<1>2. /\ m.token = l.token /\ m.todo = l.todo \ {n} /\ m.more = l.more
      /\ m.found = l.found /\ m.skipped = l.skipped \cup {n}
  OBVIOUS
<1>3. Continue(c, m) /\ Once(l) /\ HasRead(c, l) /\ (~l.more => ReachesAll(c, l))
  BY DEF SkipKey, ReadOK
<1> HIDE DEF m
<1>4. Once(m)
  BY <1>2, <1>3 DEF Once, Past
<1>5. HasRead(c, m)
  <2>1. \A k \in steady[c] \ m.skipped : Past(m, k) => Past(l, k)
    BY <1>2 DEF Past
  <2>. QED BY <1>2, <1>3, <2>1 DEF HasRead
<1>6. ~m.more => ReachesAll(c, m)
  BY <1>2, <1>3 DEF ReachesAll
<1>. QED BY <1>1, <1>2, <1>3, <1>4, <1>5, <1>6, ContinueReadOK

-----------------------------------------------------------------------------
\* A client that lists sees which records were written.
LEMMA WritesAreWatched ==
  ASSUME TypeOK, NEW c \in Clients, Observe
  PROVE  Watched(c)
BY DEF Observe, Watched

\* What a listing that does not go on has skipped stays accounted for.
LEMMA ListingSkips ==
  ASSUME TypeOK, NEW c \in Clients, SkipsAreLosses(listing[c]), listing'[c] = listing[c],
         losses' = losses \/ losses' = losses - 1
  PROVE  SkipsAreLosses(listing[c])'
<1>1. listing[c].skipped \subseteq Names
  BY TypeParts DEF ListingOK, ListingType
<1>2. PICK l : l = listing[c]
  OBVIOUS
<1>3. SkipsAreLosses(l)'
  BY <1>1, <1>2, SkipsStay
<1>. QED BY <1>2, <1>3 DEF SkipsAreLosses

\* A call other than ListStates returns.
LEMMA ReturnListOK ==
  ASSUME TypeOK, NEW c \in Clients, pc[c] \in Requests \ {"list page", "list get"},
         ListOK(c), NEW err, NEW rec, Return(c, err, rec), UNCHANGED << listing, arg >>, Watched(c),
         losses' = losses \/ losses' = losses - 1
  PROVE  ListOK(c)'
<1>1. pc'[c] = "idle" /\ reply'[c].rpc = rpcOf[pc[c]]
  BY ReplyFields
<1>2. rpcOf[pc[c]] # "list"
  BY DEF rpcOf, Requests
<1>3. ReadOK(c)'
  BY <1>1, <1>2, QuietReadOK DEF ListOK, Listed
<1>4. SkipsAreLosses(listing[c])'
  BY ListingSkips DEF ListOK
<1>5. Saving(c)'
  BY <1>1 DEF Saving
<1>. QED BY <1>3, <1>4, <1>5 DEF ListOK

\* It goes on with its second request.
LEMMA SendListOK ==
  ASSUME TypeOK, NEW c \in Clients, pc[c] # "idle", ListOK(c),
         NEW q \in {"delete state", "delete lock"}, Send(c, q),
         UNCHANGED << listing, arg, records, steady, losses >>
  PROVE  ListOK(c)'
<1>1. pc'[c] = q /\ UNCHANGED reply
  BY TypeParts DEF Send, PcOK
<1>2. ~Listed(c)' /\ Watched(c)
  BY <1>1 DEF ListOK, ReadOK, Listed, Watched
<1>3. ReadOK(c)'
  BY <1>1, <1>2, QuietReadOK DEF ListOK
<1>4. SkipsAreLosses(listing[c])'
  BY ListingSkips DEF ListOK
<1>5. Saving(c)'
  BY <1>1 DEF Saving
<1>. QED BY <1>3, <1>4, <1>5 DEF ListOK

\* A request is repeated or given up, or a body is lost.
LEMMA LossListOK ==
  ASSUME TypeOK, NEW c \in Clients, pc[c] \in Requests, ListOK(c),
         Unanswered(c) \/ BodyLost(c), UNCHANGED arg, Watched(c),
         pc[c] = "list get" => UNCHANGED << records, steady >>
  PROVE  ListOK(c)'
<1>1. losses' = losses - 1
  BY DEF Unanswered, BodyLost
<1>2. CASE UNCHANGED << pc, reply, listing >>
  <2>1. ReadOK(c)'
    BY <1>2, QuietReadOK DEF ListOK
  <2>2. SkipsAreLosses(listing[c])'
    BY <1>1, <1>2, ListingSkips DEF ListOK
  <2>3. Saving(c)'
    BY <1>2 DEF ListOK, Saving
  <2>. QED BY <2>1, <2>2, <2>3 DEF ListOK
<1>3. ASSUME pc[c] = "list get", NEW n \in Names, IsNextKey(c, n), SkipKey(c, n)
      PROVE  ListOK(c)'
  <2>1. ReadOK(c)'
    BY <1>3, SkipKeyReadOK DEF ListOK
  <2>2. PICK l : l = listing[c]
    OBVIOUS
  <2>3. PICK m : m = listing'[c]
    OBVIOUS
  <2>4. m.skipped = l.skipped \cup {n} /\ l.skipped \subseteq Names
    BY <1>3, <2>2, <2>3, TypeParts DEF SkipKey, Continue, ListingOK, ListingType
  <2>5. SkipsAreLosses(m)'
    BY <1>1, <2>2, <2>4, SkipsGrow DEF ListOK
  <2>6. SkipsAreLosses(listing[c])'
    BY <2>3, <2>5 DEF SkipsAreLosses
  <2>7. pc'[c] # "put state"
    BY <1>3, TypeParts DEF SkipKey, Continue, Send, Return, PcOK
  <2>. QED BY <2>1, <2>6, <2>7 DEF ListOK, Saving
<1>4. CASE Return(c, "request failed", NoRecord) /\ UNCHANGED listing
  <2>1. CASE pc[c] \in {"list page", "list get"}
    <3>0. reply'[c].err = "request failed" /\ pc'[c] = "idle"
      BY <1>4, ReplyFields
    <3>1. ~Listed(c)' /\ pc'[c] = "idle"
      BY <3>0 DEF Listed
    <3>2. ReadOK(c)'
      BY <1>4, <3>1, QuietReadOK DEF ListOK
    <3>3. SkipsAreLosses(listing[c])'
      BY <1>1, <1>4, ListingSkips DEF ListOK
    <3>. QED BY <3>1, <3>2, <3>3 DEF ListOK, Saving
  <2>2. CASE pc[c] \notin {"list page", "list get"}
    BY <1>1, <1>4, <2>2, ReturnListOK
  <2>. QED BY <2>1, <2>2
<1>. QED BY <1>2, <1>3, <1>4 DEF Unanswered, BodyLost

\* A call begins.
LEMMA BeginListOK ==
  ASSUME TypeOK, TypeOK', NEW c \in Clients, ListOK(c), NEW rpc, NEW q, NEW a, Begin(c, rpc, q, a),
         q # "list get", q = "put state" => a.rec \in Record /\ a.rec.id = a.id
  PROVE  ListOK(c)'
<1>1. /\ pc'[c] = q /\ arg'[c] = a /\ reply'[c] = NoReply /\ listing'[c] = NoListing
      /\ UNCHANGED << records, tries, losses >>
      /\ steady'[c] \subseteq {n \in Names : records[n] # NoRecord}
  BY TypeParts DEF Begin, PcOK, ReplyOK, ListingOK, bucket, budget
<1>2. ~Listed(c)'
  <2>1. NoReply.rpc = "none"
    BY DEF NoReply
  <2>. QED BY <1>1, <2>1 DEF Listed
<1>3. ReadOK(c)'
  BY <1>1, <1>2, FreshReadOK
<1>4. SkipsAreLosses(listing[c])'
  BY <1>1, NoListingSkips DEF SkipsAreLosses
<1>5. Saving(c)'
  BY <1>1 DEF Saving
<1>. QED BY <1>3, <1>4, <1>5 DEF ListOK

LEMMA IssueListOK ==
  ASSUME TypeOK, TypeOK', NEW c \in Clients, ListOK(c), Issue(c)
  PROVE  ListOK(c)'
<1>1. ASSUME NEW id \in ResourceIDs,
             GetState(c, id) \/ DeleteState(c, id, NoRecord) \/ Lock(c, id) \/ Unlock(c, id)
      PROVE  ListOK(c)'
  BY <1>1, BeginListOK DEF GetState, DeleteState, Lock, Unlock
<1>2. ASSUME NEW st \in Statuses \cup {AnyStatus}, ListStates(c, st)
      PROVE  ListOK(c)'
  BY <1>2, BeginListOK DEF ListStates
<1>3. ASSUME NEW id \in ResourceIDs \cup {EmptyID}, NEW st \in Statuses,
             SaveState(c, [id |-> id, status |-> st, rev |-> 0], NoRecord)
      PROVE  ListOK(c)'
  <2> DEFINE rec == [id |-> id, status |-> st, rev |-> 0]
             a == [id |-> rec.id, rec |-> rec, base |-> NoRecord, status |-> AnyStatus]
  <2>1. a.rec = rec /\ a.id = rec.id /\ rec.id = id
    OBVIOUS
  <2>2. id # EmptyID => rec \in Record
    BY StoreAssumption DEF Record, StoreAssumption
  <2> HIDE DEF rec
  <2>3. CASE rec.id # EmptyID /\ Begin(c, "save", "put state", a)
    <3> HIDE DEF a
    <3>. QED BY <2>1, <2>2, <2>3, BeginListOK
  <2>4. CASE /\ pc[c] = "idle"
             /\ reply' = [reply EXCEPT ![c] =
                            [rpc |-> "save", err |-> "empty id", rec |-> NoRecord]]
             /\ UNCHANGED << bucket, pc, arg, tries, listing, steady, budget >>
    <3>1. ~Listed(c)'
      BY <2>4, TypeParts DEF ReplyOK, Listed
    <3>2. Watched(c)
      BY <2>4 DEF Watched, bucket
    <3>3. ReadOK(c)'
      BY <2>4, <3>1, <3>2, QuietReadOK DEF ListOK
    <3>4. SkipsAreLosses(listing[c])'
      BY <2>4, ListingSkips DEF ListOK, budget
    <3>5. Saving(c)'
      BY <2>4 DEF ListOK, Saving
    <3>. QED BY <3>3, <3>4, <3>5 DEF ListOK
  <2>. QED BY <1>3, <2>3, <2>4 DEF SaveState, rec
<1>. QED BY <1>1, <1>2, <1>3 DEF Issue

LEMMA ServeListOK ==
  ASSUME TypeOK, TypeOK', Placed, NEW c \in Clients, ListOK(c), Serve(c)
  PROVE  ListOK(c)'
<1>1. CASE PutState(c) \/ RemoveState(c)
  <2>1. /\ Watched(c) /\ UNCHANGED arg /\ Carried(c, Return(c, "none", NoRecord))
        /\ pc[c] \in Requests \ {"list page", "list get"}
    BY <1>1, WritesAreWatched DEF PutState, RemoveState, Requests
  <2>. QED BY <2>1, ReturnListOK, LossListOK DEF Carried
<1>2. CASE GetObject(c) \/ HeadState(c) \/ HeadLock(c)
  <2>1. /\ Watched(c) /\ UNCHANGED << arg, listing, records, steady, losses >>
        /\ pc[c] \in Requests \ {"list page", "list get"} /\ pc[c] # "idle"
    BY <1>2 DEF GetObject, HeadState, HeadLock, Requests, Watched, bucket, budget
  <2>2. \/ \E err : \E rec : Return(c, err, rec)
        \/ \E q \in {"delete state", "delete lock"} : Send(c, q)
    BY <1>2 DEF GetObject, HeadState, HeadLock
  <2>. QED BY <2>1, <2>2, ReturnListOK, SendListOK
<1>3. CASE PutLock(c) \/ RemoveLock(c)
  <2>1. /\ Watched(c) /\ UNCHANGED arg
        /\ pc[c] \in Requests \ {"list page", "list get"}
    BY <1>3 DEF PutLock, RemoveLock, Requests, Watched
  <2>2. \/ (\E err : Return(c, err, NoRecord)) /\ UNCHANGED << listing, losses >>
        \/ Unanswered(c)
    BY <1>3 DEF PutLock, RemoveLock, Carried
  <2>. QED BY <2>1, <2>2, ReturnListOK, LossListOK
<1>4. CASE ListPage(c) \/ ListGet(c)
  <2>1. ReadOK(c)'
    BY <1>4, ListPageReadOK, ListGetReadOK DEF ListOK
  <2> DEFINE after(token, todo, more, found) ==
               [token |-> token, todo |-> todo, more |-> more, found |-> found,
                skipped |-> listing[c].skipped]
  <2>2. PICK m : Continue(c, m) /\ m.skipped = listing[c].skipped
    <3>1. \E token, todo, more, found : Continue(c, after(token, todo, more, found))
      BY <1>4 DEF ListPage, ListGet, NextKey
    <3>2. \A token, todo, more, found : after(token, todo, more, found).skipped = listing[c].skipped
      OBVIOUS
    <3>3. PICK token, todo, more, found : Continue(c, after(token, todo, more, found))
      BY <3>1
    <3> HIDE DEF after
    <3>. QED BY <3>2, <3>3
  <2>3. pc'[c] # "put state" /\ listing'[c] = m
    BY <2>2, TypeParts DEF Continue, Send, Return, PcOK, ListingOK
  <2>4. SkipsAreLosses(listing[c])'
    BY <1>4, <2>2, <2>3 DEF ListOK, SkipsAreLosses, ListPage, ListGet, budget
  <2>. QED BY <2>1, <2>3, <2>4 DEF ListOK, Saving
<1>. QED BY <1>1, <1>2, <1>3, <1>4 DEF Serve

LEMMA LostOrCrashedListOK ==
  ASSUME TypeOK, TypeOK', NEW c \in Clients, ListOK(c), RequestLost(c) \/ Crash(c)
  PROVE  ListOK(c)'
<1>1. CASE RequestLost(c)
  <2>1. pc[c] \in Requests
    BY <1>1, TypeParts DEF RequestLost, PcOK
  <2>. QED BY <1>1, <2>1, LossListOK DEF RequestLost, Watched, bucket
<1>2. CASE Crash(c)
  <2>1. /\ pc'[c] = "idle" /\ reply'[c] = NoReply /\ listing'[c] = NoListing /\ steady'[c] = {}
    BY <1>2, TypeParts DEF Crash, PcOK, ReplyOK, ListingOK
  <2>2. ~Listed(c)'
    BY <2>1 DEF Listed, NoReply
  <2>3. ReadOK(c)'
    BY <2>1, <2>2, FreshReadOK
  <2>4. SkipsAreLosses(listing[c])'
    BY <2>1, NoListingSkips DEF SkipsAreLosses
  <2>5. Saving(c)'
    BY <2>1 DEF Saving
  <2>. QED BY <2>3, <2>4, <2>5 DEF ListOK
<1>. QED BY <1>1, <1>2

\* The steps of another client change nothing of c's call.
LEMMA OthersListOK ==
  ASSUME TypeOK, TypeOK', NEW c \in Clients, ListOK(c), NEW d \in Clients, d # c,
         Issue(d) \/ Serve(d) \/ RequestLost(d) \/ Crash(d)
  PROVE  ListOK(c)'
<1> DEFINE Same == pc'[c] = pc[c] /\ reply'[c] = reply[c] /\ listing'[c] = listing[c]
<1> USE TypeParts DEF PcOK, ReplyOK, ListingOK
<1>1. ASSUME NEW err, NEW rec, Return(d, err, rec), UNCHANGED listing
      PROVE  Same
  BY <1>1 DEF Return
<1>2. ASSUME NEW q, Send(d, q), UNCHANGED listing PROVE Same
  BY <1>2 DEF Send
<1>3. ASSUME NEW l, Continue(d, l) PROVE Same
  BY <1>3 DEF Continue, Send, Return
<1>4. ASSUME Unanswered(d) \/ BodyLost(d) PROVE Same
  BY <1>1, <1>3, <1>4 DEF Unanswered, BodyLost, SkipKey
<1>5. Same /\ arg'[c] = arg[c] /\ Watched(c)
  <2>1. CASE Issue(d)
    BY <2>1 DEF Issue, GetState, SaveState, ListStates, DeleteState, Lock, Unlock, Begin, Watched,
       bucket
  <2>2. CASE PutState(d) \/ RemoveState(d)
    BY <1>1, <1>4, <2>2, WritesAreWatched DEF PutState, RemoveState, Carried
  <2>3. CASE GetObject(d) \/ HeadState(d) \/ HeadLock(d)
    BY <1>1, <1>2, <2>3 DEF GetObject, HeadState, HeadLock, Watched, bucket
  <2>4. CASE PutLock(d) \/ RemoveLock(d)
    BY <1>1, <1>4, <2>4 DEF PutLock, RemoveLock, Carried, Watched
  <2>5. CASE ListPage(d) \/ ListGet(d)
    BY <1>3, <2>5 DEF ListPage, ListGet, NextKey, Watched, bucket
  <2>6. CASE RequestLost(d)
    BY <1>4, <2>6 DEF RequestLost, Watched, bucket
  <2>7. CASE Crash(d)
    BY <2>7 DEF Crash, Watched, bucket
  <2>. QED BY <2>1, <2>2, <2>3, <2>4, <2>5, <2>6, <2>7 DEF Serve
<1>6. losses' = losses \/ losses' = losses - 1
  <2>1. CASE Issue(d)
    BY <2>1 DEF Issue, GetState, SaveState, ListStates, DeleteState, Lock, Unlock, Begin, budget
  <2>2. CASE Serve(d)
    BY <2>2 DEF Serve, PutState, RemoveState, Carried, Unanswered, GetObject, HeadState, HeadLock,
       PutLock, RemoveLock, ListPage, ListGet, budget
  <2>3. CASE RequestLost(d) \/ Crash(d)
    BY <2>3 DEF RequestLost, Crash, Unanswered, BodyLost
  <2>. QED BY <2>1, <2>2, <2>3
<1>7. ReadOK(c)'
  BY <1>5, QuietReadOK DEF ListOK
<1>8. SkipsAreLosses(listing[c])'
  BY <1>5, <1>6, ListingSkips DEF ListOK
<1>9. Saving(c)'
  BY <1>5 DEF ListOK, Saving
<1>. QED BY <1>7, <1>8, <1>9 DEF ListOK

\* Records stay under the names of their resources.
LEMMA PlacedNext ==
  ASSUME TypeOK, Placed, NEW d \in Clients, ListOK(d),
         Issue(d) \/ Serve(d) \/ RequestLost(d) \/ Crash(d)
  PROVE  Placed'
<1>1. CASE PutState(d)
  <2>1. /\ name(d) \in Names /\ records' = [records EXCEPT ![name(d)] = arg[d].rec]
        /\ sanitizeID[arg[d].rec.id] = name(d)
    BY <1>1, NameType DEF PutState, ListOK, Saving, name
  <2>. QED BY <2>1, TypeParts DEF Placed
<1>2. CASE RemoveState(d)
  <2>1. name(d) \in Names /\ records' = [records EXCEPT ![name(d)] = NoRecord]
    BY <1>2, NameType DEF RemoveState
  <2>. QED BY <2>1, TypeParts DEF Placed
<1>3. CASE ~(PutState(d) \/ RemoveState(d))
  <2>1. UNCHANGED records
    <3>1. CASE Issue(d)
      BY <3>1 DEF Issue, GetState, SaveState, ListStates, DeleteState, Lock, Unlock, Begin, bucket
    <3>. QED BY <1>3, <3>1, RecordsKept
  <2>. QED BY <2>1 DEF Placed
<1>. QED BY <1>1, <1>2, <1>3

\* When ListStates succeeds it holds every matching record that was there from
\* the call to the return and that it could read, which are all but one for every
\* request or answer that got lost; and no resource twice, although its pages are
\* read at different times and other clients save, delete, lock and unlock in
\* between (s3.go:262-311).
THEOREM ListingsAreExact == Spec => []ListExact
<1>1. Init => ListInv
  <2> SUFFICES ASSUME Init PROVE ListInv
    OBVIOUS
  <2>1. Placed
    BY DEF Init, Placed
  <2>2. ASSUME NEW c \in Clients PROVE ListOK(c)
    <3>1. /\ pc[c] = "idle" /\ tries[c] = 0 /\ reply[c] = NoReply /\ listing[c] = NoListing
          /\ steady[c] = {} /\ losses = MaxLosses
      BY DEF Init
    <3>2. ~Listed(c)
      BY <3>1 DEF Listed, NoReply
    <3>3. ReadOK(c)
      BY <3>1, <3>2, NoListingOnce DEF ReadOK
    <3>4. SkipsAreLosses(listing[c]) /\ Saving(c)
      <4>1. NoListing.skipped = {} /\ Cardinality({}) = 0
        BY FS_EmptySet DEF NoListing
      <4>. QED BY <3>1, <4>1, StoreAssumption DEF SkipsAreLosses, Saving, StoreAssumption
    <3>. QED BY <3>3, <3>4 DEF ListOK
  <2>. QED BY <2>1, <2>2 DEF ListInv
<1>2. TypeOK /\ TypeOK' /\ ListInv /\ [Next]_vars => ListInv'
  <2> SUFFICES ASSUME TypeOK, TypeOK', ListInv, [Next]_vars PROVE ListInv'
    OBVIOUS
  <2>1. CASE Next
    <3>1. PICK d \in Clients : Issue(d) \/ Serve(d) \/ RequestLost(d) \/ Crash(d)
      BY <2>1 DEF Next
    <3>2. Placed /\ ListOK(d) /\ \A c \in Clients : ListOK(c)
      BY DEF ListInv
    <3>3. Placed'
      BY <3>1, <3>2, PlacedNext
    <3>4. ListOK(d)'
      BY <3>1, <3>2, IssueListOK, ServeListOK, LostOrCrashedListOK
    <3>5. \A c \in Clients \ {d} : ListOK(c)'
      BY <3>1, <3>2, OthersListOK
    <3>. QED BY <3>3, <3>4, <3>5 DEF ListInv
  <2>2. CASE UNCHANGED vars
    <3>1. UNCHANGED << records, pc, arg, tries, listing, reply, steady, losses >>
      BY <2>2 DEF vars
    <3>2. Placed'
      BY <3>1 DEF ListInv, Placed
    <3>3. ASSUME NEW c \in Clients PROVE ListOK(c)'
      <4>1. ReadOK(c)'
        BY <3>1, QuietReadOK DEF ListInv, ListOK, Watched
      <4>. QED BY <3>1, <4>1 DEF ListInv, ListOK, SkipsAreLosses, Saving
    <3>. QED BY <3>2, <3>3 DEF ListInv
  <2>. QED BY <2>1, <2>2
<1>3. TypeOK /\ ListInv => ListExact
  <2> SUFFICES ASSUME TypeOK, ListInv, NEW c \in Clients
               PROVE  /\ Listed(c) =>
                           \A n \in steady[c] \ listing[c].skipped :
                             matchesFilter(records[n], arg[c].status) =>
                               \E i \in DOMAIN listing[c].found : listing[c].found[i] = records[n]
                      /\ Cardinality(listing[c].skipped) <= MaxLosses - losses
                      /\ \A i, j \in DOMAIN listing[c].found :
                           listing[c].found[i].id = listing[c].found[j].id => i = j
    BY DEF ListExact
  <2>1. ReadOK(c) /\ Cardinality(listing[c].skipped) <= MaxLosses - losses
    BY DEF ListInv, ListOK, SkipsAreLosses
  <2>2. Listed(c) => \A n \in steady[c] : Past(listing[c], n)
    BY <2>1 DEF ReadOK, ReachesAll, Past
  <2>3. Listed(c) => HasRead(c, listing[c])
    BY <2>1 DEF ReadOK
  <2>. QED BY <2>1, <2>2, <2>3 DEF ReadOK, Once, HasRead
<1>. QED BY <1>1, <1>2, <1>3, TypeCorrect, PTL DEF Spec

=============================================================================
