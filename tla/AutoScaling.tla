------------------------------ MODULE AutoScaling ------------------------------
(***************************************************************************)
(* One infra.autoscaling_group resource: its driver                        *)
(* (drivers/autoscaling_group.go), the part of AWSProvider that plans,     *)
(* imports and destroys it (provider/provider.go) and the engine that      *)
(* records what the driver returned.  Create, Update and Delete are        *)
(* sequences of AWS requests, each of which may fail, carried out or not;  *)
(* the engine may die between two of them and records only a success.      *)
(*                                                                         *)
(* Abstracted: a provider ID is the scalable target it names.  Of a policy *)
(* the model keeps its name, its setting (everything that                  *)
(* policyConfigFingerprint prints: type, target value to two digits,       *)
(* metric, cooldowns, adjustments) and its detail (what it does not print: *)
(* the bounds of the step adjustments, further digits).                    *)
(***************************************************************************)
EXTENDS Integers, Sequences, FiniteSets

CONSTANTS
  Targets,      \* scalable targets: namespace, resource and dimension
  NoTarget,     \* a spec without one of the three
  Capacities,   \* values of min_capacity and max_capacity
  NoCapacity,   \* a spec without one
  Names,        \* policy names
  NoName,       \* a policy without a name
  Settings,     \* what the fingerprint prints of a policy
  Rejected,     \* the settings that putPolicy rejects
  Details,      \* what it does not print
  Roles,        \* values of role_arn
  NoRole,       \* a spec without one, and the role AWS gives then
  Specs,        \* the specs a user may ask for
  NoState,      \* the engine has no record of the resource
  PageSize,     \* policies in one answer of DescribeScalingPolicies
  MaxCommands,  \* bound on what the user does
  MaxFailures,  \* bound on failed requests
  MaxRestarts   \* bound on restarts of the engine

Policy == [name : Names \cup {NoName}, setting : Settings, detail : Details]

ResourceSpec ==
  [target : Targets \cup {NoTarget}, min : Capacities \cup {NoCapacity},
   max : Capacities \cup {NoCapacity}, role : Roles \cup {NoRole},
   policies : Seq(Policy), malformed : BOOLEAN]

ASSUME AutoScalingAssumption ==
  /\ NoTarget \notin Targets /\ NoName \notin Names /\ NoRole \notin Roles
  /\ Capacities \subseteq Nat /\ NoCapacity \notin Capacities
  /\ Rejected \subseteq Settings
  /\ Specs \subseteq ResourceSpec /\ NoState \notin Specs
  /\ PageSize \in Nat /\ MaxCommands \in Nat
  /\ MaxFailures \in Nat /\ MaxRestarts \in Nat

VARIABLES
  spec,      \* what the user asks for
  current,   \* the engine's record: the output of the last success, or NoState
  applied,   \* the spec of the last success, or NoState (observed, never read)
  targets,   \* AWS: the registered targets, their capacities and roles
  policies,  \* AWS: the policies of every target
  pc,        \* the request that is sent next
  op,        \* the operation that is running
  stale,     \* its policies still to delete
  todo,      \* its policies still to put, by their places in the spec
  dirty,     \* an operation has ended half done since the last success
  commands, failures, restarts   \* how many are still to come

record == << current, applied >>
aws    == << targets, policies >>
local  == << pc, op, stale, todo >>
vars   == << spec, record, aws, local, dirty, commands, failures, restarts >>

Init ==
  /\ spec \in Specs
  /\ current = NoState /\ applied = NoState
  /\ targets = << >>
  /\ policies = [t \in Targets |-> << >>]
  /\ pc = "idle" /\ op = "none" /\ stale = {} /\ todo = {}
  /\ dirty = FALSE
  /\ commands = MaxCommands /\ failures = MaxFailures /\ restarts = MaxRestarts

-----------------------------------------------------------------------------
(***************************************************************************)
(* What the driver computes from a spec.                                   *)
(***************************************************************************)

\* The policies, by their places in the list: a malformed entry is an error and
\* yields no policy at all; a policy without a name is skipped.
parsePolicies(s) == {i \in DOMAIN s.policies : ~s.malformed /\ s.policies[i].name # NoName}

\* The policies of one name, and the names.
Named(s, n) == {i \in parsePolicies(s) : s.policies[i].name = n}
desiredNames(s) == {s.policies[i].name : i \in parsePolicies(s)}

\* The names with how often each occurs; the driver sorts and joins them.
desiredPolicyNames(s) == [n \in desiredNames(s) |-> Cardinality(Named(s, n))]

\* Sorted by name: the settings of each name, in the order of the spec (which
\* sort.Slice keeps in lists of up to twelve).
policyConfigFingerprint(s) ==
  LET Nth(n, k) == CHOOSE i \in Named(s, n) : Cardinality({j \in Named(s, n) : j <= i}) = k
  IN [n \in desiredNames(s) |->
        [k \in 1 .. Cardinality(Named(s, n)) |-> s.policies[Nth(n, k)].setting]]

buildOutput(t, min, max, names, fingerprint) ==
  [target |-> t, min |-> min, max |-> max, names |-> names, fingerprint |-> fingerprint]

\* (faulty variant) The output carries no fingerprint.
buildOutputPlain(s) ==
  buildOutput(s.target, s.min, s.max, desiredPolicyNames(s), << >>)

buildOutputWithConfig(s) ==
  buildOutput(s.target, s.min, s.max, desiredPolicyNames(s), policyConfigFingerprint(s))

\* (faulty variant) The capacities may be in any order.
validateCapacityUnordered(s) == s.min # NoCapacity /\ s.max # NoCapacity

validateCapacity(s) == s.min # NoCapacity /\ s.max # NoCapacity /\ s.min <= s.max

\* (faulty variant) Policies are compared by name.
DiffNames(s) ==
  \/ (IF s.min = NoCapacity THEN 0 ELSE s.min) # current.min
  \/ (IF s.max = NoCapacity THEN 1 ELSE s.max) # current.max
  \/ desiredPolicyNames(s) # current.names
  \/ s.target # current.target

\* The spec against the recorded output, which holds neither the role nor a
\* policy's details; AWS is not asked.
Diff(s) ==
  \/ (IF s.min = NoCapacity THEN 0 ELSE s.min) # current.min
  \/ (IF s.max = NoCapacity THEN 1 ELSE s.max) # current.max
  \/ desiredPolicyNames(s) # current.names
  \/ policyConfigFingerprint(s) # current.fingerprint
  \/ s.target # current.target

-----------------------------------------------------------------------------
(***************************************************************************)
(* Operations and requests.                                                *)
(***************************************************************************)

Begin(o, q) ==
  /\ pc' = q /\ op' = o
  /\ UNCHANGED << spec, record, aws, stale, todo, dirty, failures, restarts >>

Return ==
  /\ pc' = "idle" /\ op' = "none" /\ stale' = {} /\ todo' = {}

\* The engine records the output of a success.
Succeed(output, s) == Return /\ current' = output /\ applied' = s /\ dirty' = FALSE

Fail == Return /\ dirty' = TRUE /\ UNCHANGED record

Goto(q) == pc' = q /\ UNCHANGED << op, record, dirty >>

\* AWS refuses a request that is not possible; any request may fail in transit,
\* carried out or not.
Request(possible, effect, ok, error) ==
  /\ \/ possible /\ effect /\ ok /\ UNCHANGED failures
     \/ ~possible /\ UNCHANGED aws /\ error /\ UNCHANGED failures
     \/ /\ failures > 0
        /\ failures' = failures - 1
        /\ UNCHANGED aws \/ (possible /\ effect)
        /\ error
  /\ UNCHANGED << spec, commands, restarts >>

\* The target that the operation works on.
target == IF op = "Delete" THEN current.target ELSE spec.target

\* What AWS does.  (external)
SetPolicy(n, p) ==
  /\ policies' = [t \in Targets |->
                    IF t # target THEN policies[t]
                    ELSE [m \in DOMAIN policies[t] \cup {n} |->
                            IF m = n THEN p ELSE policies[t][m]]]
  /\ UNCHANGED targets

RemovePolicy(n) ==
  /\ policies' = [t \in Targets |->
                    IF t # target THEN policies[t]
                    ELSE [m \in DOMAIN policies[t] \ {n} |-> policies[t][m]]]
  /\ UNCHANGED targets

\* A role that is not given is left as it is.
RoleOf(t) == IF t \in DOMAIN targets THEN targets[t].role ELSE NoRole

Register(t, min, max, role) ==
  LET range == [min |-> min, max |-> max, role |-> IF role = NoRole THEN RoleOf(t) ELSE role]
  IN /\ targets' = [u \in DOMAIN targets \cup {t} |-> IF u = t THEN range ELSE targets[u]]
     /\ UNCHANGED policies

\* The policies of a target go with it.
Deregister(t) ==
  /\ targets' = [u \in DOMAIN targets \ {t} |-> targets[u]]
  /\ policies' = [u \in Targets |-> IF u = t THEN << >> ELSE policies[u]]

\* One page, and no token is followed.
Pages(t) ==
  LET live == DOMAIN policies[t]
  IN {page \in SUBSET live : \/ page = live /\ Cardinality(live) <= PageSize
                             \/ Cardinality(page) = PageSize}

-----------------------------------------------------------------------------
(***************************************************************************)
(* Create and Update: register the target, fetch its policies, delete the  *)
(* stale ones, put the desired ones.                                       *)
(***************************************************************************)

\* A spec that is not valid is an error before the first request.
Create ==
  /\ pc = "idle" /\ current = NoState
  /\ spec.target # NoTarget /\ validateCapacity(spec)
  /\ Begin("Create", "register")
  /\ UNCHANGED commands

\* Plan asks for an update when Diff finds a change.
Update ==
  /\ pc = "idle" /\ current # NoState /\ Diff(spec)
  /\ spec.target = current.target /\ validateCapacity(spec)
  /\ Begin("Update", "register")
  /\ UNCHANGED commands

RegisterScalableTarget ==
  /\ pc = "register"
  /\ Request(TRUE, Register(target, spec.min, spec.max, spec.role),
             Goto("fetch") /\ UNCHANGED << stale, todo >>, Fail)

\* (faulty variant) A malformed policy list counts as an empty one.
syncPoliciesLenient(page) ==
  /\ stale' = page \ desiredNames(spec)
  /\ todo' = parsePolicies(spec)
  /\ Goto("sync")

\* (faulty variant) A spec without policies leaves the live ones alone.
syncPoliciesKeep(page) ==
  \/ spec.malformed /\ Fail
  \/ /\ ~spec.malformed
     /\ stale' = IF spec.policies = << >> THEN {} ELSE page \ desiredNames(spec)
     /\ todo' = parsePolicies(spec)
     /\ Goto("sync")

\* What is to be deleted and put, unless the policies do not parse.
syncPolicies(page) ==
  \/ spec.malformed /\ Fail
  \/ /\ ~spec.malformed
     /\ stale' = page \ desiredNames(spec)
     /\ todo' = parsePolicies(spec)
     /\ Goto("sync")

FetchLivePolicies ==
  /\ pc = "fetch" /\ op # "Delete"
  /\ \E page \in Pages(target) : Request(TRUE, UNCHANGED aws, syncPolicies(page), Fail)

DeleteStalePolicy ==
  /\ pc = "sync"
  /\ \E n \in stale :
       Request(n \in DOMAIN policies[target], RemovePolicy(n),
               Goto("sync") /\ stale' = stale \ {n} /\ UNCHANGED todo, Fail)

\* putPolicy rejects some settings, after everything before them was done.
putPolicy ==
  /\ pc = "sync" /\ stale = {}
  /\ \E i \in todo : LET p == spec.policies[i] IN
     /\ \A j \in todo : i <= j
     /\ \/ /\ p.setting \in Rejected
           /\ Fail /\ UNCHANGED << spec, aws, commands, failures, restarts >>
        \/ /\ p.setting \notin Rejected
           /\ Request(target \in DOMAIN targets,
                      SetPolicy(p.name, [setting |-> p.setting, detail |-> p.detail]),
                      Goto("sync") /\ todo' = todo \ {i} /\ UNCHANGED stale, Fail)

Synced ==
  /\ pc = "sync" /\ stale = {} /\ todo = {}
  /\ Succeed(buildOutputWithConfig(spec), spec)
  /\ UNCHANGED << spec, aws, commands, failures, restarts >>

-----------------------------------------------------------------------------
(***************************************************************************)
(* Delete, Import.                                                         *)
(***************************************************************************)

\* Destroy of the provider, one resource.
Delete ==
  /\ pc = "idle" /\ current # NoState /\ commands > 0
  /\ commands' = commands - 1
  /\ Begin("Delete", "fetch")

\* (faulty variant) Delete goes on when the policies cannot be listed.
FetchForDeleteLenient ==
  /\ pc = "fetch" /\ op = "Delete"
  /\ \E page \in Pages(target) :
       Request(TRUE, UNCHANGED aws, Goto("delete") /\ stale' = page /\ UNCHANGED todo,
               Goto("delete") /\ UNCHANGED << stale, todo >>)

FetchForDelete ==
  /\ pc = "fetch" /\ op = "Delete"
  /\ \E page \in Pages(target) :
       Request(TRUE, UNCHANGED aws, Goto("delete") /\ stale' = page /\ UNCHANGED todo, Fail)

DeletePolicy ==
  /\ pc = "delete"
  /\ \E n \in stale :
       Request(n \in DOMAIN policies[target], RemovePolicy(n),
               Goto("delete") /\ stale' = stale \ {n} /\ UNCHANGED todo, Fail)

DeregisterScalableTarget ==
  /\ pc = "delete" /\ stale = {}
  /\ Request(target \in DOMAIN targets, Deregister(target), Succeed(NoState, NoState), Fail)

\* Read of a registered target becomes the record: it has no fingerprint.
Import ==
  /\ pc = "idle" /\ current = NoState /\ commands > 0
  /\ commands' = commands - 1
  /\ \E t \in DOMAIN targets : \E page \in Pages(t) :
       current' = buildOutput(t, targets[t].min, targets[t].max,
                              [n \in page |-> 1], << >>)
  /\ applied' = NoState /\ dirty' = FALSE
  /\ UNCHANGED << spec, aws, local, failures, restarts >>

-----------------------------------------------------------------------------
\* The user changes the spec.  (external)
Edit ==
  /\ pc = "idle" /\ commands > 0
  /\ commands' = commands - 1
  /\ spec' \in Specs \ {spec}
  /\ UNCHANGED << record, aws, local, dirty, failures, restarts >>

\* The engine dies in the middle of an operation.  (external)
Restart ==
  /\ pc # "idle" /\ restarts > 0
  /\ restarts' = restarts - 1
  /\ Fail
  /\ UNCHANGED << spec, aws, commands, failures >>

Plan == Create \/ Update

Serve ==
  \/ RegisterScalableTarget \/ FetchLivePolicies \/ DeleteStalePolicy \/ putPolicy \/ Synced
  \/ FetchForDelete \/ DeletePolicy \/ DeregisterScalableTarget

Next == Plan \/ Delete \/ Import \/ Serve \/ Edit \/ Restart

Spec == Init /\ [][Next]_vars

\* The engine applies what is planned, and requests are answered.
FairSpec == Spec /\ WF_vars(Plan \/ Serve)

-----------------------------------------------------------------------------
(***************************************************************************)
(* Properties.                                                             *)
(***************************************************************************)

LivePolicy == [setting : Settings \ Rejected, detail : Details]

\* Types; a registered target has ordered capacities, only a registered target
\* has policies, and no policy that putPolicy rejects is ever live.
TypeOK ==
  /\ spec \in Specs
  /\ \A t \in DOMAIN targets :
       /\ t \in Targets /\ {targets[t].min, targets[t].max} \subseteq Capacities
       /\ targets[t].min <= targets[t].max /\ targets[t].role \in Roles \cup {NoRole}
  /\ \A t \in Targets :
       /\ DOMAIN policies[t] \subseteq Names
       /\ \A n \in DOMAIN policies[t] : policies[t][n] \in LivePolicy
       /\ t \notin DOMAIN targets => policies[t] = << >>
  /\ current # NoState => current.target \in Targets
  /\ applied \in Specs \cup {NoState}
  /\ pc \in {"idle", "register", "fetch", "sync", "delete"}
  /\ op \in {"none", "Create", "Update", "Delete"} /\ (op = "none" <=> pc = "idle")
  /\ stale \subseteq Names /\ todo \subseteq parsePolicies(spec) /\ dirty \in BOOLEAN

\* The place of the last policy of a name, the one that stays in AWS.
LastNamed(s, n) == CHOOSE i \in Named(s, n) : \A j \in Named(s, n) : j <= i

\* AWS is as a spec says in what Diff compares: the target, its capacities, the
\* names of its policies and what the fingerprint prints of them.
Shows(s) ==
  /\ s.target \in DOMAIN targets
  /\ targets[s.target].min = s.min /\ targets[s.target].max = s.max
  /\ DOMAIN policies[s.target] = desiredNames(s)
  /\ \A n \in desiredNames(s) :
       policies[s.target][n].setting = s.policies[LastNamed(s, n)].setting

\* And in what it does not: the role, if one is given, and the details.
Matches(s) ==
  /\ Shows(s)
  /\ s.role # NoRole => targets[s.target].role = s.role
  /\ \A n \in desiredNames(s) :
       policies[s.target][n].detail = s.policies[LastNamed(s, n)].detail

\* syncPolicies "reconciles desired policies with live policies" (line 473):
\* when Create or Update succeeds AWS is as the spec says, whatever earlier
\* operations that failed have left there.
AppliedExactly ==
  [][(op \in {"Create", "Update"} /\ current' # current) => Matches(spec)]_vars

\* "Diff computes whether the desired spec diverges from the current output"
\* (line 235): unless an operation failed half done since the last success, the
\* spec applied last is still in AWS entirely, and a valid spec with nothing to
\* update is there in everything that Diff compares.  A later change of role_arn
\* or of a policy's details is never applied; the comment goes on to say
\* otherwise of step_adjustments (line 237), whose bounds are such details.
NoSilentDrift ==
  pc = "idle" /\ current # NoState /\ ~dirty =>
    /\ applied # NoState => Matches(applied)
    /\ ~spec.malformed /\ validateCapacity(spec) /\ ~Diff(spec) => Shows(spec)

\* "reconciliation can fail safely without destructive deletes" (line 535):
\* Create and Update take away only policies that a well-formed spec does not
\* name; a policy that is kept is never absent on the way.
DeletesOnlyStale ==
  [][\A t \in Targets : \A n \in DOMAIN policies[t] \ DOMAIN policies'[t] :
       op \in {"Create", "Update"} => ~spec.malformed /\ n \notin desiredNames(spec)]_vars

\* Delete removes "all scaling policies then deregisters the scalable target"
\* (line 202): the target goes last, and only by Delete.
DeregisterLast ==
  [][\A t \in DOMAIN targets \ DOMAIN targets' : op = "Delete" /\ policies[t] = << >>]_vars

\* When the user and the failures come to rest, every valid spec of the recorded
\* target is applied once and for all: no plan asks for an update forever.
Settles ==
  <>[](/\ validateCapacity(spec) /\ spec.target # NoTarget /\ ~spec.malformed
       /\ \A i \in DOMAIN spec.policies : spec.policies[i].setting \notin Rejected
       /\ current # NoState => current.target = spec.target
       => pc = "idle" /\ current # NoState /\ ~Diff(spec))
=============================================================================
