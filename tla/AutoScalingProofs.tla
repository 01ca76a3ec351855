--------------------------- MODULE AutoScalingProofs ---------------------------
(***************************************************************************)
(* The driver of infra.autoscaling_group reconciles AWS with the spec, for *)
(* any targets, policies and specs and whichever requests fail.            *)
(*                                                                         *)
(* IInv holds without any hypothesis.  What the driver reads of AWS is one *)
(* page of DescribeScalingPolicies; that this is all of them (OnePage) is  *)
(* the hypothesis of PageOK and of the theorems that rest on it.           *)
(***************************************************************************)
EXTENDS AutoScaling, FiniteSetTheorems, TLAPS

\* The relation "less than" on the natural numbers as a set of pairs.
LEMMA LessOnNat == OpToRel(<, Nat) = {ss \in Nat \X Nat : ss[1] < ss[2]}
BY Zenon DEF OpToRel

\* A set of numbers has a least one.
LEMMA LeastNumber ==
  ASSUME NEW S \in SUBSET Nat, S # {}
  PROVE  \E m \in S : \A k \in S : m <= k
<1> DEFINE R == {ss \in Nat \X Nat : ss[1] < ss[2]}
<1>1. IsWellFoundedOn(R, Nat)
  BY NatLessThanWellFounded, LessOnNat, Zenon
<1>2. \E x \in S : \A y \in S : << y, x >> \notin R
  <2> HIDE DEF R
  <2>. QED BY <1>1, WFMin
<1>3. \A x, y \in Nat : << y, x >> \notin R => x <= y
  OBVIOUS
<1>. QED BY <1>2, <1>3

\* A set of places in a list has a last one.
LEMMA GreatestNumber ==
  ASSUME NEW m \in Nat, NEW S \in SUBSET (1 .. m), S # {}
  PROVE  \E i \in S : \A j \in S : j <= i
<1> DEFINE T == {m - i : i \in S}
<1>0. \A i \in S : i \in 1 .. m /\ m - i \in Nat
  OBVIOUS
<1>1. T \in SUBSET Nat /\ T # {}
  BY <1>0
<1>2. PICK k \in T : \A l \in T : k <= l
  <2> HIDE DEF T
  <2>. QED BY <1>1, LeastNumber
<1>3. PICK i \in S : k = m - i
  BY <1>2
<1>4. \A j \in S : m - i <= m - j
  BY <1>2, <1>3
<1>. QED BY <1>4

\* The last of a set of places is the one with as many up to it as there are.
LEMMA RankOfGreatest ==
  ASSUME NEW m \in Nat, NEW S \in SUBSET (1 .. m),
         NEW last \in S, \A j \in S : j <= last
  PROVE  (CHOOSE i \in S : Cardinality({j \in S : j <= i}) = Cardinality(S)) = last
<1>1. IsFiniteSet(S)
  <2>1. 1 \in Int /\ m \in Int
    OBVIOUS
  <2>2. IsFiniteSet(1 .. m)
    BY <2>1, FS_Interval
  <2>. QED BY <2>2, FS_Subset
<1>2. {j \in S : j <= last} = S
  OBVIOUS
<1>3. ASSUME NEW i \in S, Cardinality({j \in S : j <= i}) = Cardinality(S)
      PROVE  i = last
  <2>1. {j \in S : j <= i} \in SUBSET S
    OBVIOUS
  <2>2. {j \in S : j <= i} = S
    BY <1>1, <1>3, <2>1, FS_Subset
  <2>. QED BY <2>2
<1>. QED BY <1>2, <1>3

-----------------------------------------------------------------------------
\* The types of the policies of a spec.
LEMMA PoliciesOfSpec ==
  ASSUME NEW s \in Specs
  PROVE  /\ Len(s.policies) \in Nat
         /\ DOMAIN s.policies = 1 .. Len(s.policies)
         /\ parsePolicies(s) \subseteq 1 .. Len(s.policies)
         /\ \A i \in parsePolicies(s) :
              s.policies[i].name \in Names /\ s.policies[i].setting \in Settings
              /\ s.policies[i].detail \in Details
         /\ desiredNames(s) \subseteq Names
<1>1. s.policies \in Seq(Policy)
  BY AutoScalingAssumption DEF ResourceSpec
<1>2. \A i \in DOMAIN s.policies : s.policies[i] \in Policy
  BY <1>1
<1>. QED BY <1>1, <1>2 DEF parsePolicies, desiredNames, Policy

\* A desired name has a last policy.
LEMMA LastNamedProperties ==
  ASSUME NEW s \in Specs, NEW n \in desiredNames(s)
  PROVE  /\ Named(s, n) \subseteq parsePolicies(s)
         /\ LastNamed(s, n) \in Named(s, n)
         /\ \A j \in Named(s, n) : j <= LastNamed(s, n)
         /\ s.policies[LastNamed(s, n)].name = n
<1>1. Named(s, n) # {} /\ Named(s, n) \subseteq parsePolicies(s)
  BY DEF Named, desiredNames
<1>2. \E i \in Named(s, n) : \A j \in Named(s, n) : j <= i
  <2>1. Named(s, n) \in SUBSET (1 .. Len(s.policies)) /\ Len(s.policies) \in Nat
    BY <1>1, PoliciesOfSpec
  <2>. QED BY <1>1, <2>1, GreatestNumber
<1>3. LastNamed(s, n) \in Named(s, n) /\ \A j \in Named(s, n) : j <= LastNamed(s, n)
  BY <1>2 DEF LastNamed
<1>. QED BY <1>1, <1>3 DEF Named

\* The fingerprint prints the setting of the last policy of every name as the
\* last of that name.
LEMMA FingerprintOfLast ==
  ASSUME NEW s \in Specs, NEW n \in desiredNames(s)
  PROVE  /\ Cardinality(Named(s, n)) \in 1 .. Cardinality(Named(s, n))
         /\ policyConfigFingerprint(s)[n][Cardinality(Named(s, n))]
              = s.policies[LastNamed(s, n)].setting
<1> DEFINE I == Named(s, n)
           c == Cardinality(I)
           Nth(m, k) == CHOOSE i \in Named(s, m) : Cardinality({j \in Named(s, m) : j <= i}) = k
<1>1. I \in SUBSET (1 .. Len(s.policies)) /\ Len(s.policies) \in Nat
  BY PoliciesOfSpec, LastNamedProperties
<1>2. LastNamed(s, n) \in I /\ \A j \in I : j <= LastNamed(s, n)
  BY LastNamedProperties
<1>3. c \in Nat /\ c # 0
  <2>1. IsFiniteSet(1 .. Len(s.policies))
    BY <1>1, FS_Interval
  <2>2. IsFiniteSet(I)
    BY <1>1, <2>1, FS_Subset
  <2>. QED BY <1>2, <2>2, FS_CardinalityType, FS_EmptySet
<1>4. Nth(n, c) = LastNamed(s, n)
  <2> HIDE DEF I
  <2>1. (CHOOSE i \in I : Cardinality({j \in I : j <= i}) = Cardinality(I)) = LastNamed(s, n)
    BY <1>1, <1>2, RankOfGreatest
  <2>. QED BY <2>1 DEF I
<1>5. policyConfigFingerprint(s)
        = [m \in desiredNames(s) |->
             [k \in 1 .. Cardinality(Named(s, m)) |-> s.policies[Nth(m, k)].setting]]
  BY DEF policyConfigFingerprint
<1>. QED
  <2> HIDE DEF Nth
  <2>. QED BY <1>3, <1>4, <1>5

\* Two specs with the same names and fingerprint have the same settings in
\* their last policies, whatever comes before those: what Diff compares is
\* enough to know what AWS is to have.
LEMMA SameFingerprint ==
  ASSUME NEW s \in Specs, NEW r \in Specs,
         desiredPolicyNames(s) = desiredPolicyNames(r),
         policyConfigFingerprint(s) = policyConfigFingerprint(r)
  PROVE  /\ desiredNames(s) = desiredNames(r)
         /\ \A n \in desiredNames(s) :
              s.policies[LastNamed(s, n)].setting = r.policies[LastNamed(r, n)].setting
<1>1. desiredNames(s) = desiredNames(r)
  BY DEF desiredPolicyNames
<1>2. ASSUME NEW n \in desiredNames(s)
      PROVE  s.policies[LastNamed(s, n)].setting = r.policies[LastNamed(r, n)].setting
  <2>1. Cardinality(Named(s, n)) = Cardinality(Named(r, n))
    BY <1>1 DEF desiredPolicyNames
  <2>. QED BY <1>1, <2>1, FingerprintOfLast
<1>. QED BY <1>1, <1>2

-----------------------------------------------------------------------------
\* What AWS keeps of a registered target.
ScalableTarget == [min : Capacities, max : Capacities, role : Roles \cup {NoRole}]

\* What AWS has: registered targets with ordered capacities, policies only of
\* those, none that putPolicy rejects.
AwsOK ==
  /\ DOMAIN targets \subseteq Targets
  /\ \A t \in DOMAIN targets :
       targets[t] \in ScalableTarget /\ targets[t].min <= targets[t].max
  /\ \A t \in Targets :
       /\ policies[t] \in [DOMAIN policies[t] -> LivePolicy]
       /\ DOMAIN policies[t] \subseteq Names
       /\ t \notin DOMAIN targets => policies[t] = << >>

\* Which request of which operation may come next; a running Create or Update
\* has a valid spec with a target.
ControlOK ==
  /\ spec \in Specs /\ dirty \in BOOLEAN
  /\ current # NoState => current.target \in Targets
  /\ applied \in Specs \cup {NoState}
  /\ pc \in {"idle", "register", "fetch", "sync", "delete"}
  /\ op \in {"none", "Create", "Update", "Delete"} /\ (op = "none" <=> pc = "idle")
  /\ pc \in {"register", "sync"} => op # "Delete"
  /\ pc = "delete" => op = "Delete"
  /\ op \in {"Create", "Update"} => spec.target \in Targets /\ validateCapacity(spec)
  /\ op = "Delete" => current # NoState

\* A policy of the spec is in AWS as the spec has it.
InPlace(i) ==
  LET p == spec.policies[i]
  IN /\ p.name \in DOMAIN policies[spec.target]
     /\ policies[spec.target][p.name] = [setting |-> p.setting, detail |-> p.detail]

\* A target is registered as a spec says.
Registered(s) ==
  /\ s.target \in DOMAIN targets
  /\ targets[s.target].min = s.min /\ targets[s.target].max = s.max
  /\ s.role # NoRole => targets[s.target].role = s.role

\* The policies that the running operation has put.
Done == parsePolicies(spec) \ todo

\* Where the operation is: the target is registered as the spec says, only
\* policies that the spec does not name are to be deleted, policies are put in
\* their order, and of those that are done the last of every name is in place.
SyncOK ==
  /\ stale \subseteq Names /\ todo \subseteq parsePolicies(spec)
  /\ pc = "idle" => todo = {}
  /\ op \in {"Create", "Update"} /\ pc # "register" => Registered(spec)
  /\ pc = "sync" =>
       /\ ~spec.malformed /\ stale \cap desiredNames(spec) = {}
       /\ \A i \in Done : \A j \in todo : i < j
       /\ \A i \in Done :
            (\A j \in Done : spec.policies[j].name = spec.policies[i].name => j <= i)
              => InPlace(i)

\* The inductive invariant.
IInv == AwsOK /\ ControlOK /\ SyncOK

\* One page of DescribeScalingPolicies holds all policies a target can have.
OnePage == IsFiniteSet(Names) /\ Cardinality(Names) <= PageSize

\* Then an operation knows all policies of its target: besides the desired ones
\* only those it is going to delete.
PageOK ==
  /\ pc = "sync" => DOMAIN policies[spec.target] \subseteq stale \cup desiredNames(spec)
  /\ pc = "delete" => DOMAIN policies[current.target] \subseteq stale

\* After a success AWS has the spec that was applied, and shows every spec that
\* Diff finds nothing to change for.
RecordOK ==
  pc = "idle" /\ current # NoState /\ ~dirty =>
    /\ applied # NoState => Matches(applied)
    /\ \A s \in Specs : ~s.malformed /\ validateCapacity(s) /\ ~Diff(s) => Shows(s)

-----------------------------------------------------------------------------
\* A running operation has a target: that of the record for Delete, else that
\* of the spec.
LEMMA TargetType ==
  ASSUME ControlOK, op # "none"
  PROVE  /\ target \in Targets
         /\ op \in {"Create", "Update"} => target = spec.target
         /\ op = "Delete" => target = current.target
BY DEF ControlOK, target

\* validateCapacity lets only ordered capacities through.
LEMMA ValidCapacities ==
  ASSUME NEW s \in Specs, validateCapacity(s)
  PROVE  /\ s.min \in Capacities /\ s.max \in Capacities /\ s.min <= s.max
         /\ s.role \in Roles \cup {NoRole}
BY AutoScalingAssumption DEF validateCapacity, ResourceSpec

\* A step that leaves AWS alone keeps AwsOK; so does every request that changes
\* it:
LEMMA AwsUnchanged ==
  ASSUME AwsOK, UNCHANGED aws
  PROVE  AwsOK'
BY DEF AwsOK, aws

\* RegisterScalableTarget,
LEMMA AwsRegister ==
  ASSUME AwsOK, NEW t \in Targets, NEW min \in Capacities, NEW max \in Capacities, min <= max,
         NEW role \in Roles \cup {NoRole}, Register(t, min, max, role)
  PROVE  AwsOK'
<1> DEFINE range == [min |-> min, max |-> max, role |-> IF role = NoRole THEN RoleOf(t) ELSE role]
<1>0. range \in ScalableTarget /\ range.min <= range.max
  <2>1. RoleOf(t) \in Roles \cup {NoRole}
    BY DEF RoleOf, AwsOK, ScalableTarget
  <2>. QED BY <2>1 DEF ScalableTarget
<1> HIDE DEF range
<1>1. /\ targets' = [u \in DOMAIN targets \cup {t} |-> IF u = t THEN range ELSE targets[u]]
      /\ policies' = policies
  BY DEF Register, range
<1>2. DOMAIN targets' \subseteq Targets
  BY <1>1 DEF AwsOK
<1>3. \A u \in DOMAIN targets' :
        targets'[u] \in ScalableTarget /\ targets'[u].min <= targets'[u].max
  BY <1>0, <1>1 DEF AwsOK
<1>. QED BY <1>1, <1>2, <1>3 DEF AwsOK

\* PutScalingPolicy,
LEMMA AwsSetPolicy ==
  ASSUME AwsOK, target \in DOMAIN targets, NEW n \in Names, NEW p \in LivePolicy, SetPolicy(n, p)
  PROVE  AwsOK'
<1>1. /\ policies' = [t \in Targets |->
                        IF t # target THEN policies[t]
                        ELSE [m \in DOMAIN policies[t] \cup {n} |->
                                IF m = n THEN p ELSE policies[t][m]]]
      /\ targets' = targets
  BY DEF SetPolicy
<1>2. ASSUME NEW t \in Targets
      PROVE  /\ policies'[t] \in [DOMAIN policies'[t] -> LivePolicy]
             /\ DOMAIN policies'[t] \subseteq Names
             /\ t \notin DOMAIN targets' => policies'[t] = << >>
  <2> HIDE DEF LivePolicy
  <2>1. CASE t # target
    BY <1>1, <2>1 DEF AwsOK
  <2>2. CASE t = target
    BY <1>1, <2>2 DEF AwsOK
  <2>. QED BY <2>1, <2>2
<1>. QED BY <1>1, <1>2 DEF AwsOK

\* DeleteScalingPolicy,
LEMMA AwsRemovePolicy ==
  ASSUME AwsOK, NEW n, RemovePolicy(n)
  PROVE  AwsOK'
<1>1. /\ policies' = [t \in Targets |->
                        IF t # target THEN policies[t]
                        ELSE [m \in DOMAIN policies[t] \ {n} |-> policies[t][m]]]
      /\ targets' = targets
  BY DEF RemovePolicy
<1>2. ASSUME NEW t \in Targets
      PROVE  /\ policies'[t] \in [DOMAIN policies'[t] -> LivePolicy]
             /\ DOMAIN policies'[t] \subseteq Names
             /\ t \notin DOMAIN targets' => policies'[t] = << >>
  <2>1. CASE t # target
    BY <1>1, <2>1 DEF AwsOK
  <2>2. CASE t = target
    BY <1>1, <2>2 DEF AwsOK
  <2>. QED BY <2>1, <2>2
<1>. QED BY <1>1, <1>2 DEF AwsOK

\* and DeregisterScalableTarget, with which the policies go.
LEMMA AwsDeregister ==
  ASSUME AwsOK, NEW t \in Targets, Deregister(t)
  PROVE  AwsOK'
<1>1. /\ targets' = [u \in DOMAIN targets \ {t} |-> targets[u]]
      /\ policies' = [u \in Targets |-> IF u = t THEN << >> ELSE policies[u]]
  BY DEF Deregister
<1>2. ASSUME NEW u \in Targets
      PROVE  /\ policies'[u] \in [DOMAIN policies'[u] -> LivePolicy]
             /\ DOMAIN policies'[u] \subseteq Names
             /\ u \notin DOMAIN targets' => policies'[u] = << >>
  BY <1>1 DEF AwsOK
<1>3. \A u \in DOMAIN targets' : u \in DOMAIN targets /\ targets'[u] = targets[u]
  BY <1>1
<1>. QED BY <1>2, <1>3 DEF AwsOK

\* So every step keeps AwsOK.
LEMMA AwsStep ==
  ASSUME IInv, [Next]_vars
  PROVE  AwsOK'
<1> USE DEF IInv
<1>1. CASE Plan \/ Delete \/ Import \/ Edit \/ Restart \/ Synced \/ UNCHANGED vars
  <2>1. UNCHANGED aws
    BY <1>1 DEF Plan, Create, Update, Delete, Import, Edit, Restart, Synced, Begin, vars
  <2>. QED BY <2>1, AwsUnchanged
<1>2. CASE FetchLivePolicies \/ FetchForDelete
  <2>1. UNCHANGED aws
    BY <1>2 DEF FetchLivePolicies, FetchForDelete, Request
  <2>. QED BY <2>1, AwsUnchanged
<1>3. CASE RegisterScalableTarget
  <2>1. pc = "register"
    BY <1>3 DEF RegisterScalableTarget
  <2>2. spec \in Specs /\ target \in Targets /\ validateCapacity(spec)
    BY <2>1, TargetType DEF ControlOK
  <2>3. UNCHANGED aws \/ Register(target, spec.min, spec.max, spec.role)
    BY <1>3 DEF RegisterScalableTarget, Request
  <2>. QED BY <2>2, <2>3, AwsUnchanged, AwsRegister, ValidCapacities
<1>4. CASE DeleteStalePolicy \/ DeletePolicy
  <2>1. UNCHANGED aws \/ \E n \in stale : RemovePolicy(n)
    BY <1>4 DEF DeleteStalePolicy, DeletePolicy, Request
  <2>. QED BY <2>1, AwsUnchanged, AwsRemovePolicy
<1>5. CASE putPolicy
  <2>1. UNCHANGED aws
        \/ \E i \in todo :
             /\ spec.policies[i].setting \notin Rejected /\ target \in DOMAIN targets
             /\ SetPolicy(spec.policies[i].name,
                          [setting |-> spec.policies[i].setting, detail |-> spec.policies[i].detail])
    BY <1>5 DEF putPolicy, Request
  <2>2. \A i \in todo : spec.policies[i].name \in Names /\ spec.policies[i].setting \in Settings
                      /\ spec.policies[i].detail \in Details
    BY PoliciesOfSpec DEF SyncOK, ControlOK
  <2>3. \A i \in todo : spec.policies[i].setting \notin Rejected =>
          [setting |-> spec.policies[i].setting, detail |-> spec.policies[i].detail] \in LivePolicy
    BY <2>2 DEF LivePolicy
  <2>. QED BY <2>1, <2>2, <2>3, AwsUnchanged, AwsSetPolicy
<1>6. CASE DeregisterScalableTarget
  <2>1. pc = "delete"
    BY <1>6 DEF DeregisterScalableTarget
  <2>2. target \in Targets
    BY <2>1, TargetType DEF ControlOK
  <2>3. UNCHANGED aws \/ Deregister(target)
    BY <1>6 DEF DeregisterScalableTarget, Request
  <2>. QED BY <2>2, <2>3, AwsUnchanged, AwsDeregister
<1>. QED BY <1>1, <1>2, <1>3, <1>4, <1>5, <1>6 DEF Next, Serve

-----------------------------------------------------------------------------
\* An operation that ends,
LEMMA ControlReturn ==
  ASSUME ControlOK, Return, spec' = spec, dirty' \in BOOLEAN, applied' \in Specs \cup {NoState},
         current' # NoState => current'.target \in Targets
  PROVE  ControlOK'
BY DEF ControlOK, Return

\* one that fails,
LEMMA ControlFail ==
  ASSUME ControlOK, Fail, spec' = spec
  PROVE  ControlOK'
BY ControlReturn DEF ControlOK, Fail, record

\* and one that goes on keep ControlOK;
LEMMA ControlGoto ==
  ASSUME ControlOK, NEW q, Goto(q), spec' = spec, pc # "idle",
         q \in {"fetch", "sync", "delete"},
         q = "sync" => op # "Delete", q = "delete" => op = "Delete"
  PROVE  ControlOK'
BY DEF ControlOK, Goto, validateCapacity, record

\* so does every step.
LEMMA ControlStep ==
  ASSUME IInv, [Next]_vars
  PROVE  ControlOK'
<1> USE DEF IInv
<1>1. CASE Create
  <2>1. spec.target \in Targets
    BY <1>1, AutoScalingAssumption DEF Create, ControlOK, ResourceSpec
  <2>. QED BY <1>1, <2>1 DEF Create, Begin, ControlOK, validateCapacity, record
<1>2. CASE Update
  BY <1>2 DEF Update, Begin, ControlOK, validateCapacity, record
<1>3. CASE Delete
  BY <1>3 DEF Delete, Begin, ControlOK, record
<1>4. CASE Import
  <2>1. /\ pc = "idle" /\ UNCHANGED << spec, pc, op >> /\ dirty' = FALSE
        /\ applied' = NoState
        /\ \E t \in DOMAIN targets : current'.target = t
    BY <1>4 DEF Import, buildOutput, local
  <2>. QED BY <2>1 DEF ControlOK, AwsOK
<1>5. CASE Edit
  BY <1>5 DEF Edit, ControlOK, local, record
<1>6. CASE Restart
  BY <1>6, ControlFail DEF Restart
<1>7. CASE RegisterScalableTarget
  <2>1. pc = "register" /\ spec' = spec /\ (Goto("fetch") \/ Fail)
    BY <1>7 DEF RegisterScalableTarget, Request
  <2>. QED BY <2>1, ControlFail, ControlGoto
<1>8. CASE FetchLivePolicies
  <2>1. pc = "fetch" /\ op # "Delete" /\ spec' = spec /\ (Goto("sync") \/ Fail)
    BY <1>8 DEF FetchLivePolicies, Request, syncPolicies
  <2>. QED BY <2>1, ControlFail, ControlGoto
<1>9. CASE DeleteStalePolicy \/ putPolicy
  <2>1. pc = "sync" /\ spec' = spec /\ (Goto("sync") \/ Fail)
    BY <1>9 DEF DeleteStalePolicy, putPolicy, Request
  <2>2. op # "Delete"
    BY <2>1 DEF ControlOK
  <2>. QED BY <2>1, <2>2, ControlFail, ControlGoto
<1>10. CASE Synced
  <2>1. pc = "sync" /\ spec' = spec /\ Return /\ dirty' = FALSE
        /\ current' = buildOutputWithConfig(spec) /\ applied' = spec
    BY <1>10 DEF Synced, Succeed
  <2>2. current'.target \in Targets /\ spec \in Specs
    BY <2>1 DEF ControlOK, buildOutputWithConfig, buildOutput
  <2>. QED BY <2>1, <2>2, ControlReturn
<1>11. CASE FetchForDelete
  <2>1. pc = "fetch" /\ op = "Delete" /\ spec' = spec /\ (Goto("delete") \/ Fail)
    BY <1>11 DEF FetchForDelete, Request
  <2>. QED BY <2>1, ControlFail, ControlGoto
<1>12. CASE DeletePolicy
  <2>1. pc = "delete" /\ spec' = spec /\ (Goto("delete") \/ Fail)
    BY <1>12 DEF DeletePolicy, Request
  <2>2. op = "Delete"
    BY <2>1 DEF ControlOK
  <2>. QED BY <2>1, <2>2, ControlFail, ControlGoto
<1>13. CASE DeregisterScalableTarget
  <2>1. spec' = spec /\ (Fail \/ (Return /\ dirty' = FALSE /\ current' = NoState /\ applied' = NoState))
    BY <1>13 DEF DeregisterScalableTarget, Request, Succeed
  <2>. QED BY <2>1, ControlFail, ControlReturn
<1>14. CASE UNCHANGED vars
  BY <1>14 DEF ControlOK, vars, local, validateCapacity, record
<1>. QED BY <1>1, <1>2, <1>3, <1>4, <1>5, <1>6, <1>7, <1>8, <1>9, <1>10, <1>11, <1>12, <1>13, <1>14
        DEF Next, Plan, Serve

\* An operation that ends leaves nothing to do.
LEMMA SyncReturn ==
  ASSUME ControlOK, Return
  PROVE  SyncOK'
BY DEF SyncOK, Return

\* Every step keeps SyncOK.
LEMMA SyncStep ==
  ASSUME IInv, [Next]_vars
  PROVE  SyncOK'
<1> USE DEF IInv
<1>1. CASE Create \/ Update \/ Delete
  <2>1. pc = "idle" /\ UNCHANGED << spec, stale, todo >>
        /\ pc' \in {"register", "fetch"} /\ (pc' = "fetch" => op' = "Delete")
    BY <1>1 DEF Create, Update, Delete, Begin
  <2>. QED BY <2>1 DEF SyncOK, parsePolicies
<1>2. CASE Import \/ Edit
  <2>1. pc = "idle" /\ UNCHANGED local
    BY <1>2 DEF Import, Edit
  <2>2. todo' = {} /\ stale' = stale /\ pc' = "idle" /\ op' = "none"
    BY <2>1 DEF SyncOK, ControlOK, local
  <2>. QED BY <2>2 DEF SyncOK
<1>3. CASE Restart \/ Synced \/ DeregisterScalableTarget
  <2>1. Return
    BY <1>3 DEF Restart, Fail, Synced, Succeed, DeregisterScalableTarget, Request
  <2>. QED BY <2>1, SyncReturn
<1>4. CASE Fail
  BY <1>4, SyncReturn DEF Fail
<1>5. CASE RegisterScalableTarget /\ ~Fail
  <2>1. /\ pc = "register" /\ pc' = "fetch"
        /\ Register(target, spec.min, spec.max, spec.role)
        /\ UNCHANGED << spec, op, stale, todo >>
    BY <1>5 DEF RegisterScalableTarget, Request, Goto
  <2>2. target = spec.target
    BY <2>1, TargetType DEF ControlOK
  <2>3. Registered(spec)'
    BY <2>1, <2>2 DEF Register, Registered
  <2>. QED BY <2>1, <2>3 DEF SyncOK, parsePolicies
<1>6. CASE FetchLivePolicies /\ ~Fail
  <2>1. /\ pc = "fetch" /\ op # "Delete" /\ ~spec.malformed
        /\ pc' = "sync" /\ todo' = parsePolicies(spec)
        /\ UNCHANGED << spec, op, targets >> /\ Registered(spec)' = Registered(spec)
    BY <1>6 DEF FetchLivePolicies, Request, syncPolicies, Goto, aws, Registered
  <2>2. PICK page \in Pages(target) : stale' = page \ desiredNames(spec)
    BY <1>6 DEF FetchLivePolicies, Request, syncPolicies
  <2>3. page \subseteq Names
    <3>1. target \in Targets
      BY <2>1, TargetType DEF ControlOK
    <3>. QED BY <2>2, <3>1 DEF Pages, AwsOK
  <2>4. parsePolicies(spec)' = parsePolicies(spec) /\ desiredNames(spec)' = desiredNames(spec)
    BY <2>1 DEF parsePolicies, desiredNames
  <2>5. Done' = {}
    BY <2>1, <2>4 DEF Done
  <2>6. op \in {"Create", "Update"}
    BY <2>1 DEF ControlOK
  <2>. QED BY <2>1, <2>2, <2>3, <2>4, <2>5, <2>6 DEF SyncOK
<1>7. CASE DeleteStalePolicy /\ ~Fail
  <2>1. PICK n \in stale : /\ RemovePolicy(n) /\ stale' = stale \ {n}
                           /\ pc = "sync" /\ pc' = "sync"
                           /\ UNCHANGED << spec, op, todo >>
    BY <1>7 DEF DeleteStalePolicy, Request, Goto
  <2>2. op # "Delete" /\ op # "none" /\ spec \in Specs /\ spec.target \in Targets
    BY <2>1, TargetType DEF ControlOK
  <2>3. target = spec.target
    BY <2>2, TargetType DEF ControlOK
  <2>4. /\ parsePolicies(spec)' = parsePolicies(spec) /\ desiredNames(spec)' = desiredNames(spec)
        /\ Done' = Done
    BY <2>1 DEF parsePolicies, desiredNames, Done
  <2>5. \A i \in Done : InPlace(i) => InPlace(i)'
    <3>1. \A i \in Done : spec.policies[i].name # n
      BY <2>1 DEF SyncOK, Done, desiredNames
    <3>2. policies'[spec.target] = [m \in DOMAIN policies[spec.target] \ {n} |->
                                      policies[spec.target][m]]
      BY <2>1, <2>2, <2>3 DEF RemovePolicy
    <3>. QED BY <2>1, <3>1, <3>2 DEF InPlace
  <2>6. targets' = targets /\ Registered(spec)' = Registered(spec)
    BY <2>1 DEF RemovePolicy, Registered
  <2>. QED BY <2>1, <2>4, <2>5, <2>6 DEF SyncOK
<1>8. CASE putPolicy /\ ~Fail
  <2>1. PICK i \in todo :
          /\ \A j \in todo : i <= j
          /\ SetPolicy(spec.policies[i].name,
                       [setting |-> spec.policies[i].setting, detail |-> spec.policies[i].detail])
          /\ todo' = todo \ {i} /\ pc = "sync" /\ pc' = "sync"
          /\ UNCHANGED << spec, op, stale >>
    BY <1>8 DEF putPolicy, Request, Goto
  <2>2. op # "Delete" /\ op # "none" /\ spec \in Specs /\ spec.target \in Targets
    BY <2>1, TargetType DEF ControlOK
  <2>3. target = spec.target
    BY <2>2, TargetType DEF ControlOK
  <2>4. parsePolicies(spec)' = parsePolicies(spec) /\ desiredNames(spec)' = desiredNames(spec)
    BY <2>1 DEF parsePolicies, desiredNames
  <2>5. Done' = Done \cup {i} /\ i \notin Done
    BY <2>1, <2>4 DEF Done, SyncOK
  <2>6. parsePolicies(spec) \subseteq Nat
    BY <2>2, PoliciesOfSpec
  <2>7. \A j \in Done' : \A k \in todo' : j < k
    BY <2>1, <2>5, <2>6 DEF SyncOK
  <2>8. policies'[spec.target] =
          [m \in DOMAIN policies[spec.target] \cup {spec.policies[i].name} |->
             IF m = spec.policies[i].name
             THEN [setting |-> spec.policies[i].setting, detail |-> spec.policies[i].detail]
             ELSE policies[spec.target][m]]
    BY <2>1, <2>2, <2>3 DEF SetPolicy
  <2>9. ASSUME NEW j \in Done',
               \A k \in Done' : spec.policies[k].name = spec.policies[j].name => k <= j
        PROVE  InPlace(j)'
    <3>1. CASE j = i
      BY <2>1, <2>8, <3>1 DEF InPlace
    <3>2. CASE j # i
      <4>1. j \in Done /\ j < i
        BY <2>1, <2>5, <3>2 DEF SyncOK
      <4>2. spec.policies[j].name # spec.policies[i].name
        BY <2>1, <2>5, <2>6, <2>9, <4>1 DEF Done, SyncOK
      <4>3. InPlace(j)
        BY <2>1, <2>5, <2>9, <4>1 DEF SyncOK
      <4>. QED BY <2>1, <2>8, <4>2, <4>3 DEF InPlace
    <3>. QED BY <3>1, <3>2
  <2>10. targets' = targets /\ Registered(spec)' = Registered(spec)
    BY <2>1 DEF SetPolicy, Registered
  <2>. QED BY <2>1, <2>4, <2>5, <2>7, <2>9, <2>10 DEF SyncOK
<1>9. CASE FetchForDelete /\ ~Fail
  <2>1. /\ pc = "fetch" /\ op = "Delete" /\ pc' = "delete" /\ UNCHANGED << spec, op, todo >>
    BY <1>9 DEF FetchForDelete, Request, Goto
  <2>2. PICK page \in Pages(target) : stale' = page
    BY <1>9 DEF FetchForDelete, Request
  <2>3. page \subseteq Names
    <3>1. target \in Targets
      BY <2>1, TargetType DEF ControlOK
    <3>. QED BY <2>2, <3>1 DEF Pages, AwsOK
  <2>. QED BY <2>1, <2>2, <2>3 DEF SyncOK, parsePolicies
<1>10. CASE DeletePolicy /\ ~Fail
  <2>1. /\ pc = "delete" /\ pc' = "delete" /\ UNCHANGED << spec, op, todo >>
        /\ stale' \subseteq stale
    BY <1>10 DEF DeletePolicy, Request, Goto
  <2>2. op = "Delete"
    BY <2>1 DEF ControlOK
  <2>. QED BY <2>1, <2>2 DEF SyncOK, parsePolicies
<1>11. CASE UNCHANGED vars
  <2>1. UNCHANGED << spec, targets, policies, pc, op, stale, todo >>
    BY <1>11 DEF vars, aws, local
  <2>2. /\ parsePolicies(spec)' = parsePolicies(spec) /\ desiredNames(spec)' = desiredNames(spec)
        /\ Done' = Done /\ \A i \in Done : InPlace(i) => InPlace(i)'
        /\ Registered(spec)' = Registered(spec)
    BY <2>1 DEF parsePolicies, desiredNames, Done, InPlace, Registered
  <2>. QED BY <2>1, <2>2 DEF SyncOK
<1>. QED BY <1>1, <1>2, <1>3, <1>4, <1>5, <1>6, <1>7, <1>8, <1>9, <1>10, <1>11
        DEF Next, Plan, Serve

\* The inductive invariant, without hypotheses on constants.
THEOREM InvariantHolds == Spec => []IInv
<1>1. ASSUME Init PROVE IInv
  <2>1. targets = << >> /\ \A t \in Targets : policies[t] = << >>
    BY <1>1 DEF Init
  <2>2. AwsOK
    <3>1. DOMAIN targets = {} /\ \A t \in Targets : DOMAIN policies[t] = {}
      BY <2>1
    <3>2. \A t \in Targets : policies[t] \in [DOMAIN policies[t] -> LivePolicy]
      <4>1. \A f, S : f = << >> => f \in [DOMAIN f -> S]
        OBVIOUS
      <4>. QED BY <2>1, <4>1
    <3>. QED BY <2>1, <3>1, <3>2 DEF AwsOK
  <2>3. ControlOK /\ SyncOK
    BY <1>1 DEF Init, ControlOK, SyncOK
  <2>. QED BY <2>2, <2>3 DEF IInv
<1>2. IInv /\ [Next]_vars => IInv'
  BY AwsStep, ControlStep, SyncStep DEF IInv
<1>. QED BY <1>1, <1>2, PTL DEF Spec

\* TypeOK: no policy that putPolicy rejects (autoscaling_group.go:608) is ever
\* live, capacities are ordered and only registered targets have policies,
\* whatever fails half way.
THEOREM TypesHold == Spec => []TypeOK
<1>1. IInv => TypeOK
  BY DEF IInv, AwsOK, ControlOK, SyncOK, TypeOK, ScalableTarget
<1>. QED BY <1>1, InvariantHolds, PTL

-----------------------------------------------------------------------------
\* The steps that leave the policies alone.
LEMMA PoliciesKept ==
  ASSUME [Plan \/ Delete \/ Import \/ Edit \/ Restart \/ Synced \/ FetchLivePolicies
            \/ FetchForDelete \/ RegisterScalableTarget]_vars
  PROVE  policies' = policies
BY DEF Plan, Create, Update, Delete, Import, Edit, Restart, Synced, Begin, vars, aws,
       FetchLivePolicies, FetchForDelete, RegisterScalableTarget, Request, Register

\* DeletesOnlyStale: Create and Update delete only policies that a well-formed
\* spec does not name (autoscaling_group.go:488), whatever part of the live
\* ones they saw.
THEOREM NothingDesiredIsDeleted == Spec => DeletesOnlyStale
<1>1. ASSUME IInv, [Next]_vars, NEW t \in Targets, op \in {"Create", "Update"},
             NEW n \in DOMAIN policies[t], n \notin DOMAIN policies'[t]
      PROVE  ~spec.malformed /\ n \notin desiredNames(spec)
  <2> USE <1>1 DEF IInv
  <2>1. policies' # policies
    OBVIOUS
  <2>2. CASE DeleteStalePolicy
    <3>1. PICK m \in stale : pc = "sync" /\ RemovePolicy(m)
      BY <2>1, <2>2 DEF DeleteStalePolicy, Request, aws
    <3>2. n = m
      BY <3>1 DEF RemovePolicy
    <3>. QED BY <3>1, <3>2 DEF SyncOK
  <2>3. CASE putPolicy
    <3>1. PICK i \in todo :
            SetPolicy(spec.policies[i].name,
                      [setting |-> spec.policies[i].setting, detail |-> spec.policies[i].detail])
      BY <2>1, <2>3 DEF putPolicy, Request, aws
    <3>. QED BY <3>1 DEF SetPolicy
  <2>4. CASE DeletePolicy \/ DeregisterScalableTarget
    BY <2>4 DEF DeletePolicy, DeregisterScalableTarget, ControlOK
  <2>. QED BY <2>1, <2>2, <2>3, <2>4, PoliciesKept DEF Next, Serve
<1>2. IInv /\ [Next]_vars =>
        [\A t \in Targets : \A n \in DOMAIN policies[t] \ DOMAIN policies'[t] :
           op \in {"Create", "Update"} => ~spec.malformed /\ n \notin desiredNames(spec)]_vars
  BY <1>1
<1>. QED BY <1>2, InvariantHolds, PTL DEF Spec, DeletesOnlyStale

-----------------------------------------------------------------------------
\* A page that can hold all policies of a target has all of them.
LEMMA WholePage ==
  ASSUME OnePage, AwsOK, NEW t \in Targets, NEW page \in Pages(t)
  PROVE  page = DOMAIN policies[t]
<1> DEFINE live == DOMAIN policies[t]
<1>1. /\ IsFiniteSet(live) /\ Cardinality(live) <= Cardinality(Names)
      /\ Cardinality(live) \in Nat /\ Cardinality(Names) \in Nat
  BY FS_Subset, FS_CardinalityType DEF OnePage, AwsOK
<1>2. page \subseteq live /\ (page = live \/ Cardinality(page) = PageSize)
  BY DEF Pages
<1>3. CASE Cardinality(page) = PageSize
  <2>1. Cardinality(page) <= Cardinality(live)
    BY <1>1, <1>2, FS_Subset
  <2>2. Cardinality(live) = Cardinality(page)
    BY <1>1, <1>3, <2>1, AutoScalingAssumption DEF OnePage
  <2>. QED BY <1>1, <1>2, <2>2, FS_Subset
<1>. QED BY <1>2, <1>3

\* An operation that ends has nothing to know.
LEMMA PageReturn ==
  ASSUME Return
  PROVE  PageOK'
BY DEF PageOK, Return

\* Every step keeps PageOK.
LEMMA PageStep ==
  ASSUME OnePage, IInv, PageOK, [Next]_vars
  PROVE  PageOK'
<1> USE DEF IInv
<1>1. CASE Plan \/ Delete \/ Import \/ Edit
  <2>1. pc' \in {"register", "fetch", "idle"}
    BY <1>1 DEF Plan, Create, Update, Delete, Begin, Import, Edit, local
  <2>. QED BY <2>1 DEF PageOK
<1>2. CASE Restart \/ Synced \/ DeregisterScalableTarget \/ Fail
  <2>1. Return
    BY <1>2 DEF Restart, Fail, Synced, Succeed, DeregisterScalableTarget, Request
  <2>. QED BY <2>1, PageReturn
<1>3. CASE RegisterScalableTarget /\ ~Fail
  <2>1. pc' = "fetch"
    BY <1>3 DEF RegisterScalableTarget, Request, Goto
  <2>. QED BY <2>1 DEF PageOK
<1>4. CASE FetchLivePolicies /\ ~Fail
  <2>1. /\ pc = "fetch" /\ op # "Delete" /\ pc' = "sync"
        /\ UNCHANGED << spec, policies >>
        /\ \E page \in Pages(target) : stale' = page \ desiredNames(spec)
    BY <1>4 DEF FetchLivePolicies, Request, syncPolicies, Goto, aws
  <2>2. target = spec.target /\ target \in Targets
    BY <2>1, TargetType DEF ControlOK
  <2>3. stale' = DOMAIN policies[spec.target] \ desiredNames(spec)
    BY <2>1, <2>2, WholePage
  <2>4. desiredNames(spec)' = desiredNames(spec)
    BY <2>1 DEF desiredNames, parsePolicies
  <2>. QED BY <2>1, <2>3, <2>4 DEF PageOK
<1>5. CASE DeleteStalePolicy /\ ~Fail
  <2>1. PICK n \in stale : /\ RemovePolicy(n) /\ stale' = stale \ {n}
                           /\ pc = "sync" /\ pc' = "sync" /\ spec' = spec
    BY <1>5 DEF DeleteStalePolicy, Request, Goto
  <2>2. target = spec.target /\ target \in Targets
    BY <2>1, TargetType DEF ControlOK
  <2>3. DOMAIN policies'[spec.target] = DOMAIN policies[spec.target] \ {n}
    BY <2>1, <2>2 DEF RemovePolicy
  <2>4. desiredNames(spec)' = desiredNames(spec)
    BY <2>1 DEF desiredNames, parsePolicies
  <2>. QED BY <2>1, <2>3, <2>4 DEF PageOK
<1>6. CASE putPolicy /\ ~Fail
  <2>1. PICK i \in todo :
          /\ SetPolicy(spec.policies[i].name,
                       [setting |-> spec.policies[i].setting, detail |-> spec.policies[i].detail])
          /\ pc = "sync" /\ pc' = "sync" /\ UNCHANGED << spec, stale >>
    BY <1>6 DEF putPolicy, Request, Goto
  <2>2. target = spec.target /\ target \in Targets
    BY <2>1, TargetType DEF ControlOK
  <2>3. DOMAIN policies'[spec.target] = DOMAIN policies[spec.target] \cup {spec.policies[i].name}
    BY <2>1, <2>2 DEF SetPolicy
  <2>4. spec.policies[i].name \in desiredNames(spec)
    BY DEF SyncOK, desiredNames
  <2>5. desiredNames(spec)' = desiredNames(spec)
    BY <2>1 DEF desiredNames, parsePolicies
  <2>. QED BY <2>1, <2>3, <2>4, <2>5 DEF PageOK
<1>7. CASE FetchForDelete /\ ~Fail
  <2>1. /\ pc = "fetch" /\ op = "Delete" /\ pc' = "delete" /\ UNCHANGED << current, policies >>
        /\ stale' \in Pages(target)
    BY <1>7 DEF FetchForDelete, Request, Goto, aws, record
  <2>2. target = current.target /\ target \in Targets
    BY <2>1, TargetType DEF ControlOK
  <2>. QED BY <2>1, <2>2, WholePage DEF PageOK
<1>8. CASE DeletePolicy /\ ~Fail
  <2>1. PICK n \in stale : /\ RemovePolicy(n) /\ stale' = stale \ {n}
                           /\ pc = "delete" /\ pc' = "delete" /\ current' = current
    BY <1>8 DEF DeletePolicy, Request, Goto, record
  <2>2. target = current.target /\ target \in Targets
    BY <2>1, TargetType DEF ControlOK
  <2>3. DOMAIN policies'[current.target] = DOMAIN policies[current.target] \ {n}
    BY <2>1, <2>2 DEF RemovePolicy
  <2>. QED BY <2>1, <2>3 DEF PageOK
<1>9. CASE UNCHANGED vars
  <2>1. UNCHANGED << spec, current, policies, pc, stale >>
    BY <1>9 DEF vars, aws, local, record
  <2>. QED BY <2>1 DEF PageOK, desiredNames, parsePolicies
<1>. QED BY <1>1, <1>2, <1>3, <1>4, <1>5, <1>6, <1>7, <1>8, <1>9 DEF Next, Serve

\* With one page an operation knows all policies of its target.
THEOREM PagesAreWhole == OnePage /\ Spec => []PageOK
<1>1. Init => PageOK
  BY DEF Init, PageOK
<1>2. OnePage /\ IInv /\ PageOK /\ [Next]_vars => PageOK'
  BY PageStep
<1>3. ASSUME OnePage PROVE Spec => []PageOK
  <2>1. IInv /\ PageOK /\ [Next]_vars => PageOK'
    BY <1>2, <1>3
  <2>. QED BY <1>1, <2>1, InvariantHolds, PTL DEF Spec
<1>. QED BY <1>3

\* DeregisterLast: only Delete deregisters a target, and after all its policies
\* (autoscaling_group.go:202).
THEOREM TargetGoesLast == OnePage /\ Spec => DeregisterLast
<1>1. ASSUME IInv, PageOK, [Next]_vars, NEW t \in DOMAIN targets, t \notin DOMAIN targets'
      PROVE  op = "Delete" /\ policies[t] = << >>
  <2> USE <1>1 DEF IInv
  <2>1. DeregisterScalableTarget
    <3>1. targets' # targets
      OBVIOUS
    <3>2. ~RegisterScalableTarget
      BY <3>1 DEF RegisterScalableTarget, Request, Register, aws
    <3>3. ~[Plan \/ Delete \/ Import \/ Edit \/ Restart \/ Synced \/ FetchLivePolicies
              \/ FetchForDelete \/ DeleteStalePolicy \/ putPolicy \/ DeletePolicy]_vars
      BY <3>1 DEF Plan, Create, Update, Delete, Import, Edit, Restart, Synced, Begin, vars, aws,
                  FetchLivePolicies, FetchForDelete, DeleteStalePolicy, DeletePolicy, putPolicy,
                  Request, RemovePolicy, SetPolicy
    <3>. QED BY <3>2, <3>3 DEF Next, Serve
  <2>2. pc = "delete" /\ stale = {} /\ (UNCHANGED aws \/ Deregister(target))
    BY <2>1 DEF DeregisterScalableTarget, Request
  <2>3. op = "Delete" /\ target = current.target /\ target \in Targets
    BY <2>2, TargetType DEF ControlOK
  <2>4. t = target
    BY <2>2 DEF Deregister, aws
  <2>5. DOMAIN policies[t] = {} /\ policies[t] \in [DOMAIN policies[t] -> LivePolicy]
    BY <2>2, <2>3, <2>4 DEF PageOK, AwsOK
  <2>. QED BY <2>3, <2>5
<1>2. IInv /\ PageOK /\ [Next]_vars =>
        [\A t \in DOMAIN targets \ DOMAIN targets' : op = "Delete" /\ policies[t] = << >>]_vars
  BY <1>1
<1>. QED BY <1>2, InvariantHolds, PagesAreWhole, PTL DEF Spec, DeregisterLast

-----------------------------------------------------------------------------
\* When nothing is left to put, the target is registered and everything the
\* spec names is in place.
LEMMA SyncedInPlace ==
  ASSUME IInv, pc = "sync", todo = {}
  PROVE  /\ spec \in Specs /\ spec.target \in Targets /\ ~spec.malformed
         /\ Registered(spec)
         /\ \A n \in desiredNames(spec) :
              /\ n \in DOMAIN policies[spec.target]
              /\ policies[spec.target][n]
                   = [setting |-> spec.policies[LastNamed(spec, n)].setting,
                      detail  |-> spec.policies[LastNamed(spec, n)].detail]
<1> USE DEF IInv
<1>1. /\ op \in {"Create", "Update"} /\ spec \in Specs /\ spec.target \in Targets
  BY DEF ControlOK
<1>2. Done = parsePolicies(spec)
  BY DEF Done
<1>3. ASSUME NEW n \in desiredNames(spec)
      PROVE  /\ n \in DOMAIN policies[spec.target]
             /\ policies[spec.target][n]
                  = [setting |-> spec.policies[LastNamed(spec, n)].setting,
                     detail  |-> spec.policies[LastNamed(spec, n)].detail]
  <2> DEFINE l == LastNamed(spec, n)
  <2>1. /\ l \in Done /\ spec.policies[l].name = n
        /\ \A j \in Done : spec.policies[j].name = n => j <= l
    BY <1>1, <1>2, LastNamedProperties DEF Named
  <2>2. InPlace(l)
    <3> HIDE DEF l
    <3>. QED BY <2>1 DEF SyncOK
  <2>. QED BY <2>1, <2>2 DEF InPlace
<1>. QED BY <1>1, <1>3 DEF SyncOK

\* A successful Create or Update (autoscaling_group.go:502) has put everything
\* that the spec names.
SuccessIsComplete ==
  [][(op \in {"Create", "Update"} /\ current' # current) =>
       /\ Registered(spec)
       /\ \A n \in desiredNames(spec) :
            /\ n \in DOMAIN policies[spec.target]
            /\ policies[spec.target][n]
                 = [setting |-> spec.policies[LastNamed(spec, n)].setting,
                    detail  |-> spec.policies[LastNamed(spec, n)].detail]]_vars

\* Only an operation that has synced its policies records an output.
LEMMA OnlySyncedRecords ==
  ASSUME IInv, [Next]_vars, op \in {"Create", "Update"}, current' # current
  PROVE  pc = "sync" /\ stale = {} /\ todo = {}
<1>1. ~(DeregisterScalableTarget \/ FetchForDelete \/ DeletePolicy \/ Import)
  BY DEF DeregisterScalableTarget, FetchForDelete, DeletePolicy, Import, IInv, ControlOK
<1>2. Synced
  BY <1>1 DEF Next, Plan, Create, Update, Delete, Edit, Restart, Serve, Begin, Fail, Goto, record,
              RegisterScalableTarget, FetchLivePolicies, syncPolicies, DeleteStalePolicy,
              putPolicy, Request, vars
<1>. QED BY <1>2 DEF Synced

\* That holds also with more policies than a page: what may be left over are
\* policies that the spec does not name.
THEOREM EverythingNamedIsPut == Spec => SuccessIsComplete
<1>1. IInv /\ [Next]_vars =>
        [(op \in {"Create", "Update"} /\ current' # current) =>
           /\ Registered(spec)
           /\ \A n \in desiredNames(spec) :
                /\ n \in DOMAIN policies[spec.target]
                /\ policies[spec.target][n]
                     = [setting |-> spec.policies[LastNamed(spec, n)].setting,
                        detail  |-> spec.policies[LastNamed(spec, n)].detail]]_vars
  BY OnlySyncedRecords, SyncedInPlace
<1>. QED BY <1>1, InvariantHolds, PTL DEF Spec, SuccessIsComplete

\* With one page nothing is left over.
LEMMA SyncedMatches ==
  ASSUME IInv, PageOK, pc = "sync", stale = {}, todo = {}
  PROVE  Matches(spec)
<1> USE DEF IInv
<1>1. DOMAIN policies[spec.target] = desiredNames(spec)
  BY SyncedInPlace DEF PageOK
<1>2. ASSUME NEW n \in desiredNames(spec)
      PROVE  /\ policies[spec.target][n].setting = spec.policies[LastNamed(spec, n)].setting
             /\ policies[spec.target][n].detail = spec.policies[LastNamed(spec, n)].detail
  <2>1. policies[spec.target][n] = [setting |-> spec.policies[LastNamed(spec, n)].setting,
                                    detail  |-> spec.policies[LastNamed(spec, n)].detail]
    BY SyncedInPlace
  <2>. QED BY <2>1
<1>. QED BY <1>1, <1>2, SyncedInPlace DEF Matches, Shows, Registered

\* AppliedExactly: when Create or Update succeeds AWS is as the spec says
\* (autoscaling_group.go:473).
THEOREM SuccessIsExact == OnePage /\ Spec => AppliedExactly
<1>2. IInv /\ PageOK /\ [Next]_vars =>
        [(op \in {"Create", "Update"} /\ current' # current) => Matches(spec)]_vars
  BY OnlySyncedRecords, SyncedMatches
<1>. QED BY <1>2, InvariantHolds, PagesAreWhole, PTL DEF Spec, AppliedExactly

-----------------------------------------------------------------------------
\* AWS that matches one spec shows every spec with the same output.
LEMMA AllEqualSpecsShow ==
  ASSUME NEW r \in Specs, Matches(r), NEW s \in Specs,
         s.target = r.target, s.min = r.min, s.max = r.max,
         desiredPolicyNames(s) = desiredPolicyNames(r),
         policyConfigFingerprint(s) = policyConfigFingerprint(r)
  PROVE  Shows(s)
<1>1. /\ desiredNames(s) = desiredNames(r)
      /\ \A n \in desiredNames(s) :
           s.policies[LastNamed(s, n)].setting = r.policies[LastNamed(r, n)].setting
  BY SameFingerprint
<1>. QED BY <1>1 DEF Shows, Matches

\* Every step keeps RecordOK.
LEMMA RecordStep ==
  ASSUME OnePage, IInv, PageOK, RecordOK, [Next]_vars
  PROVE  RecordOK'
<1> USE DEF IInv
<1>1. CASE Fail
  BY <1>1 DEF Fail, RecordOK
<1>2. CASE Plan \/ Delete
  <2>1. pc' \in {"register", "fetch"}
    BY <1>2 DEF Plan, Create, Update, Delete, Begin
  <2>. QED BY <2>1 DEF RecordOK
<1>3. CASE Edit \/ UNCHANGED vars
  <2>1. UNCHANGED << current, applied, targets, policies, pc, dirty >>
    BY <1>3 DEF Edit, vars, aws, local, record
  <2>. QED BY <2>1 DEF RecordOK, Diff, Shows, Matches
<1>4. CASE ~Fail /\ (\/ RegisterScalableTarget \/ FetchLivePolicies \/ DeleteStalePolicy
                    \/ putPolicy \/ FetchForDelete \/ DeletePolicy)
  <2>1. pc' \in {"fetch", "sync", "delete"}
    BY <1>4 DEF RegisterScalableTarget, FetchLivePolicies, syncPolicies, DeleteStalePolicy,
                putPolicy, FetchForDelete, DeletePolicy, Request, Goto
  <2>. QED BY <2>1 DEF RecordOK
<1>5. CASE DeregisterScalableTarget /\ ~Fail
  <2>1. current' = NoState
    BY <1>5 DEF DeregisterScalableTarget, Request, Succeed
  <2>. QED BY <2>1 DEF RecordOK
<1>6. CASE Restart
  BY <1>1, <1>6 DEF Restart
<1>7. CASE Synced
  <2>1. /\ pc = "sync" /\ stale = {} /\ todo = {} /\ UNCHANGED << targets, policies >>
        /\ current' = buildOutputWithConfig(spec) /\ applied' = spec
    BY <1>7 DEF Synced, Succeed, aws
  <2>2. Matches(spec) /\ spec \in Specs
    BY <2>1, SyncedMatches DEF ControlOK
  <2>3. ASSUME NEW s \in Specs, validateCapacity(s), ~Diff(s)'
        PROVE  Shows(s)'
    <3>1. /\ s.target = spec.target /\ s.min = spec.min /\ s.max = spec.max
          /\ desiredPolicyNames(s) = desiredPolicyNames(spec)
          /\ policyConfigFingerprint(s) = policyConfigFingerprint(spec)
      BY <2>1, <2>3 DEF Diff, validateCapacity, buildOutputWithConfig, buildOutput
    <3>2. Shows(s)
      BY <2>2, <3>1, AllEqualSpecsShow
    <3>. QED BY <2>1, <3>2 DEF Shows
  <2>4. Matches(applied)'
    BY <2>1, <2>2 DEF Matches, Shows
  <2>. QED BY <2>3, <2>4 DEF RecordOK
<1>8. CASE Import
  <2>1. PICK t \in DOMAIN targets : \E page \in Pages(t) :
          current' = buildOutput(t, targets[t].min, targets[t].max, [n \in page |-> 1], << >>)
    BY <1>8 DEF Import
  <2>2. t \in Targets /\ targets[t] \in ScalableTarget
    BY DEF AwsOK
  <2>3. /\ current'.target = t /\ current'.min = targets[t].min /\ current'.max = targets[t].max
        /\ current'.names = [n \in DOMAIN policies[t] |-> 1] /\ current'.fingerprint = << >>
    BY <2>1, <2>2, WholePage DEF buildOutput, ScalableTarget
  <2>4. UNCHANGED << targets, policies >> /\ applied' = NoState
    BY <1>8 DEF Import, aws
  <2>5. ASSUME NEW s \in Specs, validateCapacity(s), ~Diff(s)'
        PROVE  Shows(s)'
    <3>1. /\ s.target = t /\ s.min = targets[t].min /\ s.max = targets[t].max
          /\ desiredPolicyNames(s) = [n \in DOMAIN policies[t] |-> 1]
          /\ policyConfigFingerprint(s) = << >>
      BY <2>3, <2>5 DEF Diff, validateCapacity
    <3>2. desiredNames(s) = {}
      BY <3>1 DEF policyConfigFingerprint
    <3>3. DOMAIN policies[t] = desiredNames(s)
      BY <3>1 DEF desiredPolicyNames
    <3>. QED BY <2>4, <3>1, <3>2, <3>3 DEF Shows
  <2>. QED BY <2>4, <2>5 DEF RecordOK
<1>. QED BY <1>1, <1>2, <1>3, <1>4, <1>5, <1>6, <1>7, <1>8 DEF Next, Serve

\* NoSilentDrift: after a success AWS has the spec that was applied, and shows
\* every valid spec with nothing to update, also if the record was imported
\* (autoscaling_group.go:235).
THEOREM NothingDrifts == OnePage /\ Spec => []NoSilentDrift
<1>1. Init => RecordOK
  BY DEF Init, RecordOK
<1>2. IInv /\ RecordOK => NoSilentDrift
  BY DEF IInv, ControlOK, RecordOK, NoSilentDrift
<1>3. ASSUME OnePage PROVE Spec => []NoSilentDrift
  <2>1. IInv /\ PageOK /\ RecordOK /\ [Next]_vars => RecordOK'
    BY <1>3, RecordStep
  <2>2. Spec => []PageOK
    BY <1>3, PagesAreWhole, PTL
  <2>. QED BY <1>1, <1>2, <2>1, <2>2, InvariantHolds, PTL DEF Spec
<1>. QED BY <1>3

=============================================================================
