------------------------- MODULE ResourceDriversProofs -------------------------
(***************************************************************************)
(* What is proved of the drivers under the engine, for any set of drivers, *)
(* any values of the items, and any number of edits and failures.          *)
(*                                                                         *)
(* A request ends in one of few ways: the operation fails, succeeds with   *)
(* an output, carries on with another request, or was a Scale.  Shape says *)
(* so, with what AWS may have done to the resource; every action of every  *)
(* driver is of that shape (ServeShape), and a step of that shape keeps    *)
(* the invariant (ShapeKeepsIInv).                                         *)
(***************************************************************************)
EXTENDS ResourceDrivers, TLAPS

\* What the engine can have recorded of a resource of driver d.
Records(d) == [printed : Items(d), reordered : BOOLEAN]

\* The requests that the operations of driver d send.
PlacesOf(d) ==
  CASE d = "iam" -> {"create role", "attach", "trust", "get role", "list policies", "detach",
                     "get role again", "list policies again", "delete role"}
    [] d = "sg"  -> {"create group", "authorize", "read group", "describe rules", "revoke",
                     "delete group"}
    [] d = "dns" -> {"create zone", "get zone", "list records", "change", "get zone again",
                     "list records again", "delete zone"}
    [] d = "ecs" -> {"register", "create service", "update service", "drain service",
                     "delete service", "scale service"}
    [] OTHER     -> {"create", "versioning", "encryption", "read again", "location", "modify",
                     "read", "remove"}

\* Operation o may be about to send request q.
OpAt(q, o) ==
  /\ o \in {"Create", "Update", "Delete", "Scale"}
  /\ q \in {"create role", "create group", "create zone", "create service", "create"} =>
       o = "Create"
  /\ q \in {"delete role", "delete group", "delete zone", "drain service", "delete service",
            "remove"} => o = "Delete"
  /\ q = "scale service" => o = "Scale"
  /\ q \in {"trust", "get role", "get role again", "list policies again"} => o = "Update"
  /\ q = "list policies" => o \in {"Update", "Delete"}
  /\ q = "attach" => o \in {"Create", "Update"}
  /\ q = "detach" => o \in {"Update", "Delete"}

\* A resource that does not exist has no items, and a service has an image.
AwsOK ==
  /\ exists \in BOOLEAN /\ live \in Items(driver)
  /\ ~exists => live = Nothing
  /\ exists /\ driver = "ecs" => live[Image] # Absent

\* What is asked for, recorded and running fit together: policies wait to be
\* attached and detached only between the requests that do so, and Update never
\* waits to detach one that the spec has.
ControlOK ==
  /\ driver \in Drivers /\ spec \in Items(driver) /\ config \in Configs(driver, spec)
  /\ destroy \in BOOLEAN /\ dirty \in BOOLEAN
  /\ current = NoState \/ current \in Records(driver)
  /\ pc = "idle" <=> op = "none"
  /\ pc # "idle" => pc \in PlacesOf(driver) /\ OpAt(pc, op)
  /\ op = "Create" /\ driver = "ecs" => spec[Image] # Absent
  /\ put \subseteq Keys /\ drop \subseteq Keys
  /\ put # {} => pc = "attach"
  /\ drop # {} => pc \in {"attach", "detach"}
  /\ op = "Update" => drop \cap Set(spec) = {}

\* The bounds.
CountersOK == commands \in 0 .. MaxCommands /\ failures \in 0 .. MaxFailures

\* While Create attaches policies, those it no longer waits to attach are
\* there; between operations the record shows what is there, but for policies
\* that could not be listed.
RecordOK ==
  /\ pc = "attach" /\ op = "Create" =>
       put \subseteq Set(spec) /\ \A k \in Keys \ put : live[k] = spec[k]
  /\ pc = "idle" /\ current # NoState /\ ~dirty =>
       IF driver = "iam"
       THEN current.printed = live \/ (current.reordered /\ current.printed = Nothing)
       ELSE \A k \in Printed(driver) : current.printed[k] = live[k]

\* The inductive invariant. TypeOK and NoSilentDrift follow from it; neither is
\* inductive, as they say too little about an operation that is running.
IInv == AwsOK /\ ControlOK /\ CountersOK /\ RecordOK

-----------------------------------------------------------------------------
\* An item has one of Values or none.
LEMMA ItemValuesType ==
  ASSUME NEW d, NEW k
  PROVE  ItemValues(d, k) \subseteq Values \cup {Absent} /\ Absent \in ItemValues(d, k)
BY ResourceAssumption DEF ItemValues

\* No items at all are items of every driver.
LEMMA NothingIsItems ==
  ASSUME NEW d
  PROVE  Nothing \in Items(d)
BY ItemValuesType DEF Nothing, Items

\* With(k, v) changes one item and leaves the others.
LEMMA WithIsItems ==
  ASSUME live \in Items(driver), NEW k \in Keys, NEW v \in ItemValues(driver, k)
  PROVE  /\ With(k, v) \in Items(driver)
         /\ With(k, v)[k] = v
         /\ \A j \in Keys \ {k} : With(k, v)[j] = live[j]
BY ItemValuesType DEF With, Items

\* Over(items) takes every item of items and leaves the others.
LEMMA OverIsItems ==
  ASSUME live \in Items(driver), NEW items \in Items(driver)
  PROVE  /\ Over(items) \in Items(driver)
         /\ \A k \in Keys : Over(items)[k] = IF items[k] # Absent THEN items[k] ELSE live[k]
BY ItemValuesType DEF Over, Items

\* The modification Update sends takes an item from the spec or leaves it.
LEMMA ModifiedIsItems ==
  ASSUME live \in Items(driver), spec \in Items(driver)
  PROVE  /\ Modified \in Items(driver)
         /\ \A k \in Keys : Modified[k] \in {live[k], spec[k]}
<1> DEFINE items == [Nothing EXCEPT ![Varying] = spec[Varying]]
<1>1. items \in Items(driver) /\ \A k \in Keys : items[k] \in {Absent, spec[k]}
  BY ItemValuesType DEF Items, Nothing, Keys, Varying
<1>2. Modified = Over(items)
  BY DEF Modified
<1> HIDE DEF items
<1>. QED BY <1>1, <1>2, OverIsItems

\* Create makes a resource with items that its driver can have.
LEMMA DefaultedIsItems ==
  ASSUME spec \in Items(driver), driver \in AllDrivers
  PROVE  Defaulted \in Items(driver)
<1>1. ASSUME NEW k \in Keys
      PROVE  Defaulted[k] \in ItemValues(driver, k)
  BY <1>1, ResourceAssumption DEF Defaulted, ItemValues, Items, Keys, Varying, Fixed
<1>2. \A k \in Keys : Defaulted[k] \in Values \cup {Absent}
  BY <1>1, ItemValuesType
<1>3. Defaulted = [k \in Keys |-> Defaulted[k]]
  BY DEF Defaulted
<1> HIDE DEF Defaulted
<1>. QED BY <1>1, <1>2, <1>3 DEF Items

-----------------------------------------------------------------------------
\* What AWS can do to the resource: make it, remove it, change its items.
Made    == exists' = TRUE /\ live' \in Items(driver) /\ (driver = "ecs" => live'[Image] # Absent)
Removed == exists' = FALSE /\ live' = Nothing
Given   == /\ exists /\ exists' = exists /\ live' \in Items(driver)
           /\ (driver = "ecs" => live'[Image] # Absent)

\* Whatever of these AWS does, AwsOK stays.
LEMMA AwsChanges ==
  ASSUME AwsOK, UNCHANGED driver, UNCHANGED aws \/ Made \/ Removed \/ Given
  PROVE  AwsOK'
<1>1. CASE UNCHANGED aws
  BY <1>1 DEF AwsOK, aws
<1>2. CASE Made
  BY <1>2 DEF AwsOK, Made
<1>3. CASE Removed
  <2>1. Nothing \in Items(driver)
    BY NothingIsItems
  <2>. QED BY <1>3, <2>1 DEF AwsOK, Removed
<1>4. CASE Given
  BY <1>4 DEF AwsOK, Given
<1>. QED BY <1>1, <1>2, <1>3, <1>4

-----------------------------------------------------------------------------
\* An output that shows what is there after the step: a role's all policies, or
\* that they could not be listed, another's what it prints.
Shown(output) ==
  \/ output = NoState
  \/ /\ output \in Records(driver)
     /\ IF driver = "iam"
        THEN output.printed = live' \/ (output.reordered /\ output.printed = Nothing)
        ELSE \A k \in Printed(driver) : output.printed[k] = live'[k]

\* The output of items that are there where the driver prints them.
LEMMA OutputIsShown ==
  ASSUME NEW items \in Items(driver), NEW order \in BOOLEAN, live' \in Items(driver),
         driver \in AllDrivers,
         \/ driver = "iam" /\ order /\ items = Nothing
         \/ \A k \in Printed(driver) : items[k] = live'[k]
  PROVE  Shown(Output(items, order))
<1> DEFINE printed == [k \in Keys |-> IF k \in Printed(driver) THEN items[k] ELSE Absent]
<1>1. ASSUME NEW k \in Keys
      PROVE  printed[k] \in ItemValues(driver, k) /\ printed[k] \in Values \cup {Absent}
  BY <1>1, ItemValuesType DEF Items
<1>2. printed \in Items(driver)
  BY <1>1 DEF Items
<1>3. Output(items, order) = [printed |-> printed, reordered |-> order]
  BY DEF Output
<1>4. Output(items, order) \in Records(driver)
  BY <1>2, <1>3 DEF Records
<1>5. CASE driver = "iam"
  <2>1. Printed(driver) = Keys
    BY <1>5 DEF Printed, iamOutputs
  <2>2. items = live' \/ (order /\ items = Nothing)
    BY <1>5, <2>1 DEF Items
  <2>3. printed = items
    BY <2>1 DEF Items
  <2>. QED BY <1>3, <1>4, <1>5, <2>2, <2>3 DEF Shown
<1>6. CASE driver # "iam"
  <2>1. Printed(driver) \subseteq Keys
    BY DEF Printed, iamOutputs, sgToOutput, r53ZoneToOutput, ecsServiceToOutput, rdsDBToOutput,
           ecrRepoToOutput, s3BucketToOutput, eksClusterToOutput, ecRGToOutput, albLBToOutput,
           vpcToOutput, acmCertToOutput, apigwAPIToOutput, Keys, Varying, Fixed,
           AllDrivers, WithItems, WithAttributes
  <2>2. \A k \in Printed(driver) : printed[k] = live'[k]
    BY <1>6, <2>1
  <2>. QED BY <1>3, <1>4, <1>6, <2>2 DEF Shown
<1>. QED BY <1>5, <1>6

\* The drivers that print no items under their name in the spec.
Silent == driver \in {"sg", "dns", "ecs"}

\* A silent driver prints nothing.
LEMMA SilentPrintsNothing ==
  ASSUME Silent
  PROVE  Printed(driver) = {}
BY DEF Silent, Printed, sgToOutput, r53ZoneToOutput, ecsServiceToOutput

\* The output of a silent driver may say that there is nothing.
LEMMA NothingIsShown ==
  ASSUME Silent, live' \in Items(driver)
  PROVE  Shown(Output(Nothing, FALSE))
BY SilentPrintsNothing, NothingIsItems, OutputIsShown DEF Silent, AllDrivers, WithItems

\* The output of what is there after the step shows what is there.
LEMMA LiveIsShown ==
  ASSUME live' \in Items(driver), driver \in AllDrivers
  PROVE  Shown(Output(live', FALSE))
BY OutputIsShown

-----------------------------------------------------------------------------
\* The step relation of KeptStay.
Keeps ==
  op = "Update" /\ driver # "sg" =>
    \A k \in Set(spec) : live[k] = spec[k] => live'[k] = live[k]

\* A request keeps what Update has to keep, and changes AWS in one of the ways
\* above or not.
AwsStep == Keeps /\ (UNCHANGED aws \/ Made \/ Removed \/ Given)

\* The operation carries on with another request.
Carries ==
  /\ pc' \in PlacesOf(driver) /\ OpAt(pc', op) /\ UNCHANGED << op, destroy, current, dirty >>
  /\ put' \subseteq Keys /\ drop' \subseteq Keys
  /\ put' # {} => pc' = "attach"
  /\ drop' # {} => pc' \in {"attach", "detach"}
  /\ op = "Update" => drop' \cap Set(spec) = {}
  /\ pc' = "attach" /\ op = "Create" =>
       put' \subseteq Set(spec) /\ \A k \in Keys \ put' : live'[k] = spec[k]

\* Scale has ended, well or not.
Scaled == driver = "ecs" /\ Return /\ UNCHANGED << destroy, current, dirty >>

\* How a request ends for the operation.
LocalStep ==
  \/ Fail
  \/ \E output : Succeed(output) /\ Shown(output)
  \/ Carries
  \/ Scaled

\* A request fails at most once.
Counted == failures' = failures \/ (failures > 0 /\ failures' = failures - 1)

\* The shape of every request.
Shape == UNCHANGED user /\ Counted /\ AwsStep /\ LocalStep

\* A driver sends no request while no operation is running.
LEMMA IdleIsNoPlace ==
  ASSUME driver \in AllDrivers
  PROVE  "idle" \notin PlacesOf(driver)
BY DEF PlacesOf, AllDrivers, WithItems, WithAttributes

\* A step of this shape keeps the invariant.
LEMMA ShapeKeepsIInv ==
  ASSUME IInv, Shape, pc # "idle"
  PROVE  IInv'
<1> USE DEF IInv, Shape, user
<1>0. UNCHANGED << driver, spec, config, commands >> /\ driver \in AllDrivers
  BY ResourceAssumption DEF ControlOK
<1>1. AwsOK'
  BY <1>0, AwsChanges DEF AwsStep
<1>2. CountersOK'
  BY ResourceAssumption DEF CountersOK, Counted
<1>3. ControlOK'
  <2>1. CASE Fail
    BY <1>0, <2>1 DEF ControlOK, Fail, Return
  <2>2. ASSUME NEW output, Succeed(output), Shown(output)
        PROVE  ControlOK'
    <3>1. output = NoState \/ output \in Records(driver)
      BY <2>2 DEF Shown
    <3>2. destroy' \in BOOLEAN
      BY <2>2 DEF Succeed
    <3>. QED BY <1>0, <2>2, <3>1, <3>2 DEF ControlOK, Succeed, Return
  <2>3. CASE Carries
    <3>1. pc' # "idle"
      BY <1>0, <2>3, IdleIsNoPlace DEF Carries
    <3>. QED BY <1>0, <2>3, <3>1 DEF ControlOK, Carries
  <2>4. CASE Scaled
    BY <1>0, <2>4 DEF ControlOK, Scaled, Return
  <2>. QED BY <2>1, <2>2, <2>3, <2>4 DEF LocalStep
<1>4. RecordOK'
  <2>1. CASE Fail
    BY <2>1 DEF RecordOK, Fail, Return
  <2>2. ASSUME NEW output, Succeed(output), Shown(output)
        PROVE  RecordOK'
    <3>1. output # NoState =>
            IF driver = "iam"
            THEN output.printed = live' \/ (output.reordered /\ output.printed = Nothing)
            ELSE \A k \in Printed(driver) : output.printed[k] = live'[k]
      BY <2>2 DEF Shown
    <3>2. Printed(driver)' = Printed(driver)
      BY <1>0 DEF Printed
    <3>. QED BY <1>0, <2>2, <3>1, <3>2 DEF RecordOK, Succeed, Return
  <2>3. CASE Carries
    <3>1. pc' # "idle"
      BY <1>0, <2>3, IdleIsNoPlace DEF Carries
    <3>. QED BY <1>0, <2>3, <3>1 DEF RecordOK, Carries
  <2>4. CASE Scaled
    <3>1. Printed(driver)' = {} /\ driver' # "iam"
      BY <1>0, <2>4, SilentPrintsNothing DEF Scaled, Silent
    <3>. QED BY <2>4, <3>1 DEF RecordOK, Scaled, Return
  <2>. QED BY <2>1, <2>2, <2>3, <2>4 DEF LocalStep
<1>. QED BY <1>1, <1>2, <1>3, <1>4

\* Goto carries on, but to the attachment of policies, which needs more.
LEMMA GoingCarries ==
  ASSUME ControlOK, UNCHANGED driver, NEW q \in PlacesOf(driver), Goto(q), OpAt(q, op),
         q # "attach", put = {}, drop = {} \/ q = "detach"
  PROVE  Carries
BY DEF ControlOK, Goto, Carries, local

\* What is there stays when nothing changes or Update is not running.
LEMMA StayingKeeps ==
  ASSUME UNCHANGED aws \/ op # "Update"
  PROVE  Keeps
BY DEF Keeps, aws

\* A request that changes nothing.
LEMMA LookingIsStep ==
  ASSUME UNCHANGED aws
  PROVE  AwsStep
BY StayingKeeps DEF AwsStep

\* A request that sends the whole spec.
LEMMA OverIsStep ==
  ASSUME AwsOK, ControlOK, exists, Give(Over(spec)), UNCHANGED driver
  PROVE  AwsStep /\ live' \in Items(driver)
<1>1. Over(spec) \in Items(driver)
      /\ \A k \in Keys : Over(spec)[k] = IF spec[k] # Absent THEN spec[k] ELSE live[k]
  BY OverIsItems DEF AwsOK, ControlOK
<1>2. Keeps
  BY <1>1 DEF Keeps, Give, Set
<1>3. driver = "ecs" => Over(spec)[Image] # Absent
  BY <1>1 DEF AwsOK, Image, Keys
<1>. QED BY <1>1, <1>2, <1>3 DEF AwsStep, Given, Give

\* A request that changes one item, while Update runs to what the spec asks.
LEMMA WithIsStep ==
  ASSUME AwsOK, exists, NEW k \in Keys, NEW v \in ItemValues(driver, k), Give(With(k, v)),
         UNCHANGED driver, driver = "ecs" => k # Image,
         op = "Update" /\ k \in Set(spec) => spec[k] = v
  PROVE  AwsStep /\ live' \in Items(driver)
<1>1. /\ With(k, v) \in Items(driver) /\ With(k, v)[k] = v
      /\ \A j \in Keys \ {k} : With(k, v)[j] = live[j]
  BY WithIsItems DEF AwsOK
<1>2. Keeps
  BY <1>1 DEF Keeps, Give, Set
<1>3. driver = "ecs" => With(k, v)[Image] # Absent
  BY <1>1 DEF AwsOK, Image, Keys
<1>. QED BY <1>1, <1>2, <1>3 DEF AwsStep, Given, Give

\* A request that makes the resource.
LEMMA MakingIsStep ==
  ASSUME NEW items \in Items(driver), Make(items), op # "Update",
         driver = "ecs" => items[Image] # Absent
  PROVE  AwsStep /\ live' \in Items(driver)
BY StayingKeeps DEF AwsStep, Made, Make

\* A request that removes the resource.
LEMMA RemovingIsStep ==
  ASSUME Remove, op # "Update"
  PROVE  AwsStep
BY StayingKeeps DEF AwsStep, Removed, Remove

\* A request after which the operation fails.
LEMMA FailingIsShape ==
  ASSUME UNCHANGED user, Counted, AwsStep, Fail
  PROVE  Shape
BY DEF Shape, LocalStep

\* A request after which the operation succeeds.
LEMMA SucceedingIsShape ==
  ASSUME UNCHANGED user, Counted, AwsStep, NEW output, Succeed(output), Shown(output)
  PROVE  Shape
BY DEF Shape, LocalStep

\* A request after which the operation carries on.
LEMMA CarryingIsShape ==
  ASSUME UNCHANGED user, Counted, AwsStep, Carries
  PROVE  Shape
BY DEF Shape, LocalStep

\* The engine forgets a resource that is deleted.
LEMMA NoStateIsShown == Shown(NoState)
BY DEF Shown

-----------------------------------------------------------------------------
\* The requests about roles are those of the IAM driver; policies wait only
\* where they are attached and detached.
LEMMA RolesAreOfIAM ==
  ASSUME IInv,
         \/ CreateRole \/ UpdateAssumeRolePolicy \/ GetRole \/ ListPolicies \/ AttachRolePolicy
         \/ Attached \/ DetachRolePolicy \/ Detached \/ ListPoliciesAgain \/ ListForDelete
         \/ DeleteRole
  PROVE  driver = "iam" /\ pc # "idle" /\ OpAt(pc, op)
         /\ (pc # "attach" => put = {}) /\ (pc \notin {"attach", "detach"} => drop = {})
BY DEF IInv, ControlOK, PlacesOf, CreateRole, UpdateAssumeRolePolicy, GetRole, ListPolicies,
       AttachRolePolicy, Attached, DetachRolePolicy, Detached, ListPoliciesAgain,
       ListForDelete, DeleteRole

\* What a request that changes nothing leaves.
LEMMA LookShape ==
  ASSUME IInv, UNCHANGED user, UNCHANGED aws
  PROVE  AwsStep /\ live' \in Items(driver) /\ UNCHANGED << driver, spec >>
BY LookingIsStep DEF IInv, AwsOK, aws, user

\* UpdateAssumeRolePolicy and GetRole.
LEMMA IAMRead ==
  ASSUME IInv, UpdateAssumeRolePolicy \/ GetRole
  PROVE  Shape
<1>0. /\ driver = "iam" /\ OpAt(pc, op) /\ put = {} /\ drop = {} /\ ControlOK
  BY RolesAreOfIAM DEF IInv, UpdateAssumeRolePolicy, GetRole
<1>1. /\ UNCHANGED user /\ UNCHANGED aws
      /\ Counted
      /\ \/ Fail
         \/ Goto("get role") /\ pc = "trust"
         \/ Goto("list policies") /\ pc = "get role"
         \/ Goto("list policies again") /\ pc = "get role again"
  BY DEF UpdateAssumeRolePolicy, GetRole, Look, Request, Counted
<1>2. AwsStep /\ Counted /\ UNCHANGED driver
  BY <1>1, LookShape
<1>3. CASE Fail
  BY <1>1, <1>2, <1>3, FailingIsShape
<1>4. CASE ~Fail
  <2>1. \E q \in {"get role", "list policies", "list policies again"} :
           Goto(q) /\ OpAt(q, op) /\ q \in PlacesOf(driver)
    BY <1>0, <1>1, <1>4 DEF OpAt, PlacesOf
  <2>2. Carries
    BY <1>0, <1>2, <2>1, GoingCarries
  <2>. QED BY <1>1, <1>2, <2>2, CarryingIsShape
<1>. QED BY <1>3, <1>4

\* CreateRole: all policies of the spec wait to be attached.
LEMMA IAMCreate ==
  ASSUME IInv, CreateRole
  PROVE  Shape
<1>0. driver = "iam" /\ OpAt(pc, op) /\ put = {} /\ drop = {} /\ ControlOK /\ pc = "create role"
      /\ op = "Create"
  BY RolesAreOfIAM DEF IInv, CreateRole, OpAt
<1>1. /\ UNCHANGED user /\ Counted
      /\ UNCHANGED aws \/ Make(Nothing)
      /\ Fail \/ /\ Make(Nothing) /\ pc' = "attach" /\ put' = Set(spec)
                 /\ UNCHANGED << op, drop, destroy, current, dirty >>
  BY DEF CreateRole, Request, Counted
<1>2. AwsStep
  BY <1>0, <1>1, LookingIsStep, MakingIsStep, NothingIsItems
<1>3. CASE Fail
  BY <1>1, <1>2, <1>3, FailingIsShape
<1>4. CASE ~Fail
  <2>1. Carries
    BY <1>0, <1>1, <1>4 DEF Carries, Make, Nothing, Set, OpAt, PlacesOf
  <2>. QED BY <1>1, <1>2, <2>1, CarryingIsShape
<1>. QED BY <1>3, <1>4

\* ListPolicies and ListForDelete: Update waits to detach only what the spec
\* has not, and nothing after a list that failed (iam.go:118).
LEMMA IAMList ==
  ASSUME IInv, ListPolicies \/ ListForDelete
  PROVE  Shape
<1>0. driver = "iam" /\ OpAt(pc, op) /\ put = {} /\ drop = {} /\ ControlOK /\ pc = "list policies"
  BY RolesAreOfIAM DEF IInv, ListPolicies, ListForDelete
<1>1. /\ UNCHANGED user /\ UNCHANGED aws
      /\ Counted
      /\ UNCHANGED << op, destroy, current, dirty >>
      /\ \/ /\ op = "Update" /\ pc' = "attach" /\ put' \subseteq Set(spec)
            /\ drop' = drop \/ drop' = Set(live) \ Set(spec)
         \/ op = "Delete" /\ pc' = "detach" /\ put' = put /\ (drop' = drop \/ drop' = Set(live))
  BY DEF ListPolicies, ListForDelete, Look, Request, Counted, Goto, diffSlice, local
<1>2. AwsStep /\ Counted
  BY <1>1, LookShape
<1>3. Carries
  BY <1>0, <1>1 DEF Carries, OpAt, PlacesOf, Set
<1>. QED BY <1>1, <1>2, <1>3, CarryingIsShape

\* AttachRolePolicy: a policy that is attached waits no longer.
LEMMA IAMAttach ==
  ASSUME IInv, AttachRolePolicy
  PROVE  Shape
<1>0. /\ driver = "iam" /\ OpAt(pc, op) /\ ControlOK /\ AwsOK /\ RecordOK /\ pc = "attach"
      /\ pc \in PlacesOf(driver)
  BY RolesAreOfIAM DEF IInv, AttachRolePolicy, ControlOK
<1>1. PICK k \in put :
        /\ UNCHANGED user /\ Counted
        /\ UNCHANGED aws \/ (exists /\ Give(With(k, Present)))
        /\ Fail \/ /\ exists /\ Give(With(k, Present)) /\ put' = put \ {k}
                   /\ UNCHANGED << pc, op, drop, destroy, current, dirty >>
  BY DEF AttachRolePolicy, Request, Counted
<1>2. k \in Keys /\ Present \in ItemValues(driver, k) /\ UNCHANGED driver
  BY <1>0, <1>1 DEF ControlOK, ItemValues, user
<1>3. \A j \in Keys : spec[j] \in {Present, Absent}
  BY <1>0 DEF ControlOK, Items, ItemValues
<1>4. AwsStep
  <2>1. op = "Update" /\ k \in Set(spec) => spec[k] = Present
    BY <1>3 DEF Set
  <2>. QED BY <1>0, <1>1, <1>2, <2>1, LookingIsStep, WithIsStep
<1>5. CASE Fail
  BY <1>1, <1>4, <1>5, FailingIsShape
<1>6. CASE ~Fail
  <2>1. op = "Create" => put' \subseteq Set(spec) /\ \A j \in Keys \ put' : live'[j] = spec[j]
    <3>1. SUFFICES ASSUME op = "Create"
                   PROVE  put' \subseteq Set(spec) /\ \A j \in Keys \ put' : live'[j] = spec[j]
      OBVIOUS
    <3>2. put \subseteq Set(spec) /\ \A j \in Keys \ put : live[j] = spec[j]
      BY <1>0, <3>1 DEF RecordOK
    <3>3. spec[k] = Present
      BY <1>1, <1>3, <3>2 DEF Set
    <3>4. \A j \in Keys : With(k, Present)[j] = IF j = k THEN Present ELSE live[j]
      BY DEF With
    <3>. QED BY <1>1, <1>6, <3>2, <3>3, <3>4 DEF Give
  <2>2. Carries
    BY <1>0, <1>1, <1>6, <2>1 DEF Carries, ControlOK
  <2>. QED BY <1>1, <1>4, <2>2, CarryingIsShape
<1>. QED BY <1>5, <1>6

\* DetachRolePolicy: Update takes no policy of the spec.
LEMMA IAMDetach ==
  ASSUME IInv, DetachRolePolicy
  PROVE  Shape
<1>0. /\ driver = "iam" /\ OpAt(pc, op) /\ ControlOK /\ AwsOK /\ pc = "detach"
      /\ pc \in PlacesOf(driver) /\ put = {}
  BY RolesAreOfIAM DEF IInv, DetachRolePolicy, ControlOK
<1>1. PICK k \in drop :
        /\ UNCHANGED user /\ Counted
        /\ UNCHANGED aws \/ (exists /\ Give(With(k, Absent)))
        /\ Fail \/ /\ drop' = drop \ {k}
                   /\ UNCHANGED << pc, op, put, destroy, current, dirty >>
  BY DEF DetachRolePolicy, Request, Counted
<1>2. k \in Keys /\ Absent \in ItemValues(driver, k) /\ UNCHANGED driver
  BY <1>0, <1>1, ItemValuesType DEF ControlOK, user
<1>4. AwsStep
  <2>1. op = "Update" => k \notin Set(spec)
    BY <1>0 DEF ControlOK
  <2>. QED BY <1>0, <1>1, <1>2, <2>1, LookingIsStep, WithIsStep
<1>5. CASE Fail
  BY <1>1, <1>4, <1>5, FailingIsShape
<1>6. CASE ~Fail
  <2>2. Carries
    BY <1>0, <1>1, <1>6 DEF Carries, ControlOK
  <2>. QED BY <1>1, <1>4, <2>2, CarryingIsShape
<1>. QED BY <1>5, <1>6

\* Attached and Detached: what Create returns is attached.
LEMMA IAMDone ==
  ASSUME IInv, Attached \/ Detached
  PROVE  Shape
<1>0. driver = "iam" /\ OpAt(pc, op) /\ ControlOK /\ RecordOK /\ AwsOK /\ put = {}
  BY RolesAreOfIAM DEF IInv, Attached, Detached
<1>1. /\ UNCHANGED user /\ UNCHANGED aws /\ UNCHANGED failures
      /\ \/ pc = "attach" /\ op = "Create" /\ Succeed(Output(spec, FALSE))
         \/ pc = "attach" /\ op # "Create" /\ Goto("detach")
         \/ pc = "detach" /\ drop = {} /\ op = "Delete" /\ Goto("delete role")
         \/ pc = "detach" /\ drop = {} /\ op # "Delete" /\ Goto("get role again")
  BY DEF Attached, Detached
<1>2. AwsStep /\ Counted /\ UNCHANGED driver /\ live' \in Items(driver)
  BY <1>1, LookShape DEF Counted
<1>3. CASE pc = "attach" /\ op = "Create" /\ Succeed(Output(spec, FALSE))
  <2>1. \A k \in Keys : spec[k] = live'[k]
    BY <1>0, <1>1, <1>3 DEF RecordOK, aws
  <2>2. Printed(driver) = Keys /\ driver \in AllDrivers
    BY <1>0 DEF Printed, iamOutputs, AllDrivers, WithItems
  <2>3. Shown(Output(spec, FALSE))
    BY <1>0, <1>2, <2>1, <2>2, OutputIsShown DEF ControlOK
  <2>. QED BY <1>1, <1>2, <1>3, <2>3, SucceedingIsShape
<1>4. CASE ~(pc = "attach" /\ op = "Create" /\ Succeed(Output(spec, FALSE)))
  <2>1. \E q \in {"detach", "delete role", "get role again"} :
           Goto(q) /\ OpAt(q, op) /\ q \in PlacesOf(driver) /\ (drop = {} \/ q = "detach")
    BY <1>0, <1>1, <1>4 DEF OpAt, PlacesOf
  <2>2. Carries
    BY <1>0, <1>2, <2>1, GoingCarries
  <2>. QED BY <1>1, <1>2, <2>2, CarryingIsShape
<1>. QED BY <1>3, <1>4

\* ListPoliciesAgain and DeleteRole: the output of Update is what was listed,
\* or says that it is not.
LEMMA IAMEnd ==
  ASSUME IInv, ListPoliciesAgain \/ DeleteRole
  PROVE  Shape
<1>0. driver = "iam" /\ OpAt(pc, op) /\ AwsOK /\ driver \in AllDrivers
  BY RolesAreOfIAM DEF IInv, ListPoliciesAgain, DeleteRole, AllDrivers, WithItems
<1>1. CASE ListPoliciesAgain
  <2>1. /\ UNCHANGED user /\ UNCHANGED aws
        /\ Counted
        /\ \/ \E reordered \in BOOLEAN : Succeed(Output(live, reordered))
           \/ Succeed(Output(Nothing, TRUE))
    <3>1. PICK reordered \in {FALSE, Cardinality(Set(live)) > 1} :
            Look(exists, Succeed(Output(live, reordered)), Succeed(Output(Nothing, TRUE)))
      BY <1>1 DEF ListPoliciesAgain
    <3>2. reordered \in BOOLEAN
      <4>1. (Cardinality(Set(live)) > 1) \in BOOLEAN
        OBVIOUS
      <4>2. reordered = FALSE \/ reordered = (Cardinality(Set(live)) > 1)
        BY <3>1, Zenon
      <4>. QED BY <4>1, <4>2, Zenon
    <3>. QED BY <3>1, <3>2 DEF Look, Request, Counted
  <2>2. AwsStep /\ Counted /\ UNCHANGED driver /\ live' \in Items(driver) /\ live' = live
    BY <2>1, LookShape DEF aws
  <2>3. \A reordered \in BOOLEAN : Shown(Output(live, reordered))
    BY <1>0, <2>2, OutputIsShown
  <2>4. Shown(Output(Nothing, TRUE))
    BY <1>0, <2>2, OutputIsShown, NothingIsItems
  <2>. QED BY <2>1, <2>2, <2>3, <2>4, SucceedingIsShape
<1>2. CASE DeleteRole
  <2>1. /\ UNCHANGED user /\ Counted
        /\ UNCHANGED aws \/ Remove
        /\ Fail \/ Succeed(NoState)
    BY <1>2 DEF DeleteRole, Request, Counted
  <2>2. op # "Update"
    BY <1>0, <1>2 DEF DeleteRole, OpAt
  <2>3. AwsStep
    BY <2>1, <2>2, LookingIsStep, RemovingIsStep
  <2>. QED BY <2>1, <2>3, FailingIsShape, SucceedingIsShape, NoStateIsShown
<1>. QED BY <1>1, <1>2

-----------------------------------------------------------------------------
\* Only the IAM driver has policies waiting.
LEMMA NothingPending ==
  ASSUME IInv, driver # "iam", pc # "idle"
  PROVE  /\ put = {} /\ drop = {} /\ OpAt(pc, op) /\ pc \in PlacesOf(driver) /\ ControlOK /\ AwsOK
         /\ driver \in AllDrivers
BY ResourceAssumption DEF IInv, ControlOK, PlacesOf

\* The other drivers carry on with Goto.
LEMMA GoingIsShape ==
  ASSUME IInv, driver # "iam", pc # "idle", UNCHANGED user, Counted, AwsStep,
         NEW q \in PlacesOf(driver), OpAt(q, op), Goto(q)
  PROVE  Shape
<1>1. q # "attach" /\ UNCHANGED driver
  BY DEF PlacesOf, user
<1>. QED BY <1>1, NothingPending, GoingCarries, CarryingIsShape

\* Success of a silent driver.
LEMMA SayingNothingIsShape ==
  ASSUME Silent, UNCHANGED user, Counted, AwsStep, live' \in Items(driver),
         Succeed(Output(Nothing, FALSE))
  PROVE  Shape
BY NothingIsShown, SucceedingIsShape

\* The last request of Delete.
LEMMA GoneIsShape ==
  ASSUME UNCHANGED user, Counted, op = "Delete", UNCHANGED aws \/ Remove,
         Fail \/ (Remove /\ Succeed(NoState)) \/ Succeed(NoState)
  PROVE  Shape
BY LookingIsStep, RemovingIsStep, FailingIsShape, SucceedingIsShape, NoStateIsShown

\* The rules of a group are authorized, unless there are none.
LEMMA ReapplyIsShape ==
  ASSUME IInv, driver = "sg", pc # "idle", UNCHANGED user, Counted, AwsStep,
         live' \in Items(driver), Reapply
  PROVE  Shape
<1>1. OpAt("authorize", op) /\ "authorize" \in PlacesOf(driver)
  BY NothingPending DEF OpAt, PlacesOf
<1>2. Succeed(Output(Nothing, FALSE)) \/ Goto("authorize")
  BY DEF Reapply
<1>. QED BY <1>1, <1>2, GoingIsShape, SayingNothingIsShape DEF Silent

\* The requests about security groups.
GroupStep ==
  \/ CreateSecurityGroup \/ ReadGroup \/ DescribeRules \/ RevokeSecurityGroupIngress
  \/ AuthorizeSecurityGroupIngress \/ DeleteSecurityGroup

\* The requests about security groups have the shape.
LEMMA GroupShape ==
  ASSUME IInv, GroupStep
  PROVE  Shape
<1>0. driver = "sg" /\ pc # "idle"
  BY DEF IInv, ControlOK, PlacesOf, GroupStep, CreateSecurityGroup, ReadGroup, DescribeRules,
         RevokeSecurityGroupIngress, AuthorizeSecurityGroupIngress, DeleteSecurityGroup
<1>1. ControlOK /\ AwsOK /\ OpAt(pc, op) /\ Silent
  BY <1>0, NothingPending DEF Silent
<1>2. CASE CreateSecurityGroup
  <2>1. /\ UNCHANGED user /\ Counted
        /\ UNCHANGED aws \/ Make(Nothing)
        /\ \/ Fail
           \/ Reapply /\ Make(Nothing)
    BY <1>2 DEF CreateSecurityGroup, Request, Counted, Reapply
  <2>2. op = "Create"
    BY <1>1, <1>2 DEF CreateSecurityGroup, OpAt
  <2>3. AwsStep
    BY <1>0, <2>1, <2>2, LookingIsStep, MakingIsStep, NothingIsItems
  <2>4. Make(Nothing) => live' \in Items(driver)
    BY NothingIsItems DEF Make
  <2>. QED BY <1>0, <2>1, <2>3, <2>4, FailingIsShape, ReapplyIsShape
<1>3. CASE ReadGroup
  <2>1. /\ UNCHANGED user /\ Counted /\ UNCHANGED aws
        /\ Fail \/ Goto(IF op = "Delete" THEN "delete group" ELSE "describe rules")
    BY <1>3 DEF ReadGroup, Look, Request, Counted
  <2>2. \E q \in PlacesOf(driver) :
           OpAt(q, op) /\ q = IF op = "Delete" THEN "delete group" ELSE "describe rules"
    BY <1>0, <1>1 DEF OpAt, PlacesOf
  <2>. QED BY <1>0, <2>1, <2>2, LookShape, FailingIsShape, GoingIsShape
<1>4. CASE DescribeRules
  <2>1. /\ UNCHANGED user /\ Counted /\ UNCHANGED aws
        /\ Reapply \/ Goto("revoke")
    BY <1>4 DEF DescribeRules, Look, Request, Counted
  <2>2. "revoke" \in PlacesOf(driver) /\ OpAt("revoke", op)
    BY <1>0, <1>1 DEF OpAt, PlacesOf
  <2>. QED BY <1>0, <2>1, <2>2, LookShape, ReapplyIsShape, GoingIsShape
<1>5. CASE RevokeSecurityGroupIngress
  <2>1. /\ UNCHANGED user /\ Counted /\ Reapply
        /\ UNCHANGED aws \/ (exists /\ Give(Nothing))
    BY <1>5 DEF RevokeSecurityGroupIngress, Request, Counted
  <2>2. AwsStep /\ live' \in Items(driver)
    <3>1. CASE UNCHANGED aws
      BY <2>1, <3>1, LookShape
    <3>2. CASE exists /\ Give(Nothing)
      BY <1>0, <3>2, NothingIsItems DEF AwsStep, Given, Give, Keeps
    <3>. QED BY <2>1, <3>1, <3>2
  <2>. QED BY <1>0, <2>1, <2>2, ReapplyIsShape
<1>6. CASE AuthorizeSecurityGroupIngress
  <2>1. /\ UNCHANGED user /\ Counted
        /\ UNCHANGED aws \/ (exists /\ Give(Over(spec)))
        /\ Fail \/ Succeed(Output(Nothing, FALSE))
    BY <1>6 DEF AuthorizeSecurityGroupIngress, Request, Counted
  <2>2. AwsStep /\ live' \in Items(driver)
    BY <1>1, <2>1, LookShape, OverIsStep DEF user
  <2>. QED BY <1>1, <2>1, <2>2, FailingIsShape, SayingNothingIsShape
<1>7. CASE DeleteSecurityGroup
  <2>1. /\ UNCHANGED user /\ Counted
        /\ UNCHANGED aws \/ Remove
        /\ Fail \/ Succeed(NoState)
    BY <1>7 DEF DeleteSecurityGroup, Request, Counted
  <2>2. op = "Delete"
    BY <1>1, <1>7 DEF DeleteSecurityGroup, OpAt
  <2>. QED BY <2>1, <2>2, GoneIsShape
<1>. QED BY <1>2, <1>3, <1>4, <1>5, <1>6, <1>7 DEF GroupStep

-----------------------------------------------------------------------------
\* The requests about hosted zones.
ZoneStep ==
  \/ CreateHostedZone \/ GetHostedZone \/ listRecordSets \/ ChangeResourceRecordSets
  \/ DeleteHostedZone

\* The requests about hosted zones have the shape.
LEMMA ZoneShape ==
  ASSUME IInv, ZoneStep
  PROVE  Shape
<1>0. driver = "dns" /\ pc # "idle"
  BY DEF IInv, ControlOK, PlacesOf, ZoneStep, CreateHostedZone, GetHostedZone, listRecordSets,
         ChangeResourceRecordSets, DeleteHostedZone
<1>1. ControlOK /\ AwsOK /\ OpAt(pc, op) /\ Silent /\ driver \in AllDrivers
  BY <1>0, NothingPending DEF Silent
<1>2. CASE CreateHostedZone
  <2>1. /\ UNCHANGED user /\ Counted
        /\ UNCHANGED aws \/ Make(Nothing)
        /\ Fail \/ Succeed(Output(Nothing, FALSE))
    BY <1>2 DEF CreateHostedZone, Request, Counted
  <2>2. op = "Create"
    BY <1>1, <1>2 DEF CreateHostedZone, OpAt
  <2>3. AwsStep
    BY <1>0, <2>1, <2>2, LookingIsStep, MakingIsStep, NothingIsItems
  <2>4. live' \in Items(driver)
    BY <2>1, NothingIsItems, LookShape DEF Make
  <2>. QED BY <1>1, <2>1, <2>3, <2>4, FailingIsShape, SayingNothingIsShape
<1>3. CASE GetHostedZone
  <2>1. /\ UNCHANGED user /\ Counted /\ UNCHANGED aws
        /\ \/ Fail
           \/ Goto(IF pc = "get zone" THEN "list records" ELSE "list records again")
    BY <1>3 DEF GetHostedZone, Look, Request, Counted
  <2>2. \E q \in PlacesOf(driver) :
           OpAt(q, op) /\ q = IF pc = "get zone" THEN "list records" ELSE "list records again"
    BY <1>0, <1>1 DEF OpAt, PlacesOf
  <2>. QED BY <1>0, <2>1, <2>2, LookShape, FailingIsShape, GoingIsShape
<1>4. CASE listRecordSets
  <2>1. /\ UNCHANGED user /\ Counted /\ UNCHANGED aws
        /\ \/ Fail
           \/ Succeed(Output(live, TRUE))
           \/ Goto(IF op = "Delete" THEN "delete zone"
                   ELSE IF Set(spec) = {} THEN "get zone again" ELSE "change")
    BY <1>4 DEF listRecordSets, Look, Request, Counted
  <2>2. \E q \in PlacesOf(driver) :
           OpAt(q, op) /\ q = IF op = "Delete" THEN "delete zone"
                              ELSE IF Set(spec) = {} THEN "get zone again" ELSE "change"
    BY <1>0, <1>1 DEF OpAt, PlacesOf
  <2>3. Shown(Output(live, TRUE))
    BY <1>1, <2>1, LookShape, SilentPrintsNothing, OutputIsShown DEF AwsOK
  <2>. QED BY <1>0, <2>1, <2>2, <2>3, LookShape, FailingIsShape, GoingIsShape, SucceedingIsShape
<1>5. CASE ChangeResourceRecordSets
  <2>1. /\ UNCHANGED user /\ Counted
        /\ UNCHANGED aws \/ (exists /\ Give(Over(spec)))
        /\ Fail \/ Goto("get zone again")
    BY <1>5 DEF ChangeResourceRecordSets, Request, Counted
  <2>2. AwsStep
    BY <1>1, <2>1, LookShape, OverIsStep DEF user
  <2>3. "get zone again" \in PlacesOf(driver) /\ OpAt("get zone again", op)
    BY <1>0, <1>1 DEF OpAt, PlacesOf
  <2>. QED BY <1>0, <2>1, <2>2, <2>3, FailingIsShape, GoingIsShape
<1>6. CASE DeleteHostedZone
  <2>1. /\ UNCHANGED user /\ Counted
        /\ UNCHANGED aws \/ Remove
        /\ Fail \/ Succeed(NoState)
    BY <1>6 DEF DeleteHostedZone, Request, Counted
  <2>2. op = "Delete"
    BY <1>1, <1>6 DEF DeleteHostedZone, OpAt
  <2>. QED BY <2>1, <2>2, GoneIsShape
<1>. QED BY <1>2, <1>3, <1>4, <1>5, <1>6 DEF ZoneStep

-----------------------------------------------------------------------------
\* The requests about container services.
ServiceStep ==
  \/ RegisterTaskDefinition \/ CreateService \/ UpdateService \/ DrainService
  \/ DeleteService \/ ScaleService

\* The requests about container services have the shape: CreateService gives
\* the image that Create has checked (ecs.go:52).
LEMMA ServiceShape ==
  ASSUME IInv, ServiceStep
  PROVE  Shape
<1>0. driver = "ecs" /\ pc # "idle"
  BY DEF IInv, ControlOK, PlacesOf, ServiceStep, RegisterTaskDefinition, CreateService,
         UpdateService, DrainService, DeleteService, ScaleService
<1>1. ControlOK /\ AwsOK /\ OpAt(pc, op) /\ Silent /\ driver \in AllDrivers
  BY <1>0, NothingPending DEF Silent
<1>2. CASE RegisterTaskDefinition
  <2>1. /\ UNCHANGED user /\ Counted /\ UNCHANGED aws
        /\ \/ Fail
           \/ Goto(IF op = "Create" THEN "create service" ELSE "update service")
    BY <1>2 DEF RegisterTaskDefinition, Look, Request, Counted
  <2>2. \E q \in PlacesOf(driver) :
           OpAt(q, op) /\ q = IF op = "Create" THEN "create service" ELSE "update service"
    BY <1>0, <1>1 DEF OpAt, PlacesOf
  <2>. QED BY <1>0, <2>1, <2>2, LookShape, FailingIsShape, GoingIsShape
<1>3. CASE CreateService
  <2> DEFINE items == [k \in Keys |-> IF k = Image THEN containerDefinition(spec)
                                       ELSE IF spec[k] = Absent THEN Present ELSE spec[k]]
  <2>1. /\ UNCHANGED user /\ Counted
        /\ UNCHANGED aws \/ Make(items)
        /\ Fail \/ Succeed(Output(Nothing, FALSE))
    BY <1>3 DEF CreateService, Request, Counted
  <2>2. op = "Create"
    BY <1>1, <1>3 DEF CreateService, OpAt
  <2>3. items \in Items(driver) /\ items[Image] # Absent
    BY <1>0, <1>1, <2>2, ResourceAssumption
       DEF ControlOK, Items, ItemValues, containerDefinition, Image, Keys
  <2> HIDE DEF items
  <2>4. AwsStep
    BY <2>1, <2>2, <2>3, LookingIsStep, MakingIsStep
  <2>5. live' \in Items(driver)
    BY <2>1, <2>3, LookShape DEF Make
  <2>. QED BY <1>1, <2>1, <2>4, <2>5, FailingIsShape, SayingNothingIsShape
<1>4. CASE UpdateService
  <2>1. /\ UNCHANGED user /\ Counted
        /\ UNCHANGED aws \/ (exists /\ Give(Over(spec)))
        /\ Fail \/ Succeed(Output(Nothing, FALSE))
    BY <1>4 DEF UpdateService, Request, Counted
  <2>2. AwsStep /\ live' \in Items(driver)
    BY <1>1, <2>1, LookShape, OverIsStep DEF user
  <2>. QED BY <1>1, <2>1, <2>2, FailingIsShape, SayingNothingIsShape
<1>5. CASE DrainService
  <2>1. /\ UNCHANGED user /\ Counted
        /\ UNCHANGED aws \/ (exists /\ Give(With(Replicas, Absent)))
        /\ Goto("delete service")
    BY <1>5 DEF DrainService, Request, Counted
  <2>2. op = "Delete" /\ OpAt("delete service", op) /\ "delete service" \in PlacesOf(driver)
    BY <1>0, <1>1, <1>5 DEF DrainService, OpAt, PlacesOf
  <2>3. Replicas \in Keys /\ Replicas # Image /\ Absent \in ItemValues(driver, Replicas)
    BY ResourceAssumption, ItemValuesType DEF Replicas, Image, Keys
  <2>4. AwsStep
    BY <1>1, <2>1, <2>2, <2>3, LookingIsStep, WithIsStep DEF user
  <2>. QED BY <1>0, <2>1, <2>2, <2>4, GoingIsShape
<1>6. CASE DeleteService
  <2>1. /\ UNCHANGED user /\ Counted
        /\ UNCHANGED aws \/ Remove
        /\ Fail \/ Succeed(NoState)
    BY <1>6 DEF DeleteService, Request, Counted
  <2>2. op = "Delete"
    BY <1>1, <1>6 DEF DeleteService, OpAt
  <2>. QED BY <2>1, <2>2, GoneIsShape
<1>7. CASE ScaleService
  <2>1. PICK replicas \in Values :
          /\ UNCHANGED user /\ Counted
          /\ UNCHANGED aws \/ (exists /\ Give(With(Replicas, replicas)))
          /\ Return /\ UNCHANGED << destroy, current, dirty >>
    BY <1>7 DEF ScaleService, Request, Counted
  <2>2. op # "Update"
    BY <1>1, <1>7 DEF ScaleService, OpAt
  <2>3. Replicas \in Keys /\ Replicas # Image /\ replicas \in ItemValues(driver, Replicas)
    BY <1>0, ResourceAssumption DEF Replicas, Image, Keys, ItemValues
  <2>4. AwsStep
    BY <1>1, <2>1, <2>2, <2>3, LookingIsStep, WithIsStep DEF user
  <2>. QED BY <1>0, <2>1, <2>4 DEF Shape, LocalStep, Scaled
<1>. QED BY <1>2, <1>3, <1>4, <1>5, <1>6, <1>7 DEF ServiceStep

-----------------------------------------------------------------------------
\* The requests of drivers with attributes, and the operations that send them.
LEMMA AttributePlaces ==
  ASSUME IInv, driver \in WithAttributes, pc # "idle"
  PROVE  /\ ControlOK /\ AwsOK /\ OpAt(pc, op)
         /\ driver \in AllDrivers /\ driver \notin WithItems /\ driver # "iam"
         /\ PlacesOf(driver) = {"create", "versioning", "encryption", "read again", "location",
                                "modify", "read", "remove"}
         /\ \A q \in {"versioning", "encryption", "read again", "location", "modify", "read"} :
              OpAt(q, op)
<1>1. driver \notin WithItems /\ driver # "iam" /\ driver \in AllDrivers
  BY DEF WithAttributes, WithItems, AllDrivers
<1>2. ControlOK /\ AwsOK /\ OpAt(pc, op)
  BY <1>1, NothingPending
<1>. QED BY <1>1, <1>2 DEF PlacesOf, OpAt, WithItems

\* Drivers with attributes carry on with any request but the first and the
\* last.
LEMMA FurtherIsShape ==
  ASSUME IInv, driver \in WithAttributes, pc # "idle", UNCHANGED user, Counted, AwsStep,
         NEW q \in {"versioning", "encryption", "read again", "location", "modify", "read"},
         Goto(q)
  PROVE  Shape
<1>1. q \in PlacesOf(driver) /\ OpAt(q, op) /\ driver # "iam"
  BY AttributePlaces
<1>. QED BY <1>1, GoingIsShape

\* Success of a driver that returns what is there.
LEMMA ShowingIsShape ==
  ASSUME IInv, driver \in WithAttributes, UNCHANGED user, Counted, AwsStep,
         live' \in Items(driver), Succeed(Output(live', FALSE))
  PROVE  Shape
<1>1. driver \in AllDrivers
  BY DEF AllDrivers
<1>. QED BY <1>1, LiveIsShown, SucceedingIsShape

\* Create of a driver with attributes.
LEMMA CreatesShape ==
  ASSUME IInv, driver \in WithAttributes, NEW possible \in BOOLEAN, Creates(possible)
  PROVE  Shape
<1>1. /\ pc = "create" /\ UNCHANGED user /\ Counted
      /\ UNCHANGED aws \/ Make(Defaulted)
      /\ \/ Fail
         \/ Make(Defaulted) /\ Succeed(Output(live', FALSE))
  BY DEF Creates, Request, Counted
<1>2. op = "Create" /\ Defaulted \in Items(driver) /\ driver # "ecs"
  BY <1>1, AttributePlaces, DefaultedIsItems DEF OpAt, ControlOK, WithItems
<1>3. AwsStep
  BY <1>1, <1>2, LookingIsStep, MakingIsStep
<1>4. Make(Defaulted) => live' \in Items(driver)
  BY <1>2 DEF Make
<1>. QED BY <1>1, <1>3, <1>4, FailingIsShape, ShowingIsShape

\* A modification changes only what the spec asks for.
LEMMA ModifiedIsStep ==
  ASSUME IInv, driver \in WithAttributes, UNCHANGED driver, exists, Give(Modified)
  PROVE  AwsStep /\ live' \in Items(driver)
<1>1. Modified \in Items(driver) /\ \A k \in Keys : Modified[k] \in {live[k], spec[k]}
  BY ModifiedIsItems DEF IInv, AwsOK, ControlOK
<1>2. Keeps
  BY <1>1 DEF Keeps, Give, Set
<1>3. driver # "ecs"
  BY DEF WithAttributes
<1>. QED BY <1>1, <1>2, <1>3 DEF AwsStep, Given, Give

\* Update of a driver with attributes.
LEMMA ModifyShape ==
  ASSUME IInv, driver \in WithAttributes, pc = "modify", UNCHANGED user, Counted,
         UNCHANGED aws \/ (exists /\ Give(Modified)),
         Fail \/ Goto("read again") \/ Succeed(Output(live', FALSE))
  PROVE  Shape
<1>1. AwsStep /\ live' \in Items(driver)
  BY LookShape, ModifiedIsStep DEF user
<1>. QED BY <1>1, FailingIsShape, FurtherIsShape, ShowingIsShape

\* The read before Update or Delete.
LEMMA ReadsFirstShape ==
  ASSUME IInv, driver \in WithAttributes, NEW q \in {"read again", "modify"}, ReadsFirst(q)
  PROVE  Shape
<1>1. /\ pc = "read" /\ UNCHANGED user /\ Counted /\ UNCHANGED aws
      /\ \/ Fail
         \/ op = "Delete" /\ Goto("remove")
         \/ Goto(q)
  BY DEF ReadsFirst, Look, Request, Counted
<1>2. AwsStep
  BY <1>1, LookShape
<1>3. CASE op = "Delete" /\ Goto("remove")
  <2>1. "remove" \in PlacesOf(driver) /\ OpAt("remove", op) /\ driver # "iam"
    BY <1>1, <1>3, AttributePlaces DEF OpAt
  <2>. QED BY <1>1, <1>2, <1>3, <2>1, GoingIsShape
<1>. QED BY <1>1, <1>2, <1>3, FailingIsShape, FurtherIsShape

\* The read whose answer Update returns.
LEMMA ReadsLastShape ==
  ASSUME IInv, driver \in WithAttributes, ReadsLast
  PROVE  Shape
<1>1. /\ UNCHANGED user /\ Counted /\ UNCHANGED aws
      /\ Fail \/ Succeed(Output(live, FALSE))
  BY DEF ReadsLast, Look, Request, Counted
<1>2. AwsStep /\ live' \in Items(driver) /\ live' = live
  BY <1>1, LookShape DEF aws
<1>. QED BY <1>1, <1>2, FailingIsShape, ShowingIsShape

\* Delete of a driver with attributes.
LEMMA RemovesShape ==
  ASSUME IInv, driver \in WithAttributes, Removes
  PROVE  Shape
<1>1. /\ pc = "remove" /\ UNCHANGED user /\ Counted
      /\ UNCHANGED aws \/ Remove
      /\ Fail \/ Succeed(NoState)
  BY DEF Removes, Request, Counted
<1>2. op = "Delete"
  BY <1>1, AttributePlaces DEF OpAt
<1>. QED BY <1>1, <1>2, GoneIsShape

-----------------------------------------------------------------------------
\* The requests about buckets.
BucketStep ==
  \/ CreateBucket \/ PutBucketVersioning \/ PutBucketEncryption \/ HeadBucket
  \/ GetBucketLocation \/ DeleteBucket

\* The requests about buckets have the shape.
LEMMA BucketShape ==
  ASSUME IInv, BucketStep
  PROVE  Shape
<1>0. driver = "s3" /\ pc # "idle" /\ driver \in WithAttributes
  BY DEF BucketStep, CreateBucket, PutBucketVersioning, PutBucketEncryption, HeadBucket,
         GetBucketLocation, DeleteBucket, Removes, WithAttributes
<1>1. ControlOK /\ AwsOK /\ OpAt(pc, op)
  BY <1>0, AttributePlaces
<1>2. \A k \in Keys : /\ Present \in ItemValues(driver, k)
                      /\ k \in Set(spec) => spec[k] = Present
  BY <1>0, <1>1 DEF ControlOK, Items, ItemValues, Set
<1>3. Varying \in Keys /\ Fixed \in Keys
  BY DEF Varying, Fixed, Keys
<1>4. CASE CreateBucket
  <2>1. /\ pc = "create" /\ UNCHANGED user /\ Counted
        /\ UNCHANGED aws \/ Make(Nothing)
        /\ Fail \/ AfterBucket
    BY <1>4 DEF CreateBucket, Request, Counted
  <2>2. op = "Create"
    BY <1>1, <2>1 DEF OpAt
  <2>3. AwsStep /\ live' \in Items(driver)
    BY <1>0, <2>1, <2>2, LookShape, MakingIsStep, NothingIsItems
  <2>4. AfterBucket => Goto("versioning") \/ Goto("encryption") \/ Succeed(Output(live', FALSE))
    BY DEF AfterBucket
  <2>. QED BY <1>0, <2>1, <2>3, <2>4, FailingIsShape, FurtherIsShape, ShowingIsShape
<1>5. CASE PutBucketVersioning
  <2>1. /\ UNCHANGED user /\ Counted
        /\ UNCHANGED aws \/ (exists /\ Give(With(Varying, Present)))
        /\ Fail \/ Goto("read again") \/ Goto("encryption") \/ Succeed(Output(live', FALSE))
    BY <1>5 DEF PutBucketVersioning, Request, Counted
  <2>2. AwsStep /\ live' \in Items(driver)
    BY <1>0, <1>1, <1>2, <1>3, <2>1, LookShape, WithIsStep DEF user
  <2>. QED BY <1>0, <2>1, <2>2, FailingIsShape, FurtherIsShape, ShowingIsShape
<1>6. CASE PutBucketEncryption
  <2>1. /\ UNCHANGED user /\ Counted
        /\ UNCHANGED aws \/ (exists /\ Give(With(Fixed, Present)))
        /\ Fail \/ Succeed(Output(live', FALSE))
    BY <1>6 DEF PutBucketEncryption, Request, Counted
  <2>2. AwsStep /\ live' \in Items(driver)
    BY <1>0, <1>1, <1>2, <1>3, <2>1, LookShape, WithIsStep DEF user
  <2>. QED BY <1>0, <2>1, <2>2, FailingIsShape, ShowingIsShape
<1>7. CASE HeadBucket \/ GetBucketLocation
  <2>1. /\ UNCHANGED user /\ Counted /\ UNCHANGED aws
        /\ Fail \/ Goto("location") \/ Succeed(Output(live, FALSE))
    BY <1>7 DEF HeadBucket, GetBucketLocation, Look, Request, Counted
  <2>2. AwsStep /\ live' \in Items(driver) /\ live' = live
    BY <2>1, LookShape DEF aws
  <2>. QED BY <1>0, <2>1, <2>2, FailingIsShape, FurtherIsShape, ShowingIsShape
<1>8. CASE DeleteBucket
  BY <1>0, <1>8, RemovesShape DEF DeleteBucket
<1>. QED BY <1>4, <1>5, <1>6, <1>7, <1>8 DEF BucketStep

-----------------------------------------------------------------------------
\* The requests that make a resource with attributes.
CreateStep ==
  \/ CreateDBInstance \/ CreateRepository \/ CreateCluster \/ CreateReplicationGroup
  \/ CreateVpc \/ RequestCertificate \/ CreateApi

\* They have the shape.
LEMMA CreateShape ==
  ASSUME IInv, CreateStep
  PROVE  Shape
<1>1. driver \in WithAttributes
      /\ (Creates(TRUE) \/ Creates(~exists))
  BY DEF CreateStep, CreateDBInstance, CreateRepository, CreateCluster, CreateReplicationGroup,
         CreateVpc, RequestCertificate, CreateApi, WithAttributes
<1>2. exists \in BOOLEAN
  BY DEF IInv, AwsOK
<1>3. CASE Creates(TRUE)
  BY <1>1, <1>3, CreatesShape
<1>4. CASE Creates(~exists)
  BY <1>1, <1>2, <1>4, CreatesShape
<1>. QED BY <1>1, <1>3, <1>4

\* A second request for a load balancer finds the first one.
LEMMA BalancerShape ==
  ASSUME IInv, CreateLoadBalancer
  PROVE  Shape
<1>0. driver = "alb" /\ pc = "create" /\ driver \in WithAttributes /\ driver \in AllDrivers
  BY DEF CreateLoadBalancer, WithAttributes, AllDrivers
<1>1. /\ UNCHANGED user /\ Counted
      /\ UNCHANGED aws \/ Make(Defaulted)
      /\ Fail \/ Succeed(Output(live', FALSE))
  BY DEF CreateLoadBalancer, Request, Counted
<1>2. op = "Create" /\ Defaulted \in Items(driver)
  BY <1>0, AttributePlaces, DefaultedIsItems DEF OpAt, ControlOK
<1>3. AwsStep /\ live' \in Items(driver)
  BY <1>0, <1>1, <1>2, LookShape, MakingIsStep
<1>. QED BY <1>0, <1>1, <1>3, FailingIsShape, ShowingIsShape

\* The requests that modify a resource with attributes.
ModifyStep ==
  \/ ModifyDBInstance \/ PutLifecyclePolicy \/ UpdateClusterVersion \/ ModifyReplicationGroup
  \/ ModifyLoadBalancerAttributes \/ CreateTags \/ UpdateApi

\* They have the shape.
LEMMA ModifyStepShape ==
  ASSUME IInv, ModifyStep
  PROVE  Shape
<1>1. driver \in WithAttributes /\ pc = "modify"
  BY DEF ModifyStep, ModifyDBInstance, PutLifecyclePolicy, UpdateClusterVersion,
         ModifyReplicationGroup, ModifyLoadBalancerAttributes, CreateTags, UpdateApi, Modifies,
         WithAttributes
<1>2. /\ UNCHANGED user /\ Counted
      /\ UNCHANGED aws \/ (exists /\ Give(Modified))
      /\ Fail \/ Goto("read again") \/ Succeed(Output(live', FALSE))
  BY DEF ModifyStep, ModifyDBInstance, PutLifecyclePolicy, UpdateClusterVersion,
         ModifyReplicationGroup, ModifyLoadBalancerAttributes, CreateTags, UpdateApi, Modifies,
         Request, Counted
<1>. QED BY <1>1, <1>2, ModifyShape

\* The requests that read a resource with attributes.
ReadStep ==
  \/ DescribeRepositories \/ DescribeCluster \/ DescribeLoadBalancers \/ DescribeVpcs
  \/ describeCert \/ GetApi

\* They have the shape.
LEMMA ReadShape ==
  ASSUME IInv, ReadStep
  PROVE  Shape
<1>1. /\ driver \in WithAttributes
      /\ ReadsLast \/ \E q \in {"read again", "modify"} : ReadsFirst(q)
  BY DEF ReadStep, DescribeRepositories, DescribeCluster, DescribeLoadBalancers, DescribeVpcs,
         describeCert, GetApi, WithAttributes
<1>. QED BY <1>1, ReadsLastShape, ReadsFirstShape

\* The requests that remove a resource with attributes.
RemoveStep ==
  \/ DeleteDBInstance \/ DeleteRepository \/ DeleteCluster \/ DeleteReplicationGroup
  \/ DeleteLoadBalancer \/ DeleteVpc \/ DeleteCertificate \/ DeleteApi

\* They have the shape.
LEMMA RemoveShape ==
  ASSUME IInv, RemoveStep
  PROVE  Shape
<1>1. driver \in WithAttributes /\ Removes
  BY DEF RemoveStep, DeleteDBInstance, DeleteRepository, DeleteCluster, DeleteReplicationGroup,
         DeleteLoadBalancer, DeleteVpc, DeleteCertificate, DeleteApi, WithAttributes
<1>. QED BY <1>1, RemovesShape

-----------------------------------------------------------------------------
\* The requests about roles.
RoleStep ==
  \/ CreateRole \/ UpdateAssumeRolePolicy \/ GetRole \/ ListPolicies \/ AttachRolePolicy
  \/ Attached \/ DetachRolePolicy \/ Detached \/ ListPoliciesAgain \/ ListForDelete \/ DeleteRole

\* Every request of every driver has the shape.
LEMMA ServeShape ==
  ASSUME IInv, Serve
  PROVE  Shape /\ pc # "idle"
<1>1. CASE RoleStep
  BY <1>1, RolesAreOfIAM, IAMCreate, IAMRead, IAMList, IAMAttach, IAMDetach, IAMDone, IAMEnd
     DEF RoleStep
<1>2. CASE GroupStep
  <2>1. pc # "idle"
    BY <1>2 DEF GroupStep, CreateSecurityGroup, ReadGroup, DescribeRules,
                RevokeSecurityGroupIngress, AuthorizeSecurityGroupIngress, DeleteSecurityGroup
  <2>. QED BY <1>2, <2>1, GroupShape
<1>3. CASE ZoneStep
  <2>1. pc # "idle"
    BY <1>3 DEF ZoneStep, CreateHostedZone, GetHostedZone, listRecordSets,
                ChangeResourceRecordSets, DeleteHostedZone
  <2>. QED BY <1>3, <2>1, ZoneShape
<1>4. CASE ServiceStep
  <2>1. pc # "idle"
    BY <1>4 DEF ServiceStep, RegisterTaskDefinition, CreateService, UpdateService, DrainService,
                DeleteService, ScaleService
  <2>. QED BY <1>4, <2>1, ServiceShape
<1>5. CASE BucketStep
  <2>1. pc # "idle"
    BY <1>5 DEF BucketStep, CreateBucket, PutBucketVersioning, PutBucketEncryption, HeadBucket,
                GetBucketLocation, DeleteBucket, Removes
  <2>. QED BY <1>5, <2>1, BucketShape
<1>6. CASE CreateStep \/ CreateLoadBalancer
  <2>1. pc # "idle"
    BY <1>6 DEF CreateStep, CreateDBInstance, CreateRepository, CreateCluster,
                CreateReplicationGroup, CreateVpc, RequestCertificate, CreateApi, Creates,
                CreateLoadBalancer
  <2>. QED BY <1>6, <2>1, CreateShape, BalancerShape
<1>7. CASE ModifyStep
  <2>1. pc # "idle"
    BY <1>7 DEF ModifyStep, ModifyDBInstance, PutLifecyclePolicy, UpdateClusterVersion,
                ModifyReplicationGroup, ModifyLoadBalancerAttributes, CreateTags, UpdateApi,
                Modifies
  <2>. QED BY <1>7, <2>1, ModifyStepShape
<1>8. CASE ReadStep
  <2>1. pc # "idle"
    BY <1>8 DEF ReadStep, DescribeRepositories, DescribeCluster, DescribeLoadBalancers,
                DescribeVpcs, describeCert, GetApi, ReadsFirst, ReadsLast
  <2>. QED BY <1>8, <2>1, ReadShape
<1>9. CASE RemoveStep
  <2>1. pc # "idle"
    BY <1>9 DEF RemoveStep, DeleteDBInstance, DeleteRepository, DeleteCluster,
                DeleteReplicationGroup, DeleteLoadBalancer, DeleteVpc, DeleteCertificate,
                DeleteApi, Removes
  <2>. QED BY <1>9, <2>1, RemoveShape
<1>. QED
  BY <1>1, <1>2, <1>3, <1>4, <1>5, <1>6, <1>7, <1>8, <1>9
     DEF Serve, RoleStep, GroupStep, ZoneStep, ServiceStep, BucketStep, CreateStep, ModifyStep,
         ReadStep, RemoveStep

-----------------------------------------------------------------------------
\* The invariant holds at first.
LEMMA InitIsIInv ==
  ASSUME Init
  PROVE  IInv
<1>1. AwsOK
  BY NothingIsItems DEF Init, AwsOK
<1>2. ControlOK
  BY DEF Init, ControlOK
<1>3. CountersOK
  BY ResourceAssumption DEF Init, CountersOK
<1>4. RecordOK
  BY DEF Init, RecordOK
<1>. QED BY <1>1, <1>2, <1>3, <1>4 DEF IInv

\* An operation begins with a request of its driver.
LEMMA BeginningKeepsIInv ==
  ASSUME IInv, NEW o \in {"Create", "Update", "Delete"}, NEW q \in PlacesOf(driver), OpAt(q, o),
         q \notin {"attach", "detach"},
         o = "Create" /\ driver = "ecs" => spec[Image] # Absent,
         Begin(o, q)
  PROVE  IInv'
<1>0. /\ pc = "idle" /\ pc' = q /\ op' = o
      /\ UNCHANGED << driver, spec, config, commands, destroy, current, exists, live, put, drop,
                      dirty, failures >>
  BY DEF Begin, user, aws, local
<1>1. q # "idle" /\ o # "none"
  BY ResourceAssumption, IdleIsNoPlace DEF IInv, ControlOK
<1>2. put = {} /\ drop = {}
  BY <1>0 DEF IInv, ControlOK
<1>3. AwsOK'
  BY <1>0 DEF IInv, AwsOK
<1>4. ControlOK'
  BY <1>0, <1>1, <1>2 DEF IInv, ControlOK
<1>5. CountersOK'
  BY <1>0 DEF IInv, CountersOK
<1>6. RecordOK'
  BY <1>0, <1>1 DEF RecordOK
<1>. QED BY <1>3, <1>4, <1>5, <1>6 DEF IInv

\* The engine keeps the invariant.
LEMMA PlanKeepsIInv ==
  ASSUME IInv, Plan
  PROVE  IInv'
<1>0. driver \in AllDrivers
  BY ResourceAssumption DEF IInv, ControlOK
<1>1. CASE Create
  <2>1. /\ FirstOfCreate \in PlacesOf(driver) /\ OpAt(FirstOfCreate, "Create")
        /\ FirstOfCreate \notin {"attach", "detach"}
    BY <1>0 DEF FirstOfCreate, PlacesOf, OpAt
  <2>2. Begin("Create", FirstOfCreate) /\ (driver = "ecs" => spec[Image] # Absent)
    BY <1>1 DEF Create
  <2>. QED BY <2>1, <2>2, BeginningKeepsIInv
<1>2. CASE Update
  <2>1. PICK q \in FirstOfUpdate : Begin("Update", q)
    BY <1>2 DEF Update
  <2>2. q \in PlacesOf(driver) /\ OpAt(q, "Update") /\ q \notin {"attach", "detach"}
    <3>1. CASE driver \in WithItems
      BY <2>1, <3>1 DEF FirstOfUpdate, PlacesOf, OpAt, WithItems
    <3>2. CASE driver \in WithAttributes
      <4>1. q \in {"read", "modify", "read again", "versioning"}
        BY <2>1, <3>2 DEF FirstOfUpdate, WithAttributes
      <4>. QED BY <3>2, <4>1 DEF PlacesOf, OpAt, WithAttributes
    <3>. QED BY <1>0, <3>1, <3>2 DEF AllDrivers
  <2>. QED BY <2>1, <2>2, BeginningKeepsIInv
<1>3. CASE Delete
  <2>1. /\ FirstOfDelete \in PlacesOf(driver) /\ OpAt(FirstOfDelete, "Delete")
        /\ FirstOfDelete \notin {"attach", "detach"}
    BY <1>0 DEF FirstOfDelete, PlacesOf, OpAt, AllDrivers, WithItems, WithAttributes
  <2>. QED BY <1>3, <2>1, BeginningKeepsIInv DEF Delete
<1>. QED BY <1>1, <1>2, <1>3 DEF Plan

\* The user keeps the invariant: an edit changes no record.
LEMMA UserKeepsIInv ==
  ASSUME IInv, Scale \/ Edit
  PROVE  IInv'
<1> USE DEF IInv
<1>1. CASE Scale
  <2>0. /\ driver = "ecs" /\ pc = "idle" /\ pc' = "scale service" /\ op' = "Scale"
        /\ commands > 0 /\ commands' = commands - 1
        /\ UNCHANGED << driver, spec, config, destroy, current, exists, live, put, drop, dirty,
                        failures >>
    BY <1>1 DEF Scale, aws, local
  <2>1. put = {} /\ drop = {}
    BY <2>0 DEF ControlOK
  <2>2. pc' \in PlacesOf(driver') /\ OpAt(pc', op')
    BY <2>0 DEF PlacesOf, OpAt
  <2>3. AwsOK'
    BY <2>0 DEF AwsOK
  <2>4. ControlOK'
    BY <2>0, <2>1, <2>2 DEF ControlOK
  <2>5. CountersOK'
    <3>1. commands \in 0 .. MaxCommands /\ MaxCommands \in Nat
      BY ResourceAssumption DEF CountersOK
    <3>2. commands > 0 /\ commands' = commands - 1
      BY <2>0
    <3>3. commands' \in 0 .. MaxCommands
      BY <3>1, <3>2
    <3>4. failures' \in 0 .. MaxFailures
      BY <2>0 DEF CountersOK
    <3>. QED BY <3>3, <3>4 DEF CountersOK
  <2>6. RecordOK'
    BY <2>0 DEF RecordOK
  <2>. QED BY <2>3, <2>4, <2>5, <2>6
<1>2. CASE Edit
  <2>0. /\ pc = "idle" /\ commands > 0 /\ commands' = commands - 1
        /\ spec' \in Items(driver) /\ config' \in Configs(driver, spec')
        /\ UNCHANGED << driver, current, exists, live, pc, op, put, drop, dirty, failures >>
    BY <1>2 DEF Edit, aws, local, ControlOK
  <2>1. destroy' \in BOOLEAN
    BY <1>2 DEF Edit, ControlOK
  <2>2. op = "none" /\ put = {} /\ drop = {}
    BY <2>0 DEF ControlOK
  <2>3. AwsOK'
    BY <2>0 DEF AwsOK
  <2>4. ControlOK'
    BY <2>0, <2>1, <2>2 DEF ControlOK
  <2>5. CountersOK'
    BY <2>0, ResourceAssumption DEF CountersOK
  <2>6. RecordOK'
    <3>1. Printed(driver)' = Printed(driver)
      BY <2>0 DEF Printed
    <3>. QED BY <2>0, <3>1 DEF RecordOK
  <2>. QED BY <2>3, <2>4, <2>5, <2>6
<1>. QED BY <1>1, <1>2

\* The death of the engine is a failure of the operation.
LEMMA RestartShape ==
  ASSUME Restart
  PROVE  Shape /\ pc # "idle"
BY LookingIsStep, FailingIsShape DEF Restart, Counted

\* A step that changes nothing keeps the invariant.
LEMMA StutterKeepsIInv ==
  ASSUME IInv, UNCHANGED vars
  PROVE  IInv'
<1>0. UNCHANGED << driver, spec, config, commands, destroy, current, exists, live, pc, op, put,
                   drop, dirty, failures >>
  BY DEF vars, user, aws, local
<1>1. AwsOK'
  BY <1>0 DEF IInv, AwsOK
<1>2. ControlOK'
  BY <1>0 DEF IInv, ControlOK
<1>3. CountersOK'
  BY <1>0 DEF IInv, CountersOK
<1>4. RecordOK'
  <2>1. Printed(driver)' = Printed(driver)
    BY <1>0 DEF Printed
  <2>. QED BY <1>0, <2>1 DEF IInv, RecordOK
<1>. QED BY <1>1, <1>2, <1>3, <1>4 DEF IInv

\* The inductive invariant holds, whichever requests fail, carried out or not,
\* and whenever the engine dies.
THEOREM InvariantHolds == Spec => []IInv
<1>1. ASSUME IInv, [Next]_vars
      PROVE  IInv'
  BY <1>1, PlanKeepsIInv, UserKeepsIInv, ServeShape, RestartShape, ShapeKeepsIInv, StutterKeepsIInv
     DEF Next
<1>. QED BY InitIsIInv, <1>1, PTL DEF Spec

\* The types; a resource that does not exist has no items, a service has an
\* image, and policies wait only while they are attached and detached.
THEOREM TypesHold == Spec => []TypeOK
<1>1. IInv => TypeOK
  <2>1. SUFFICES ASSUME IInv
                 PROVE  TypeOK
    OBVIOUS
  <2>2. current = NoState \/ current \in [printed : Items(driver), reordered : BOOLEAN]
    BY <2>1 DEF IInv, ControlOK, Records
  <2>. QED BY <2>1, <2>2 DEF IInv, AwsOK, ControlOK, CountersOK, TypeOK
<1>. QED BY <1>1, InvariantHolds, PTL

-----------------------------------------------------------------------------
\* Update of any driver but that of security groups (sg.go:118) never takes
\* away or changes an item that is there as the spec asks, also after a failed
\* update or list: a policy that stays is not detached for a moment, a list
\* that failed detaches nothing (iam.go:118).
THEOREM WhatIsAskedForStays == Spec => KeptStay
<1>1. ASSUME IInv, Next
      PROVE  Keeps
  <2>1. CASE Serve \/ Restart
    BY <1>1, <2>1, ServeShape, RestartShape DEF Shape, AwsStep
  <2>2. CASE Plan
    BY <2>2, StayingKeeps DEF Plan, Create, Update, Delete, Begin
  <2>3. CASE Scale \/ Edit
    BY <2>3, StayingKeeps DEF Scale, Edit
  <2>. QED BY <1>1, <2>1, <2>2, <2>3 DEF Next
<1>2. IInv /\ [Next]_vars =>
        [op = "Update" /\ driver # "sg" =>
           \A k \in Set(spec) : live[k] = spec[k] => live'[k] = live[k]]_vars
  BY <1>1 DEF Keeps
<1>. QED BY <1>2, InvariantHolds, PTL DEF Spec, KeptStay

\* Unless an operation has ended half done since the last success, the record
\* prints only what is there, and a resource that the engine finds nothing to
\* update of has what the keys of the spec ask for and the driver prints, a role
\* exactly the policies of the spec: no driver returns an output that hides a
\* difference (iam.go:175).
THEOREM NothingDrifts == Spec => []NoSilentDrift
<1>1. IInv => NoSilentDrift
  <2>1. SUFFICES ASSUME IInv, pc = "idle", current # NoState, ~dirty
                 PROVE  /\ \A k \in Printed(driver) : current.printed[k] \in {live[k], Absent}
                        /\ "items" \in config /\ ~Diff =>
                             IF driver = "iam" THEN Exact
                             ELSE \A k \in Set(spec) \cap Printed(driver) : live[k] = spec[k]
    BY DEF NoSilentDrift
  <2>2. IF driver = "iam"
        THEN current.printed = live \/ (current.reordered /\ current.printed = Nothing)
        ELSE \A k \in Printed(driver) : current.printed[k] = live[k]
    BY <2>1 DEF IInv, RecordOK
  <2>3. CASE driver = "iam"
    <3>1. Printed(driver) = Keys
      BY <2>3 DEF Printed, iamOutputs
    <3>2. \A k \in Printed(driver) : current.printed[k] \in {live[k], Absent}
      BY <2>2, <2>3, <3>1 DEF Nothing
    <3>3. ASSUME "items" \in config, ~Diff
          PROVE  Exact
      <4>1. current = [printed |-> [k \in Keys |-> spec[k]], reordered |-> FALSE]
        BY <2>1, <2>3, <3>1, <3>3 DEF Diff, Output
      <4>2. current.printed = [k \in Keys |-> spec[k]] /\ ~current.reordered
        BY <4>1
      <4>3. spec = [k \in Keys |-> spec[k]]
        BY <2>1 DEF IInv, ControlOK, Items
      <4>. QED BY <2>2, <2>3, <4>2, <4>3 DEF Exact
    <3>. QED BY <2>3, <3>2, <3>3
  <2>4. CASE driver # "iam"
    <3>1. \A k \in Printed(driver) : current.printed[k] = live[k]
      BY <2>2, <2>4
    <3>2. ASSUME ~Diff, NEW k \in Set(spec) \cap Printed(driver), "items" \in config
          PROVE  live[k] = spec[k]
      BY <2>4, <3>1, <3>2, SilentPrintsNothing
         DEF Diff, Silent, Printed, s3BucketToOutput, Optional
    <3>. QED BY <2>4, <3>1, <3>2
  <2>. QED BY <2>3, <2>4
<1>. QED BY <1>1, InvariantHolds, PTL

=============================================================================
