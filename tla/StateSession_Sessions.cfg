\* Two hosts and two resources; requests and answers get lost and are not repeated,
\* and a host crashes.
SPECIFICATION FairSessionSpec
CONSTANTS
  Clients = {h1, h2}
  ResourceIDs = {"a", "b"}
  EmptyID = ""
  MaxName = 2
  sanitizeID <- PlainNames
  Statuses = {"active"}
  AnyStatus = "any"
  NoRecord = NoRecord
  Free = Free
  Abandoned = Abandoned
  MaxRev = 2
  PageSize = 2
  MaxAttempts = 1
  MaxLosses = 2
  MaxCrashes = 1
  RPCs <- AllRPCs
INVARIANTS MutualExclusion OwnershipInv
PROPERTIES NoLostUpdate ImplementsExclusiveLock RefusedOnlyWhenOwned LocksAreReleased
