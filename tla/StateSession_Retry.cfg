\* One answer gets lost and the SDK repeats the request.
SPECIFICATION SessionSpec
CONSTANTS
  Clients = {h1, h2}
  ResourceIDs = {"a", "b"}
  EmptyID = ""
  MaxName = 2
  sanitizeID <- PlainNames
  Statuses = {"active"}
  AnyStatus = "any"
  NoRecord = NoRecord
  Free = Free
  Abandoned = Abandoned
  MaxRev = 2
  PageSize = 2
  MaxAttempts = 2
  MaxLosses = 1
  MaxCrashes = 0
  RPCs <- AllRPCs
INVARIANT MutualExclusion
