\* One caller reads and lists while the other saves, deletes and locks;
\* a request or an answer gets lost and the SDK repeats it.
SPECIFICATION Spec
CONSTANTS
  lister = lister
  writer = writer
  Clients = {lister, writer}
  ResourceIDs = {"a", "b"}
  EmptyID = ""
  MaxName = 2
  sanitizeID <- PlainNames
  Statuses = {"active"}
  AnyStatus = "any"
  NoRecord = NoRecord
  MaxRev = 0
  PageSize = 2
  MaxAttempts = 2
  MaxLosses = 1
  MaxCrashes = 0
  RPCs <- ReaderAndWriter
INVARIANTS TypeOK ListExact
