SPECIFICATION FairSpec
CONSTANTS
  admin = admin
  worker = worker
  a = a
  b = b
  u = u
  Threads = {admin, worker}
  Works <- AdminAndWorker
  Accounts = {acc1, acc2}
  BadAccount = bad
  Mock = mock
  None = none
  Names = {a, b, u}
  Unknown = {u}
  Owners = {me, you}
  RefLists <- OneToThree
  MaxCalls = 4
  MaxFailures = 1
  MaxLog = 2
INVARIANTS TypeOK OneConfiguration HandleFindsTask
PROPERTIES DestroyedIsGone VerdictTrue LogsComplete OwnersComplete LockIsFree
CHECK_DEADLOCK FALSE
