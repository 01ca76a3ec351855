SPECIFICATION FairSpec
CONSTANTS
  t1 = t1
  t2 = t2
  a = a
  b = b
  low = low
  high = high
  wrong = wrong
  inner = inner
  outer = outer
  r1 = r1
  r2 = r2
  Targets = {t1, t2}
  NoTarget = none
  Capacities = {0, 1}
  NoCapacity = missing
  Names = {a, b}
  NoName = noname
  Settings = {low, high, wrong}
  Rejected = {wrong}
  Details = {inner, outer}
  Roles = {r1, r2}
  NoRole = norole
  Specs <- AllSpecs
  NoState = nostate
  PageSize = 2
  MaxCommands = 3
  MaxFailures = 2
  MaxRestarts = 1
INVARIANTS TypeOK NoSilentDrift
PROPERTIES AppliedExactly DeletesOnlyStale DeregisterLast Settles
CHECK_DEADLOCK FALSE
