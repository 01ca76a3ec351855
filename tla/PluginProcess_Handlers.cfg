SPECIFICATION FairSpec
CONSTANTS
  me = me
  you = you
  here = here
  there = there
  Threads = {t1, t2}
  Budgets <- OnePartAtATime
  MaxFailures = 1
  None = none
  Names = {"creds"}
  Inputs <- FiveInputs
  Configs <- FourConfigs
  Storages = {"storage"}
  Steps = {"step"}
  \* One bucket with two prefixes.
  Locations = {bucket_p, bucket_q}
  RequirementSets <- UpToTwo
  Unspecified = ""
INVARIANTS TypeOK OneIdentity FreshSessions SessionsSurviveConfigure MapperCovers
PROPERTIES CallsEnd
\* A process whose calls are all answered rests.
CHECK_DEADLOCK FALSE
