\* Every driver; the user edits the spec, scales, destroys; requests fail.
SPECIFICATION FairSpec
CONSTANTS
  Drivers <- EveryDriver
  K1 = k1
  K2 = k2
  Values = {v1, v2}
  Present = v1
  Absent = absent
  NoState = NoState
  MaxCommands = 2
  MaxFailures = 2
INVARIANTS TypeOK NoSilentDrift
PROPERTIES KeptStay StaysReconciled Destroyed
\* An engine with nothing to plan rests.
CHECK_DEADLOCK FALSE
